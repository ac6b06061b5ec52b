--------------------------- MODULE MailboxProofs ---------------------------
(***************************************************************************)
(* Proofs about Mailbox, for every set of users, every finite set of       *)
(* messages and every number of CHAT requests.                             *)
(***************************************************************************)
EXTENDS Mailbox, FiniteSetTheorems, TLAPS

----------------------------------------------------------------------------
(***************************************************************************)
(* Sequences of messages.                                                  *)
(***************************************************************************)
In(x, s) == \E i \in DOMAIN s : s[i] = x

\* An append adds one message to what a sequence holds.
LEMMA Appended ==
    ASSUME NEW S, NEW s \in Seq(S), NEW y \in S
    PROVE  \A x : In(x, Append(s, y)) <=> In(x, s) \/ x = y
<1> DEFINE a == Append(s, y)
<1>1. /\ Len(s) \in Nat /\ DOMAIN s = 1 .. Len(s) /\ DOMAIN a = 1 .. Len(s) + 1
      /\ a[Len(s) + 1] = y /\ \A i \in DOMAIN s : a[i] = s[i]
  OBVIOUS
<1> HIDE DEF a
<1>2. \A x : In(x, a) <=> In(x, s) \/ x = y
  BY <1>1 DEF In
<1> QED BY <1>2 DEF a

\* A concatenation holds what its two parts hold.
LEMMA Concatenated ==
    ASSUME NEW S, NEW s \in Seq(S), NEW q \in Seq(S)
    PROVE  \A x : In(x, s \o q) <=> In(x, s) \/ In(x, q)
<1> DEFINE a == s \o q
<1>1. /\ Len(s) \in Nat /\ DOMAIN s = 1 .. Len(s)
      /\ Len(q) \in Nat /\ DOMAIN q = 1 .. Len(q)
      /\ DOMAIN a = 1 .. Len(s) + Len(q)
      /\ \A i \in DOMAIN a : a[i] = IF i <= Len(s) THEN s[i] ELSE q[i - Len(s)]
  OBVIOUS
<1> HIDE DEF a
<1>2. ASSUME NEW x, In(x, a) PROVE In(x, s) \/ In(x, q)
  BY <1>1, <1>2 DEF In
<1>3. ASSUME NEW x, In(x, s) PROVE In(x, a)
  BY <1>1, <1>3 DEF In
<1>4. ASSUME NEW x, In(x, q) PROVE In(x, a)
  <2>1. PICK j \in DOMAIN q : q[j] = x
    BY <1>4 DEF In
  <2>2. Len(s) + j \in DOMAIN a /\ a[Len(s) + j] = q[j]
    BY <1>1
  <2> QED BY <2>1, <2>2 DEF In
<1> QED BY <1>2, <1>3, <1>4 DEF a

----------------------------------------------------------------------------
(***************************************************************************)
(* Types.                                                                  *)
(***************************************************************************)
ChatSteps == {"take", "reset", "fetch", "push", "hdel", "own", "ownread",
              "reply", "flag"}
MessageSteps == {"route", "send", "status", "read", "lock", "count", "offl", "incr"}

ChatTask == [op : {"chat"}, m : Messages \cup {None}, box : Boxes, n : Nat, i : Nat,
             id : Nat, step : ChatSteps]
MessageTask == [op : {"message"}, m : Messages, box : Boxes, n : Nat,
                step : MessageSteps]
EndTask == [op : {"endchat"}, box : Boxes, id : Nat]

TypeOK ==
    /\ online \subseteq Users
    /\ screen \in [Users -> {<<Nobody, "menu">>} \cup (Users \X {"enters", "chat"})]
    /\ \A u \in Users : screen[u][1] # u
    /\ \A u \in Users : screen[u][2] # "menu" => u \in online
    /\ enters \in [Users -> Nat]
    /\ sent \subseteq Users \X Users \X Messages
    /\ count \in [Boxes -> Nat]
    /\ offl \in [Boxes -> [Indices -> Messages \cup {None}]]
    /\ hist \in [Pairs -> Seq(Messages)]
    /\ messageQueue \in [Pairs -> Seq(Messages)]
    /\ chatStatus_ \subseteq Boxes
    /\ tasks \subseteq ChatTask \cup MessageTask \cup EndTask

\* A task of a kind is a record of that kind.
LEMMA Kinds ==
    ASSUME TypeOK, NEW t \in tasks
    PROVE  /\ t.op = "chat" => t \in ChatTask
           /\ t.op = "message" => t \in MessageTask
           /\ t.op = "endchat" => t \in EndTask
           /\ t.op \in {"chat", "message", "endchat"}
           /\ t.box \in Boxes /\ PairOf(t.box) \in Pairs
BY DEF TypeOK, ChatTask, MessageTask, EndTask, PairOf, Pairs

\* r is t at another place of its handler.
Moves(t, r) ==
    /\ r.op = t.op /\ r.box = t.box
    /\ t.op = "message" => r \in MessageTask /\ r.m = t.m
    /\ t.op = "chat" => r \in ChatTask /\ r.id = t.id
    /\ t.op \in {"message", "chat"}

\* A MESSAGE task stays one as it goes on in its handler.
LEMMA MessageMoves ==
    ASSUME TypeOK, NEW t \in tasks, t.op = "message", NEW step \in MessageSteps,
           NEW n \in Nat
    PROVE  /\ Moves(t, [t EXCEPT !.step = step])
           /\ Moves(t, [t EXCEPT !.step = step, !.n = n])
<1>1. t \in MessageTask
  BY Kinds
<1> QED BY <1>1 DEF Moves, MessageTask

\* A CHAT task stays one as it goes on in its handler.
LEMMA ChatMoves ==
    ASSUME TypeOK, NEW t \in tasks, t.op = "chat", NEW step \in ChatSteps,
           NEW n \in Nat, NEW m \in Messages \cup {None}
    PROVE  /\ Moves(t, [t EXCEPT !.step = step])
           /\ Moves(t, [t EXCEPT !.step = step, !.n = n])
           /\ Moves(t, [t EXCEPT !.step = step, !.m = m])
           /\ Moves(t, [t EXCEPT !.i = t.i + 1, !.m = None, !.step = step])
<1>1. t \in ChatTask
  BY Kinds
<1>2. t.i + 1 \in Nat
  BY <1>1 DEF ChatTask
<1> QED BY <1>1, <1>2 DEF Moves, ChatTask

Stores == {t \in tasks : t.op = "message"}
Chats == {t \in tasks : t.op = "chat"}

\* The messages that were sent and have no task any more.
Finished == {m \in Messages : /\ \E s \in sent : s[3] = m
                              /\ \A t \in Stores : t.m # m}

\* A counter, and what was read from it, never exceeds the number of finished
\* messages; a CHAT reads below what it read from the counter, and goes on with
\* the messages it has found only.
Bound ==
    /\ \A b \in Boxes : count[b] <= Cardinality(Finished)
    /\ \A t \in Stores : t.step \in {"offl", "incr"} => t.n <= Cardinality(Finished)
    /\ \A t \in Chats :
          /\ t.n <= Cardinality(Finished)
          /\ t.step \in {"take", "reset"} => t.i = 0
          /\ t.step \in {"fetch", "push", "hdel", "ownread"} => t.i < t.n
          /\ t.step \in {"push", "hdel"} => t.m \in Messages

\* There are enough indices for the finished messages.
LEMMA FinishedFits ==
    /\ Cardinality(Finished) \in Nat /\ Cardinality(Finished) <= MaxStored
    /\ MaxStored \in Nat /\ IsFiniteSet(Finished)
<1>1. Finished \subseteq Messages /\ IsFiniteSet(Messages)
  BY ConstantsAssumption DEF Finished
<1> QED BY <1>1, FS_Subset, FS_CardinalityType DEF MaxStored

\* A CHAT at an index reads a message or nothing.
LEMMA FetchInRange ==
    ASSUME TypeOK, Bound, NEW t \in tasks, t.op = "chat",
           t.step \in {"fetch", "push", "hdel"}
    PROVE  t.i \in Indices /\ offl[t.box][t.i] \in Messages \cup {None}
<1>1. t.i < t.n /\ t.n <= MaxStored /\ t.i \in Nat /\ t.n \in Nat /\ MaxStored \in Nat
  BY Kinds, FinishedFits DEF Bound, Chats, ChatTask
<1>2. t.i \in Indices
  BY <1>1 DEF Indices
<1> QED BY <1>2, Kinds DEF TypeOK

\* A CHAT that counts the messages of the peer's box, or reads one of them,
\* ends or goes on to a message below its count, or to its answer.
LEMMA OwnMoves ==
    ASSUME TypeOK, Bound, NEW t \in tasks, ChatOwn(t) \/ ChatOwnRead(t)
    PROVE  /\ t.op = "chat" /\ t.step \in {"own", "ownread"}
           /\ UNCHANGED <<clients, redis, messageQueue, chatStatus_, storeMtx, history>>
           /\ \/ Done(t)
              \/ \E r : /\ Replace(t, r) /\ Moves(t, r)
                        /\ r.m = t.m /\ r.n \in {t.n, count[Swap(t.box)]}
                        /\ \/ r.step = "ownread" /\ r.i < r.n
                           \/ r.step = "reply"
<1>1. /\ t.op = "chat" /\ t.step \in {"own", "ownread"}
      /\ UNCHANGED <<clients, redis, messageQueue, chatStatus_, storeMtx, history>>
  BY DEF ChatOwn, ChatOwnRead, At
<1>2. t \in ChatTask
  BY <1>1, Kinds
<1>3. CASE ChatOwn(t)
  <2> DEFINE n == count[Swap(t.box)]
             step == IF n = 0 THEN "reply" ELSE "ownread"
             r == [t EXCEPT !.n = n, !.i = 0, !.step = step]
  <2>1. n \in Nat
    <3>1. Swap(t.box) \in Boxes
      BY <1>2 DEF ChatTask, Boxes, Swap
    <3> QED BY <3>1 DEF TypeOK
  <2>2. Replace(t, r)
    BY <1>3 DEF ChatOwn
  <2> HIDE DEF n
  <2>3. r \in ChatTask /\ r.op = t.op /\ r.box = t.box /\ r.id = t.id /\ r.m = t.m
        /\ r.n = n /\ r.i = 0 /\ r.step = step
    BY <1>2, <2>1 DEF ChatTask, ChatSteps
  <2> HIDE DEF r
  <2>4. Moves(t, r)
    BY <1>1, <2>3 DEF Moves
  <2> QED BY <1>1, <2>1, <2>2, <2>3, <2>4 DEF n
<1>4. CASE ChatOwnRead(t)
  <2>1. CASE Done(t)
    BY <1>1, <2>1
  <2>2. CASE ~Done(t)
    <3> DEFINE step == IF t.i + 1 = t.n THEN "reply" ELSE "ownread"
               r == [t EXCEPT !.i = t.i + 1, !.step = step]
    <3>1. Replace(t, r) /\ t.step = "ownread"
      BY <1>4, <2>2 DEF ChatOwnRead, At
    <3>2. t.i + 1 = t.n \/ t.i + 1 < t.n
      BY <1>1, <1>2, <3>1 DEF Bound, Chats, ChatTask
    <3>5. t.i + 1 \in Nat /\ step \in {"reply", "ownread"}
      BY <1>2 DEF ChatTask
    <3> HIDE DEF step
    <3>3. r \in ChatTask /\ r.op = t.op /\ r.box = t.box /\ r.id = t.id /\ r.m = t.m
          /\ r.n = t.n /\ r.i = t.i + 1 /\ r.step = step
      BY <1>2, <3>5 DEF ChatTask, ChatSteps
    <3> HIDE DEF r
    <3>4. Moves(t, r)
      BY <1>1, <3>3 DEF Moves
    <3> QED BY <1>1, <3>1, <3>2, <3>3, <3>4 DEF step
  <2> QED BY <2>1, <2>2
<1> QED BY <1>3, <1>4

\* A step of a task ends it or moves it, or ends the process.
LEMMA TaskMove ==
    ASSUME TypeOK, Bound, NEW t \in tasks, TaskStep(t)
    PROVE  \/ Restart
           \/ Done(t) /\ UNCHANGED sent
           \/ \E r : Replace(t, r) /\ Moves(t, r) /\ UNCHANGED sent
<1>1. ASSUME t.op = "message", NEW step \in MessageSteps, Goto(t, step), UNCHANGED sent
      PROVE  \E r : Replace(t, r) /\ Moves(t, r) /\ UNCHANGED sent
  BY <1>1, MessageMoves DEF Goto
<1>2. ASSUME t.op = "chat", NEW step \in ChatSteps, Goto(t, step), UNCHANGED sent
      PROVE  \E r : Replace(t, r) /\ Moves(t, r) /\ UNCHANGED sent
  BY <1>2, ChatMoves DEF Goto
<1>3. CASE MessageRoute(t) \/ MessageSend(t) \/ MessageStatus(t) \/ StoreLock(t)
           \/ StoreOffl(t)
  BY <1>1, <1>3 DEF MessageRoute, MessageSend, MessageStatus, StoreLock, StoreOffl, At,
     MessageSteps, clients
<1>4. CASE ChatReset(t) \/ ChatPush(t) \/ ChatReply(t)
  BY <1>2, <1>4 DEF ChatReset, ChatPush, ChatReply, At, ChatSteps, clients
<1>5. CASE ChatOwn(t) \/ ChatOwnRead(t)
  BY <1>5, OwnMoves DEF clients
<1>6. CASE MessageRead(t) \/ StoreIncr(t) \/ ChatFlag(t) \/ endChat(t)
  BY <1>6 DEF MessageRead, StoreIncr, ChatFlag, endChat, clients
<1>7. CASE StoreCount(t)
  <2>1. count[t.box] \in Nat
    BY Kinds DEF TypeOK
  <2> QED BY <1>7, <2>1, MessageMoves DEF StoreCount, At, MessageSteps, clients
<1>8. CASE ChatTake(t)
  <2>1. count[t.box] \in Nat
    BY Kinds DEF TypeOK
  <2> QED BY <1>8, <2>1, ChatMoves DEF ChatTake, At, ChatSteps, clients
<1>9. CASE ChatFetch(t)
  <2>1. CASE offl[t.box][t.i] = None
    BY <1>9, <2>1 DEF ChatFetch, clients
  <2>2. CASE offl[t.box][t.i] # None
    BY <1>9, <2>2, ChatMoves, FetchInRange, ZenonT(40) DEF ChatFetch, At, ChatSteps, clients
  <2> QED BY <2>1, <2>2
<1>10. CASE ChatHdel(t)
  BY <1>10, ChatMoves, ZenonT(40) DEF ChatHdel, At, ChatSteps, clients
<1>11. CASE MessageSendToNull(t)
  BY <1>11 DEF MessageSendToNull
<1> QED
  BY TaskStep(t), <1>3, <1>4, <1>5, <1>6, <1>7, <1>8, <1>9, <1>10, <1>11 DEF TaskStep

\* What a client's request puts into the pool.
LEMMA NewTasks ==
    ASSUME TypeOK, NEW u \in Users
    PROVE  /\ \A v \in Users : u # v =>
                 [op |-> "chat", m |-> None, box |-> <<u, v>>, n |-> 0, i |-> 0,
                  id |-> enters[u], step |-> "take"] \in ChatTask
           /\ \A m \in Messages : screen[u][2] = "chat" =>
                 /\ [op |-> "message", m |-> m, box |-> <<screen[u][1], u>>, n |-> 0,
                     step |-> "route"] \in MessageTask
                 /\ <<u, screen[u][1], m>> \in Users \X Users \X Messages
           /\ screen[u][2] = "chat" =>
                 /\ [op |-> "endchat", box |-> <<u, screen[u][1]>>, id |-> enters[u]]
                       \in EndTask
                 /\ screen[u][1] \in Users /\ <<u, screen[u][1]>> \in Boxes
<1>1. enters[u] \in Nat
  BY DEF TypeOK
<1>2. ASSUME NEW v \in Users, u # v PROVE <<u, v>> \in Boxes /\ <<v, u>> \in Boxes
  BY <1>2 DEF Boxes
<1>3. screen[u][2] = "chat" => screen[u][1] \in Users /\ screen[u][1] # u
  BY DEF TypeOK
<1> QED
  BY <1>1, <1>2, <1>3 DEF ChatTask, MessageTask, EndTask, ChatSteps, MessageSteps

\* Every variable keeps its type, and only users that are routed to are not
\* at their menu.
LEMMA TypeStep ==
    ASSUME TypeOK, Bound, [Next]_vars
    PROVE  TypeOK'
<1>1. ASSUME NEW u \in Users, ClientStep(u) PROVE TypeOK'
  <2>1. ASSUME NEW v \in Users, Enter(u, v) PROVE TypeOK'
    <3>1. tasks' \subseteq ChatTask \cup MessageTask \cup EndTask
      <4> DEFINE new == [op |-> "chat", m |-> None, box |-> <<u, v>>, n |-> 0, i |-> 0,
                         id |-> enters[u], step |-> "take"]
      <4>1. new \in ChatTask
        BY <2>1, NewTasks DEF Enter
      <4>2. tasks' = tasks \cup {new}
        BY <2>1 DEF Enter
      <4> HIDE DEF new
      <4> QED BY <4>1, <4>2 DEF TypeOK
    <3>2. enters' \in [Users -> Nat]
      BY <2>1 DEF Enter, TypeOK
    <3>3. screen' = [screen EXCEPT ![u] = <<v, "enters">>] /\ u # v /\ u \in online
      BY <2>1 DEF Enter
    <3>4. /\ screen' \in [Users -> {<<Nobody, "menu">>} \cup (Users \X {"enters", "chat"})]
          /\ \A w \in Users : screen'[w] = IF w = u THEN <<v, "enters">> ELSE screen[w]
      BY <3>3 DEF TypeOK
    <3> QED BY <2>1, <3>1, <3>2, <3>3, <3>4 DEF Enter, TypeOK, redis
  <2>2. ASSUME NEW m \in Messages, Say(u, m) PROVE TypeOK'
    <3>1. tasks' \subseteq ChatTask \cup MessageTask \cup EndTask
      <4> DEFINE new == [op |-> "message", m |-> m, box |-> <<screen[u][1], u>>, n |-> 0,
                         step |-> "route"]
      <4>1. new \in MessageTask
        BY <2>2, NewTasks DEF Say
      <4>2. tasks' = tasks \cup {new}
        BY <2>2 DEF Say
      <4> HIDE DEF new
      <4> QED BY <4>1, <4>2 DEF TypeOK
    <3>2. sent' \subseteq Users \X Users \X Messages
      BY <2>2, NewTasks DEF Say, TypeOK
    <3> QED BY <2>2, <3>1, <3>2 DEF Say, TypeOK, redis
  <2>3. ASSUME screen' = [screen EXCEPT ![u] = <<Nobody, "menu">>]
        PROVE  /\ screen' \in [Users -> {<<Nobody, "menu">>}
                                           \cup (Users \X {"enters", "chat"})]
               /\ \A w \in Users : screen'[w] = IF w = u THEN <<Nobody, "menu">>
                                                ELSE screen[w]
    BY <2>3 DEF TypeOK
  <2>4. CASE Leave(u)
    <3>1. tasks' \subseteq ChatTask \cup MessageTask \cup EndTask
      BY <2>4, NewTasks DEF Leave, TypeOK
    <3> QED
      BY <2>3, <2>4, <3>1, ConstantsAssumption DEF Leave, TypeOK, redis
  <2>5. CASE Drop(u)
    BY <2>3, <2>5, ConstantsAssumption DEF Drop, TypeOK, redis
  <2>6. CASE Return(u)
    BY <2>6 DEF Return, TypeOK, redis
  <2> QED BY <1>1, <2>1, <2>2, <2>4, <2>5, <2>6 DEF ClientStep
<1>2. CASE Restart
  BY <1>2, ConstantsAssumption DEF Restart, TypeOK, redis
<1>3. ASSUME NEW t \in tasks, TaskStep(t), ~Restart PROVE TypeOK'
  <2>1. tasks' \subseteq ChatTask \cup MessageTask \cup EndTask
    <3>1. CASE Done(t)
      BY <3>1 DEF Done, TypeOK
    <3>2. ASSUME NEW r, Replace(t, r), Moves(t, r)
          PROVE  tasks' \subseteq ChatTask \cup MessageTask \cup EndTask
      BY <3>2 DEF Replace, Moves, TypeOK
    <3> QED BY <1>3, <3>1, <3>2, TaskMove
  <2>2. t.box \in Boxes /\ PairOf(t.box) \in Pairs
        /\ (t.op = "message" => t \in MessageTask) /\ (t.op = "chat" => t \in ChatTask)
    BY Kinds
  <2>3. CASE UNCHANGED <<clients, redis, messageQueue, chatStatus_>>
    BY <2>1, <2>3 DEF clients, redis, TypeOK
  <2>4. CASE MessageRead(t)
    <3>1. t.m \in Messages
      BY <2>2, <2>4 DEF MessageRead, At, MessageTask
    <3>2. hist' \in [Pairs -> Seq(Messages)]
      BY <2>2, <2>4, <3>1 DEF MessageRead, TypeOK
    <3> QED BY <2>1, <2>4, <3>2 DEF MessageRead, clients, TypeOK
  <2>5. CASE StoreOffl(t)
    <3>1. t.m \in Messages
      BY <2>2, <2>5 DEF StoreOffl, At, MessageTask
    <3>2. offl' \in [Boxes -> [Indices -> Messages \cup {None}]]
      BY <2>2, <2>5, <3>1 DEF StoreOffl, TypeOK
    <3> QED BY <2>1, <2>5, <3>2 DEF StoreOffl, clients, TypeOK
  <2>6. CASE StoreIncr(t)
    <3>1. t.n + 1 \in Nat
      BY <2>2, <2>6 DEF StoreIncr, At, MessageTask
    <3>2. count' \in [Boxes -> Nat]
      BY <2>2, <2>6, <3>1 DEF StoreIncr, TypeOK
    <3> QED BY <2>1, <2>6, <3>2 DEF StoreIncr, clients, TypeOK
  <2>7. CASE ChatReset(t)
    <3>1. count' \in [Boxes -> Nat]
      BY <2>2, <2>7 DEF ChatReset, TypeOK
    <3> QED BY <2>1, <2>7, <3>1 DEF ChatReset, clients, TypeOK
  <2>8. CASE ChatPush(t)
    <3>0. t.m \in Messages
      BY <2>8 DEF ChatPush, At, Bound, Chats
    <3> DEFINE p == PairOf(t.box)
    <3>1. p \in Pairs
      BY <2>2
    <3>2. /\ messageQueue' = [messageQueue EXCEPT ![p] = Append(@, t.m)]
          /\ hist' = [hist EXCEPT ![p] = @ \o messageQueue'[p]]
      BY <2>8 DEF ChatPush
    <3> HIDE DEF p
    <3>3. messageQueue' \in [Pairs -> Seq(Messages)]
      BY <3>0, <3>1, <3>2 DEF TypeOK
    <3>4. hist[p] \o messageQueue'[p] \in Seq(Messages)
      BY <3>1, <3>3 DEF TypeOK
    <3>5. hist' \in [Pairs -> Seq(Messages)]
      BY <3>1, <3>2, <3>4 DEF TypeOK
    <3> QED BY <2>1, <2>8, <3>3, <3>5 DEF ChatPush, clients, TypeOK
  <2>9. CASE ChatHdel(t)
    <3>1. offl' \in [Boxes -> [Indices -> Messages \cup {None}]]
      BY <2>2, <2>9 DEF ChatHdel, TypeOK
    <3> QED BY <2>1, <2>9, <3>1 DEF ChatHdel, clients, TypeOK
  <2>10. CASE ChatReply(t)
    <3>1. t.box = <<t.box[1], t.box[2]>> /\ t.box[1] \in Users /\ t.box[2] \in Users
          /\ t.box[1] # t.box[2]
      BY <2>2 DEF Boxes
    <3>2. CASE UNCHANGED screen
      BY <2>1, <2>10, <3>2 DEF ChatReply, redis, TypeOK
    <3>3. CASE /\ screen' = [screen EXCEPT ![t.box[1]] = <<t.box[2], "chat">>]
               /\ t.box[1] \in online
      <4>1. screen' \in [Users -> {<<Nobody, "menu">>} \cup (Users \X {"enters", "chat"})]
        BY <3>1, <3>3 DEF TypeOK
      <4>2. \A w \in Users : screen'[w] = IF w = t.box[1] THEN <<t.box[2], "chat">>
                                          ELSE screen[w]
        BY <3>1, <3>3 DEF TypeOK
      <4> QED BY <2>1, <2>10, <3>1, <3>3, <4>1, <4>2 DEF ChatReply, redis, TypeOK
    <3> QED BY <2>10, <3>2, <3>3 DEF ChatReply
  <2>11. CASE ChatFlag(t)
    BY <2>1, <2>2, <2>11 DEF ChatFlag, clients, redis, TypeOK
  <2>12. CASE endChat(t)
    BY <2>1, <2>12 DEF endChat, clients, redis, TypeOK
  <2> QED
    BY <1>3, <2>3, <2>4, <2>5, <2>6, <2>7, <2>8, <2>9, <2>10, <2>11, <2>12
       DEF TaskStep, MessageRoute, MessageSend, MessageSendToNull, MessageStatus, StoreLock,
           StoreCount, ChatTake, ChatFetch, ChatOwn, ChatOwnRead
<1>4. CASE UNCHANGED vars
  BY <1>4 DEF vars, TypeOK
<1> QED BY <1>1, <1>2, <1>3, <1>4 DEF Next

----------------------------------------------------------------------------
(***************************************************************************)
(* Where messages come from.                                               *)
(***************************************************************************)
From(S, b, m) == <<b[2], b[1], m>> \in S
OfPair(S, p, m) == \E s \in S : {s[1], s[2]} = p /\ s[3] = m

\* A message has one task at most and was sent once.
SentOnce ==
    /\ \A s, t \in Stores : s.m = t.m => s = t
    /\ \A s, t \in sent : s[3] = t[3] => s = t

\* Tasks, boxes, messageQueue and the history hold what was sent to the owner
\* of the box, or in the pair.
TasksFrom ==
    /\ \A t \in Stores : From(sent, t.box, t.m)
    /\ \A t \in Chats : t.step \in {"push", "hdel"} => From(sent, t.box, t.m)
BoxesFrom == \A b \in Boxes, i \in Indices : offl[b][i] # None => From(sent, b, offl[b][i])
QueueOfPair == \A p \in Pairs : \A m : In(m, messageQueue[p]) => OfPair(sent, p, m)
HistOfPair == \A p \in Pairs : \A m : In(m, hist[p]) => OfPair(sent, p, m)

Origin == SentOnce /\ TasksFrom /\ BoxesFrom /\ QueueOfPair /\ HistOfPair

\* What was sent stays sent.
LEMMA SentGrows ==
    ASSUME sent \subseteq sent'
    PROVE  /\ \A b, m : From(sent, b, m) => From(sent', b, m)
           /\ \A p, m : OfPair(sent, p, m) => OfPair(sent', p, m)
           /\ UNCHANGED offl /\ BoxesFrom => BoxesFrom'
           /\ UNCHANGED messageQueue /\ QueueOfPair => QueueOfPair'
           /\ UNCHANGED hist /\ HistOfPair => HistOfPair'
<1>1. \A b, m : From(sent, b, m) => From(sent', b, m)
  BY DEF From
<1>2. \A p, m : OfPair(sent, p, m) => OfPair(sent', p, m)
  BY DEF OfPair
<1> QED BY <1>1, <1>2 DEF BoxesFrom, QueueOfPair, HistOfPair

\* Every step keeps SentOnce and the origin of the messages of tasks.
LEMMA SentOnceStep ==
    ASSUME TypeOK, Bound, Origin, [Next]_vars
    PROVE  SentOnce' /\ sent \subseteq sent' /\ (\A t \in Stores' : From(sent', t.box, t.m))
<1> USE DEF Origin, SentOnce, TasksFrom
<1>1. ASSUME NEW u \in Users, NEW m \in Messages, Say(u, m)
      PROVE  SentOnce' /\ sent \subseteq sent' /\ (\A t \in Stores' : From(sent', t.box, t.m))
  <2> DEFINE new == [op |-> "message", m |-> m, box |-> <<screen[u][1], u>>, n |-> 0,
                     step |-> "route"]
             s0 == <<u, screen[u][1], m>>
  <2>1. /\ new.m = m /\ new.op = "message" /\ <<new.box[2], new.box[1], new.m>> = s0
        /\ tasks' = tasks \cup {new} /\ sent' = sent \cup {s0} /\ s0[3] = m
        /\ \A s \in sent : s[3] # m
    BY <1>1 DEF Say
  <2> HIDE DEF new, s0
  <2>2. Stores' = Stores \cup {new}
    BY <2>1 DEF Stores
  <2>3. \A t \in Stores : t.m # m
    <3>1. \A t \in Stores : <<t.box[2], t.box[1], t.m>> \in sent
      BY DEF From
    <3> QED BY <2>1, <3>1
  <2>4. \A t \in Stores' : From(sent', t.box, t.m)
    BY <2>1, <2>2 DEF From
  <2>5. SentOnce'
    BY <2>1, <2>2, <2>3
  <2> QED BY <2>1, <2>4, <2>5
<1>2. CASE Stores' \subseteq Stores /\ UNCHANGED sent
  BY <1>2 DEF From
<1>3. ASSUME NEW u \in Users, NEW v \in Users, Enter(u, v)
      PROVE  Stores' \subseteq Stores /\ UNCHANGED sent
  BY <1>3 DEF Enter, Stores
<1>4. ASSUME NEW u \in Users, Leave(u) \/ Drop(u) \/ Return(u)
      PROVE  Stores' \subseteq Stores /\ UNCHANGED sent
  BY <1>4 DEF Leave, Drop, Return, Stores
<1>5. ASSUME Restart PROVE Stores' \subseteq Stores /\ UNCHANGED sent
  BY <1>5 DEF Restart, Stores
<1>6. ASSUME UNCHANGED vars PROVE Stores' \subseteq Stores /\ UNCHANGED sent
  BY <1>6 DEF vars, Stores
<1>7. ASSUME NEW t \in tasks, TaskStep(t), ~Restart
      PROVE  SentOnce' /\ sent \subseteq sent' /\ (\A s \in Stores' : From(sent', s.box, s.m))
  <2>1. CASE Done(t) /\ UNCHANGED sent
    <3>1. Stores' \subseteq Stores /\ UNCHANGED sent
      BY <2>1 DEF Done, Stores
    <3> QED BY <1>2, <3>1
  <2>2. ASSUME NEW r, Replace(t, r), Moves(t, r), UNCHANGED sent
        PROVE  SentOnce' /\ sent \subseteq sent' /\ (\A s \in Stores' : From(sent', s.box, s.m))
    <3>1. CASE t.op = "message"
      <4>1. Stores' = (Stores \ {t}) \cup {r} /\ r.m = t.m /\ r.box = t.box /\ t \in Stores
        BY <2>2, <3>1 DEF Replace, Moves, Stores
      <4> QED BY <2>2, <4>1 DEF From
    <3>2. CASE t.op # "message"
      <4>1. Stores' \subseteq Stores
        BY <2>2, <3>2 DEF Replace, Moves, Stores
      <4> QED BY <1>2, <2>2, <4>1
    <3> QED BY <3>1, <3>2
  <2> QED BY <1>7, <2>1, <2>2, TaskMove
<1> QED BY <1>1, <1>2, <1>3, <1>4, <1>5, <1>6, <1>7 DEF Next, ClientStep

\* Every step keeps the origin of what CHAT tasks, boxes and sequences hold.
LEMMA OriginStep ==
    ASSUME TypeOK, Bound, Origin, [Next]_vars
    PROVE  Origin'
<1>0. SentOnce' /\ sent \subseteq sent' /\ (\A t \in Stores' : From(sent', t.box, t.m))
  BY SentOnceStep
<1>a. /\ \A b, m : From(sent, b, m) => From(sent', b, m)
      /\ \A p, m : OfPair(sent, p, m) => OfPair(sent', p, m)
      /\ UNCHANGED offl => BoxesFrom'
      /\ UNCHANGED messageQueue => QueueOfPair'
      /\ UNCHANGED hist => HistOfPair'
  BY <1>0, SentGrows DEF Origin
<1>b. \A t \in Chats : t.step \in {"push", "hdel"} => From(sent, t.box, t.m)
  BY DEF Origin, TasksFrom
<1>c. \A b \in Boxes : \A m : From(sent, b, m) => OfPair(sent, PairOf(b), m)
  BY DEF From, OfPair, PairOf
<1> DEFINE C == \A t \in Chats' : t.step \in {"push", "hdel"} => From(sent', t.box, t.m)
<1>1. ASSUME Chats' \subseteq Chats PROVE C
  BY <1>a, <1>b, <1>1
<1>2. ASSUME NEW u \in Users, ClientStep(u) PROVE Origin'
  <2>1. UNCHANGED <<offl, messageQueue, hist>>
    BY <1>2 DEF ClientStep, Enter, Say, Leave, Drop, Return, redis
  <2>2. ASSUME NEW v \in Users, Enter(u, v) PROVE C
    <3> DEFINE new == [op |-> "chat", m |-> None, box |-> <<u, v>>, n |-> 0, i |-> 0,
                       id |-> enters[u], step |-> "take"]
    <3>1. new.step = "take" /\ tasks' = tasks \cup {new}
      BY <2>2 DEF Enter
    <3> HIDE DEF new
    <3> QED BY <1>a, <1>b, <3>1 DEF Chats
  <2>3. ASSUME ~(\E v \in Users : Enter(u, v)) PROVE Chats' \subseteq Chats
    BY <1>2, <2>3 DEF ClientStep, Say, Leave, Drop, Return, Chats
  <2> QED BY <1>0, <1>a, <1>1, <2>1, <2>2, <2>3 DEF Origin, TasksFrom
<1>3. CASE Restart
  <2>1. UNCHANGED <<offl, hist>> /\ Chats' = {}
    BY <1>3 DEF Restart, redis, Chats
  <2>2. QueueOfPair'
    BY <1>3 DEF Restart, QueueOfPair, In
  <2> QED BY <1>0, <1>a, <2>1, <2>2 DEF Origin, TasksFrom
<1>4. ASSUME NEW t \in tasks, TaskStep(t), ~Restart PROVE Origin'
  <2>0. t.box \in Boxes /\ PairOf(t.box) \in Pairs
        /\ (t.op = "message" => t \in MessageTask) /\ (t.op = "chat" => t \in ChatTask)
    BY Kinds
  <2>1. ASSUME NEW step \in ChatSteps \ {"push", "hdel"}, t.op = "chat",
               NEW r, Replace(t, r), r.step = step
        PROVE  C
    BY <1>a, <1>b, <2>1 DEF Replace, Chats
  <2>2. C
    <3>1. CASE t.op # "chat"
      <4>1. CASE Done(t)
        BY <1>1, <4>1 DEF Done, Chats
      <4>2. ASSUME NEW r, Replace(t, r), Moves(t, r) PROVE C
        BY <1>1, <3>1, <4>2 DEF Replace, Moves, Chats
      <4> QED BY <1>4, <4>1, <4>2, TaskMove
    <3>2. CASE Done(t)
      BY <1>1, <3>2 DEF Done, Chats
    <3>3. CASE t.op = "chat" /\ ~Done(t)
      <4>1. CASE ChatTake(t) \/ ChatReset(t) \/ ChatOwn(t) \/ ChatOwnRead(t) \/ ChatReply(t)
        <5>1. ASSUME NEW step \in ChatSteps, NEW n
              PROVE  /\ [t EXCEPT !.step = step].step = step
                     /\ [t EXCEPT !.step = step, !.n = n].step = step
          BY <2>0, <3>3 DEF ChatTask
        <5>2. ASSUME NEW step \in ChatSteps \ {"push", "hdel"}, Goto(t, step) PROVE C
          <6> DEFINE r == [t EXCEPT !.step = step]
          <6>1. r.step = step /\ Replace(t, r)
            BY <5>1, <5>2 DEF Goto
          <6> HIDE DEF r
          <6> QED BY <2>1, <3>3, <6>1
        <5>3. CASE ChatTake(t)
          <6> DEFINE r == [t EXCEPT !.step = "reset", !.n = count[t.box]]
          <6>1. r.step = "reset" /\ Replace(t, r)
            BY <5>1, <5>3 DEF ChatTake, ChatSteps
          <6> HIDE DEF r
          <6> QED BY <2>1, <3>3, <6>1 DEF ChatSteps
        <5>4. CASE ChatReset(t) \/ ChatReply(t)
          BY <5>2, <5>4 DEF ChatReset, ChatReply, ChatSteps
        <5>5. CASE ChatOwn(t) \/ ChatOwnRead(t)
          <6>1. PICK r : Replace(t, r) /\ r.step \in {"ownread", "reply"}
            BY <3>3, <5>5, OwnMoves
          <6> QED BY <2>1, <3>3, <6>1 DEF ChatSteps
        <5> QED BY <4>1, <5>3, <5>4, <5>5
      <4>2. CASE ChatFetch(t)
        <5> DEFINE r == [t EXCEPT !.step = "push", !.m = offl[t.box][t.i]]
        <5>1. r.m = offl[t.box][t.i] /\ r.box = t.box
          BY <2>0, <3>3 DEF ChatTask
        <5>2. offl[t.box][t.i] # None /\ Replace(t, r)
          BY <3>3, <4>2 DEF ChatFetch
        <5> HIDE DEF r
        <5>3. From(sent, r.box, r.m)
          BY <2>0, <3>3, <4>2, <5>1, <5>2, FetchInRange DEF ChatFetch, At, Origin, BoxesFrom
        <5> QED BY <1>a, <1>b, <5>2, <5>3 DEF Replace, Chats
      <4>3. CASE ChatPush(t)
        <5> DEFINE r == [t EXCEPT !.step = "hdel"]
        <5>1. r.m = t.m /\ r.box = t.box
          BY <2>0, <3>3 DEF ChatTask
        <5>2. Replace(t, r) /\ t.step = "push"
          BY <3>3, <4>3 DEF ChatPush, Goto, At
        <5> HIDE DEF r
        <5>3. From(sent, r.box, r.m)
          BY <1>b, <3>3, <5>1, <5>2 DEF Chats
        <5> QED BY <1>a, <1>b, <5>2, <5>3 DEF Replace, Chats
      <4>4. CASE ChatHdel(t)
        <5> DEFINE step == IF t.i + 1 = t.n THEN "own" ELSE "fetch"
                   r == [t EXCEPT !.i = t.i + 1, !.m = None, !.step = step]
        <5>1. r.step \in {"own", "fetch"}
          BY <2>0, <3>3 DEF ChatTask
        <5>2. Replace(t, r)
          BY <4>4 DEF ChatHdel
        <5> HIDE DEF r
        <5> QED BY <2>1, <3>3, <5>1, <5>2 DEF ChatSteps
      <4> QED
        BY <1>4, <3>3, <4>1, <4>2, <4>3, <4>4
           DEF TaskStep, MessageRoute, MessageSend, MessageSendToNull, MessageStatus,
               MessageRead, StoreLock, StoreCount, StoreOffl, StoreIncr, ChatFlag, endChat, At
    <3> QED BY <3>1, <3>2, <3>3
  <2>3. CASE UNCHANGED <<offl, hist, messageQueue>>
    BY <1>0, <1>a, <2>2, <2>3 DEF Origin, TasksFrom
  <2>4. CASE MessageRead(t)
    <3>1. t.m \in Messages /\ From(sent, t.box, t.m)
      BY <2>0, <2>4 DEF MessageRead, At, MessageTask, Origin, TasksFrom, Stores
    <3> DEFINE q == PairOf(t.box)
    <3>2. hist' = [hist EXCEPT ![q] = Append(hist[q], t.m)] /\ hist[q] \in Seq(Messages)
      BY <2>0, <2>4 DEF MessageRead, TypeOK
    <3>3. OfPair(sent, q, t.m) /\ q \in Pairs
      BY <1>c, <2>0, <3>1
    <3> HIDE DEF q
    <3>4. \A m : In(m, hist'[q]) => In(m, hist[q]) \/ m = t.m
      BY <3>1, <3>2, <3>3, Appended DEF TypeOK
    <3>5. \A p \in Pairs : p # q => hist'[p] = hist[p]
      BY <3>2 DEF TypeOK
    <3>6. HistOfPair'
      BY <1>a, <3>3, <3>4, <3>5 DEF Origin, HistOfPair
    <3> QED BY <1>0, <1>a, <2>2, <2>4, <3>6 DEF MessageRead, Origin, TasksFrom
  <2>5. CASE StoreOffl(t)
    <3>1. From(sent, t.box, t.m)
      BY <2>5 DEF StoreOffl, At, Origin, TasksFrom, Stores
    <3>2. \A b \in Boxes, i \in Indices : offl'[b][i] = offl[b][i] \/ (b = t.box /\ offl'[b][i] = t.m)
      BY <2>5 DEF StoreOffl, TypeOK
    <3>3. BoxesFrom'
      BY <1>a, <3>1, <3>2 DEF Origin, BoxesFrom
    <3> QED BY <1>0, <1>a, <2>2, <2>5, <3>3 DEF StoreOffl, Origin, TasksFrom
  <2>6. CASE ChatHdel(t)
    <3>1. \A b \in Boxes, i \in Indices : offl'[b][i] = offl[b][i] \/ offl'[b][i] = None
      BY <2>6 DEF ChatHdel, TypeOK
    <3>2. BoxesFrom'
      BY <1>a, <3>1 DEF Origin, BoxesFrom
    <3> QED BY <1>0, <1>a, <2>2, <2>6, <3>2 DEF ChatHdel, Origin, TasksFrom
  <2>7. CASE ChatPush(t)
    <3>1. t.m \in Messages /\ From(sent, t.box, t.m)
      BY <1>b, <2>7 DEF ChatPush, At, Bound, Chats
    <3> DEFINE q == PairOf(t.box)
    <3>2. /\ messageQueue' = [messageQueue EXCEPT ![q] = Append(messageQueue[q], t.m)]
          /\ hist' = [hist EXCEPT ![q] = hist[q] \o messageQueue'[q]]
      BY <2>7 DEF ChatPush
    <3>3. OfPair(sent, q, t.m) /\ q \in Pairs
      BY <1>c, <2>0, <3>1
    <3> HIDE DEF q
    <3>4. /\ messageQueue'[q] = Append(messageQueue[q], t.m)
          /\ hist'[q] = hist[q] \o messageQueue'[q]
          /\ messageQueue[q] \in Seq(Messages) /\ hist[q] \in Seq(Messages)
          /\ messageQueue'[q] \in Seq(Messages)
          /\ \A p \in Pairs : p # q => hist'[p] = hist[p] /\ messageQueue'[p] = messageQueue[p]
      <4>1. messageQueue \in [Pairs -> Seq(Messages)] /\ hist \in [Pairs -> Seq(Messages)]
        BY DEF TypeOK
      <4>2. /\ messageQueue'[q] = Append(messageQueue[q], t.m)
            /\ \A p \in Pairs : p # q => messageQueue'[p] = messageQueue[p]
        BY <3>2, <3>3, <4>1
      <4>3. /\ hist'[q] = hist[q] \o messageQueue'[q]
            /\ \A p \in Pairs : p # q => hist'[p] = hist[p]
        BY <3>2, <3>3, <4>1
      <4>4. Append(messageQueue[q], t.m) \in Seq(Messages)
        BY <3>1, <3>3, <4>1
      <4> QED BY <3>3, <4>1, <4>2, <4>3, <4>4
    <3>5. \A m : In(m, messageQueue'[q]) => In(m, messageQueue[q]) \/ m = t.m
      BY <3>1, <3>4, Appended
    <3>6. \A m : In(m, hist'[q]) => In(m, hist[q]) \/ In(m, messageQueue'[q])
      <4>1. \A a \in Seq(Messages), b \in Seq(Messages) :
               \A m : In(m, a \o b) <=> In(m, a) \/ In(m, b)
        BY Concatenated
      <4>2. \A m : In(m, hist[q] \o messageQueue'[q])
                     <=> In(m, hist[q]) \/ In(m, messageQueue'[q])
        BY <3>4, <4>1
      <4>3. hist'[q] = hist[q] \o messageQueue'[q]
        BY <3>4
      <4> QED BY <4>2, <4>3
    <3>7. QueueOfPair'
      BY <1>a, <3>3, <3>4, <3>5 DEF Origin, QueueOfPair
    <3>8. HistOfPair'
      <4>1. \A m : In(m, hist'[q]) => OfPair(sent', q, m)
        BY <1>a, <3>3, <3>5, <3>6 DEF Origin, HistOfPair, QueueOfPair
      <4>2. \A p \in Pairs : p # q => \A m : In(m, hist'[p]) => OfPair(sent', p, m)
        BY <1>a, <3>4 DEF Origin, HistOfPair
      <4> QED BY <4>1, <4>2 DEF HistOfPair
    <3> QED BY <1>0, <1>a, <2>2, <2>7, <3>7, <3>8 DEF ChatPush, Origin, TasksFrom
  <2> QED
    BY <1>4, <2>3, <2>4, <2>5, <2>6, <2>7
       DEF TaskStep, MessageRoute, MessageSend, MessageSendToNull, MessageStatus, StoreLock,
           StoreCount, StoreIncr, ChatTake, ChatReset, ChatFetch, ChatOwn, ChatOwnRead, ChatReply,
           ChatFlag, endChat, redis
<1>5. CASE UNCHANGED vars
  BY <1>0, <1>a, <1>1, <1>5 DEF vars, Origin, TasksFrom, Chats
<1> QED BY <1>2, <1>3, <1>4, <1>5 DEF Next

----------------------------------------------------------------------------
(***************************************************************************)
(* The lock of storeMessages and the bound of the counters.                *)
(***************************************************************************)

\* r takes the place of the MESSAGE task t, at another step.
StoreTo(t, r, step, n) ==
    /\ Replace(t, r)
    /\ r.op = "message" /\ r.step = step /\ r.box = t.box /\ r.m = t.m /\ r.n = n

\* r takes the place of the CHAT task t, at another step.
ChatTo(t, r, step, m, n, i) ==
    /\ Replace(t, r)
    /\ r.op = "chat" /\ r.step = step /\ r.box = t.box /\ r.id = t.id
    /\ r.m = m /\ r.n = n /\ r.i = i

\* A MESSAGE task that goes to another step keeps its message and its box.
LEMMA StoreGoes ==
    ASSUME TypeOK, NEW t \in tasks, t.op = "message", NEW step, Goto(t, step)
    PROVE  \E r : StoreTo(t, r, step, t.n)
<1> DEFINE r == [t EXCEPT !.step = step]
<1>1. StoreTo(t, r, step, t.n)
  BY Kinds DEF Goto, MessageTask, StoreTo
<1> QED BY <1>1

\* So it does when it reads the counter.
LEMMA StoreReads ==
    ASSUME TypeOK, NEW t \in tasks, t.op = "message", NEW step, NEW n,
           Replace(t, [t EXCEPT !.step = step, !.n = n])
    PROVE  \E r : StoreTo(t, r, step, n)
<1> DEFINE r == [t EXCEPT !.step = step, !.n = n]
<1>1. StoreTo(t, r, step, n)
  BY Kinds DEF MessageTask, StoreTo
<1> QED BY <1>1

\* A CHAT task that goes to another step keeps all it has read.
LEMMA ChatGoes ==
    ASSUME TypeOK, NEW t \in tasks, t.op = "chat", NEW step, Goto(t, step)
    PROVE  \E r : ChatTo(t, r, step, t.m, t.n, t.i)
<1> DEFINE r == [t EXCEPT !.step = step]
<1>1. ChatTo(t, r, step, t.m, t.n, t.i)
  BY Kinds DEF Goto, ChatTask, ChatTo
<1> QED BY <1>1

\* One that reads the counter changes only that.
LEMMA ChatReads ==
    ASSUME TypeOK, NEW t \in tasks, t.op = "chat", NEW step, NEW n,
           Replace(t, [t EXCEPT !.step = step, !.n = n])
    PROVE  \E r : ChatTo(t, r, step, t.m, n, t.i)
<1> DEFINE r == [t EXCEPT !.step = step, !.n = n]
<1>1. ChatTo(t, r, step, t.m, n, t.i)
  BY Kinds DEF ChatTask, ChatTo
<1> QED BY <1>1

\* One that reads a message changes only that.
LEMMA ChatFinds ==
    ASSUME TypeOK, NEW t \in tasks, t.op = "chat", NEW step, NEW m,
           Replace(t, [t EXCEPT !.step = step, !.m = m])
    PROVE  \E r : ChatTo(t, r, step, m, t.n, t.i)
<1> DEFINE r == [t EXCEPT !.step = step, !.m = m]
<1>1. ChatTo(t, r, step, m, t.n, t.i)
  BY Kinds DEF ChatTask, ChatTo
<1> QED BY <1>1

\* One that is done with a message goes to the next index.
LEMMA ChatNext ==
    ASSUME TypeOK, NEW t \in tasks, t.op = "chat", NEW step,
           Replace(t, [t EXCEPT !.i = t.i + 1, !.m = None, !.step = step])
    PROVE  \E r : ChatTo(t, r, step, None, t.n, t.i + 1)
<1> DEFINE r == [t EXCEPT !.i = t.i + 1, !.m = None, !.step = step]
<1>1. ChatTo(t, r, step, None, t.n, t.i + 1)
  BY Kinds DEF ChatTask, ChatTo
<1> QED BY <1>1

\* A MESSAGE task between the lock and the unlock of storeMessages has storeMtx.
Locked == {"count", "offl", "incr"}
Locking == \A t \in Stores : t.step \in Locked => storeMtx = t.m

\* storeMtx keeps stores apart.
LEMMA LockStep ==
    ASSUME TypeOK, Bound, Origin, Locking, [Next]_vars
    PROVE  Locking'
<1> USE DEF Locking, Locked
<1>1. CASE Stores' \subseteq Stores /\ UNCHANGED storeMtx
  BY <1>1
<1>2. CASE \E u \in Users : ClientStep(u)
  <2>1. PICK u \in Users : ClientStep(u)
    BY <1>2
  <2>2. ASSUME NEW m \in Messages, Say(u, m) PROVE Locking'
    <3> DEFINE new == [op |-> "message", m |-> m, box |-> <<screen[u][1], u>>, n |-> 0,
                       step |-> "route"]
    <3>1. new.step = "route" /\ tasks' = tasks \cup {new} /\ UNCHANGED storeMtx
      BY <2>2 DEF Say
    <3> HIDE DEF new
    <3> QED BY <3>1 DEF Stores
  <2>3. ASSUME NEW v \in Users, Enter(u, v)
        PROVE  Stores' \subseteq Stores /\ UNCHANGED storeMtx
    BY <2>3 DEF Enter, Stores
  <2>4. CASE Leave(u) \/ Drop(u) \/ Return(u)
    <3>1. Stores' \subseteq Stores /\ UNCHANGED storeMtx
      BY <2>4 DEF Leave, Drop, Return, Stores
    <3> QED BY <1>1, <3>1
  <2> QED BY <1>1, <2>1, <2>2, <2>3, <2>4 DEF ClientStep
<1>3. CASE Restart
  BY <1>3 DEF Restart, Stores
<1>4. ASSUME NEW t \in tasks, TaskStep(t), ~Restart PROVE Locking'
  <2>1. ASSUME NEW r, Replace(t, r), r.m = t.m, storeMtx' = t.m, t \in Stores,
               \A s \in Stores \ {t} : s.step \notin Locked
        PROVE  Locking'
    BY <2>1 DEF Replace, Stores
  <2>2. ASSUME storeMtx = t.m, t \in Stores PROVE \A s \in Stores \ {t} : s.step \notin Locked
    BY <2>2 DEF Origin, SentOnce
  <2>3. \A s \in Stores : s.m # None
    BY Kinds, ConstantsAssumption DEF Stores, MessageTask
  <2>4. CASE StoreLock(t)
    <3>1. \E r : Replace(t, r) /\ r.m = t.m
      BY <2>4, StoreGoes DEF StoreLock, At, StoreTo
    <3>2. \A s \in Stores \ {t} : s.step \notin Locked
      BY <2>3, <2>4 DEF StoreLock
    <3> QED BY <2>1, <2>4, <3>1, <3>2 DEF StoreLock, At, Stores
  <2>5. CASE StoreCount(t) \/ StoreOffl(t)
    <3>1. \E r : Replace(t, r) /\ r.m = t.m
      <4>1. CASE StoreCount(t)
        <5>1. \E r : StoreTo(t, r, "offl", count[t.box])
          BY <4>1, StoreReads DEF StoreCount, At
        <5> QED BY <5>1 DEF StoreTo
      <4>2. CASE StoreOffl(t)
        BY <4>2, StoreGoes DEF StoreOffl, At, StoreTo
      <4> QED BY <2>5, <4>1, <4>2
    <3>2. storeMtx = t.m /\ UNCHANGED storeMtx /\ t \in Stores
      BY <2>5 DEF StoreCount, StoreOffl, At, Stores
    <3> QED BY <2>1, <2>2, <3>1, <3>2
  <2>6. CASE StoreIncr(t)
    <3>1. storeMtx = t.m /\ t \in Stores /\ Done(t)
      BY <2>6 DEF StoreIncr, At, Stores
    <3>2. Stores' = Stores \ {t}
      BY <3>1 DEF Done, Stores
    <3> QED BY <2>2, <3>1, <3>2
  <2>7. ASSUME t.op = "message", UNCHANGED storeMtx,
               NEW step, step \notin Locked, Goto(t, step)
        PROVE  Locking'
    <3>1. PICK r : Replace(t, r) /\ r.step = step
      BY <2>7, StoreGoes DEF StoreTo
    <3> QED BY <2>7, <3>1 DEF Replace, Stores
  <2>8. CASE MessageRoute(t) \/ MessageSend(t) \/ MessageStatus(t)
    BY <2>7, <2>8 DEF MessageRoute, MessageSend, MessageStatus, At
  <2>9. CASE MessageRead(t)
    BY <1>1, <2>9 DEF MessageRead, Done, Stores
  <2>10. CASE t.op # "message"
    <3>1. UNCHANGED storeMtx
      BY <1>4, <2>10 DEF TaskStep, MessageRoute, MessageSend, MessageSendToNull, MessageStatus,
         MessageRead, StoreLock, StoreCount, StoreOffl, StoreIncr, ChatTake, ChatReset,
         ChatFetch, ChatPush, ChatHdel, ChatOwn, ChatOwnRead, ChatReply, ChatFlag, endChat, At
    <3>2. CASE Done(t)
      BY <1>1, <3>1, <3>2 DEF Done, Stores
    <3>3. ASSUME NEW r, Replace(t, r), Moves(t, r) PROVE Stores' \subseteq Stores
      BY <2>10, <3>3 DEF Replace, Moves, Stores
    <3> QED BY <1>1, <1>4, <3>1, <3>2, <3>3, TaskMove
  <2> QED
    BY <1>4, <2>4, <2>5, <2>6, <2>8, <2>9, <2>10
       DEF TaskStep, MessageSendToNull, ChatTake, ChatReset, ChatFetch, ChatPush, ChatHdel,
           ChatOwn, ChatOwnRead, ChatReply, ChatFlag, endChat, At
<1>5. CASE UNCHANGED vars
  BY <1>1, <1>5 DEF vars, Stores
<1> QED BY <1>2, <1>3, <1>4, <1>5 DEF Next

\* Finished messages stay finished.
LEMMA FinishedGrows ==
    ASSUME TypeOK, Bound, Origin, [Next]_vars
    PROVE  /\ Finished \subseteq Finished' /\ Cardinality(Finished) <= Cardinality(Finished')
           /\ Cardinality(Finished') \in Nat /\ Cardinality(Finished) \in Nat
           /\ Finished' \subseteq Messages /\ IsFiniteSet(Finished')
<1>1. Finished' \subseteq Messages /\ IsFiniteSet(Messages)
  BY ConstantsAssumption DEF Finished
<1>2. Finished \subseteq Finished'
  <2>1. sent \subseteq sent'
    BY SentOnceStep
  <2>2. ASSUME \A s \in Stores' : s.m \in {t.m : t \in Stores}
        PROVE  Finished \subseteq Finished'
    BY <2>1, <2>2 DEF Finished
  <2>3. ASSUME NEW u \in Users, NEW m \in Messages, Say(u, m)
        PROVE  Finished \subseteq Finished'
    <3> DEFINE new == [op |-> "message", m |-> m, box |-> <<screen[u][1], u>>, n |-> 0,
                       step |-> "route"]
    <3>1. new.m = m /\ tasks' = tasks \cup {new} /\ \A s \in sent : s[3] # m
      BY <2>3 DEF Say
    <3> HIDE DEF new
    <3>2. \A t \in Stores' : t \in Stores \/ t.m = m
      BY <3>1 DEF Stores
    <3>3. m \notin Finished
      BY <3>1 DEF Finished
    <3> QED BY <2>1, <3>2, <3>3 DEF Finished
  <2>4. ASSUME NEW u \in Users, NEW v \in Users, Enter(u, v)
        PROVE  Stores' \subseteq Stores
    BY <2>4 DEF Enter, Stores
  <2>5. ASSUME NEW u \in Users, Leave(u) \/ Drop(u) \/ Return(u)
        PROVE  Stores' \subseteq Stores
    BY <2>5 DEF Leave, Drop, Return, Stores
  <2>6. ASSUME Restart \/ UNCHANGED vars PROVE Stores' \subseteq Stores
    BY <2>6 DEF Restart, vars, Stores
  <2>7. ASSUME NEW t \in tasks, TaskStep(t), ~Restart
        PROVE  \A s \in Stores' : s.m \in {x.m : x \in Stores}
    <3>1. CASE Done(t)
      BY <3>1 DEF Done, Stores
    <3>2. ASSUME NEW r, Replace(t, r), Moves(t, r)
          PROVE  \A s \in Stores' : s.m \in {x.m : x \in Stores}
      BY <3>2 DEF Replace, Moves, Stores
    <3> QED BY <2>7, <3>1, <3>2, TaskMove
  <2>8. ASSUME Stores' \subseteq Stores
        PROVE  \A s \in Stores' : s.m \in {x.m : x \in Stores}
    BY <2>8
  <2> QED BY <2>2, <2>3, <2>4, <2>5, <2>6, <2>7, <2>8 DEF Next, ClientStep
<1>3. IsFiniteSet(Finished') /\ IsFiniteSet(Finished)
  BY <1>1, <1>2, FS_Subset
<1>4. Cardinality(Finished') \in Nat /\ Cardinality(Finished) \in Nat
  BY <1>3, FS_CardinalityType
<1>5. Cardinality(Finished) <= Cardinality(Finished')
  BY <1>2, <1>3, FS_Subset
<1> QED BY <1>1, <1>2, <1>3, <1>4, <1>5

\* What Bound says of one task, for c finished messages.
StoreFits(t, c) == t.op = "message" /\ t.step \in {"offl", "incr"} => t.n <= c
ChatFits(t, c) ==
    t.op = "chat" =>
        /\ t.n <= c
        /\ t.step \in {"take", "reset"} => t.i = 0
        /\ t.step \in {"fetch", "push", "hdel", "ownread"} => t.i < t.n
        /\ t.step \in {"push", "hdel"} => t.m \in Messages

\* Counters never exceed the number of finished messages.
LEMMA BoundStep ==
    ASSUME TypeOK, Bound, Origin, [Next]_vars
    PROVE  Bound'
<1> DEFINE c == Cardinality(Finished)
           d == Cardinality(Finished')
           Fits(t) == StoreFits(t, d) /\ ChatFits(t, d)
<1>1. c <= d /\ c \in Nat /\ d \in Nat
  BY FinishedGrows
<1>2. (\A b \in Boxes : count'[b] <= d) /\ (\A t \in tasks' : Fits(t)) => Bound'
  BY DEF Bound, Stores, Chats, StoreFits, ChatFits
<1>3. /\ \A b \in Boxes : count[b] <= c /\ count[b] \in Nat
      /\ \A t \in tasks : StoreFits(t, c) /\ ChatFits(t, c)
  BY DEF Bound, Stores, Chats, StoreFits, ChatFits, TypeOK
<1> HIDE DEF c, d
<1>4. (\A b \in Boxes : count[b] <= d) /\ (\A t \in tasks : Fits(t))
  <2>1. ASSUME NEW t \in tasks PROVE Fits(t)
    <3>1. t.op \in {"message", "chat"} => t.n \in Nat
      BY Kinds DEF MessageTask, ChatTask
    <3> QED BY <1>1, <1>3, <3>1 DEF StoreFits, ChatFits
  <2> QED BY <1>1, <1>3, <2>1
<1> DEFINE AllFit == \A t \in tasks' : Fits(t)
<1>5. ASSUME UNCHANGED count, AllFit PROVE Bound'
  BY <1>2, <1>4, <1>5
<1>6. ASSUME tasks' \subseteq tasks PROVE AllFit
  BY <1>4, <1>6
<1>7. ASSUME NEW t \in tasks, NEW r, Replace(t, r), Fits(r) PROVE AllFit
  BY <1>4, <1>7 DEF Replace
<1>8. ASSUME NEW r, tasks' = tasks \cup {r}, Fits(r) PROVE AllFit
  BY <1>4, <1>8
<1>9. ASSUME NEW u \in Users, ClientStep(u) PROVE Bound'
  <2>1. UNCHANGED count
    BY <1>9 DEF ClientStep, Enter, Say, Leave, Drop, Return, redis
  <2>2. ASSUME NEW v \in Users, Enter(u, v) PROVE AllFit
    <3> DEFINE new == [op |-> "chat", m |-> None, box |-> <<u, v>>, n |-> 0, i |-> 0,
                       id |-> enters[u], step |-> "take"]
    <3>1. /\ new.op = "chat" /\ new.n = 0 /\ new.i = 0 /\ new.step = "take"
          /\ tasks' = tasks \cup {new}
      BY <2>2 DEF Enter
    <3> HIDE DEF new
    <3> QED BY <1>1, <1>8, <3>1 DEF StoreFits, ChatFits
  <2>3. ASSUME NEW m \in Messages, Say(u, m) PROVE AllFit
    <3> DEFINE new == [op |-> "message", m |-> m, box |-> <<screen[u][1], u>>, n |-> 0,
                       step |-> "route"]
    <3>1. /\ new.op = "message" /\ new.step = "route" /\ tasks' = tasks \cup {new}
      BY <2>3 DEF Say
    <3> HIDE DEF new
    <3> QED BY <1>8, <3>1 DEF StoreFits, ChatFits
  <2>4. CASE Leave(u)
    <3> DEFINE new == [op |-> "endchat", box |-> <<u, screen[u][1]>>, id |-> enters[u]]
    <3>1. new.op = "endchat" /\ tasks' = tasks \cup {new}
      BY <2>4 DEF Leave
    <3> HIDE DEF new
    <3>2. AllFit
      BY <1>8, <3>1 DEF StoreFits, ChatFits
    <3> QED BY <1>5, <2>1, <3>2
  <2>5. CASE Drop(u) \/ Return(u)
    <3>1. AllFit
      BY <1>6, <2>5 DEF Drop, Return
    <3> QED BY <1>5, <2>1, <3>1
  <2> QED BY <1>5, <1>9, <2>1, <2>2, <2>3, <2>4, <2>5 DEF ClientStep
<1>10. CASE Restart
  BY <1>5, <1>6, <1>10 DEF Restart, redis
<1>11. ASSUME NEW t \in tasks, TaskStep(t), ~Restart PROVE Bound'
  <2>1. t.box \in Boxes /\ (t.op \in {"message", "chat"} => t.n \in Nat)
    BY Kinds DEF MessageTask, ChatTask
  <2>2. ASSUME t.op = "message", NEW step, step \notin {"offl", "incr"}, Goto(t, step)
        PROVE  AllFit
    <3>1. PICK r : StoreTo(t, r, step, t.n)
      BY <2>2, StoreGoes
    <3> QED BY <1>7, <2>2, <3>1 DEF StoreTo, StoreFits, ChatFits
  <2>3. ASSUME t.op = "chat", NEW step \in {"own", "reply", "flag"}, Goto(t, step)
        PROVE  AllFit
    <3>1. PICK r : ChatTo(t, r, step, t.m, t.n, t.i)
      BY <2>3, ChatGoes
    <3>2. t.n <= d
      BY <1>4, <2>3 DEF ChatFits
    <3> QED BY <1>7, <2>3, <3>1, <3>2 DEF ChatTo, StoreFits, ChatFits
  <2>4. CASE MessageRoute(t) \/ MessageSend(t) \/ MessageStatus(t) \/ StoreLock(t)
    <3>1. UNCHANGED count /\ t.op = "message"
          /\ \E step : step \notin {"offl", "incr"} /\ Goto(t, step)
      BY <2>4 DEF MessageRoute, MessageSend, MessageStatus, StoreLock, At, redis
    <3> QED BY <1>5, <2>2, <3>1
  <2>5. CASE Done(t) /\ UNCHANGED count
    BY <1>5, <1>6, <2>5 DEF Done
  <2>6. CASE StoreCount(t)
    <3>1. PICK r : StoreTo(t, r, "offl", count[t.box])
      BY <2>6, StoreReads DEF StoreCount, At
    <3>2. AllFit
      BY <1>4, <1>7, <2>1, <3>1 DEF StoreTo, StoreFits, ChatFits
    <3> QED BY <1>5, <2>6, <3>2 DEF StoreCount, redis
  <2>7. CASE StoreOffl(t)
    <3>1. PICK r : StoreTo(t, r, "incr", t.n)
      BY <2>7, StoreGoes DEF StoreOffl, At
    <3>2. t.n <= d
      BY <1>4, <2>7 DEF StoreOffl, At, StoreFits
    <3>3. AllFit
      BY <1>7, <3>1, <3>2 DEF StoreTo, StoreFits, ChatFits
    <3> QED BY <1>5, <2>7, <3>3 DEF StoreOffl
  <2>8. CASE StoreIncr(t)
    <3>1. t \in Stores /\ t \in MessageTask /\ t.n <= c /\ Done(t) /\ UNCHANGED sent
      BY <1>3, <2>8, Kinds DEF StoreIncr, At, Stores, StoreFits, clients
    <3>2. Stores' = Stores \ {t}
      BY <3>1 DEF Done, Stores
    <3>3. t.m \in Finished' /\ t.m \notin Finished
      <4>1. t.m \in Messages /\ (\E s \in sent' : s[3] = t.m)
        BY <3>1 DEF MessageTask, Origin, TasksFrom, From
      <4>2. \A s \in Stores' : s.m # t.m
        BY <3>1, <3>2 DEF Origin, SentOnce
      <4> QED BY <3>1, <4>1, <4>2 DEF Finished
    <3>4. c + 1 <= d
      <4>1. Finished \cup {t.m} \subseteq Finished' /\ IsFiniteSet(Finished')
        BY <3>3, FinishedGrows
      <4>2. IsFiniteSet(Finished)
        BY <4>1, FS_Subset
      <4>3. Cardinality(Finished \cup {t.m}) = Cardinality(Finished) + 1
        BY <3>3, <4>2, FS_AddElement
      <4>4. Cardinality(Finished \cup {t.m}) <= Cardinality(Finished')
        BY <4>1, FS_Subset
      <4> QED BY <4>3, <4>4 DEF c, d
    <3>5. \A b \in Boxes : count'[b] = IF b = t.box THEN t.n + 1 ELSE count[b]
      BY <2>1, <2>8 DEF StoreIncr, TypeOK
    <3>6. t.n + 1 <= d
      BY <1>1, <2>1, <3>1, <3>4 DEF MessageTask
    <3>7. \A b \in Boxes : count'[b] <= d
      BY <1>4, <3>5, <3>6
    <3>8. AllFit
      BY <1>6, <3>1 DEF Done
    <3> QED BY <1>2, <3>7, <3>8
  <2>9. CASE ChatTake(t)
    <3>1. PICK r : ChatTo(t, r, "reset", t.m, count[t.box], t.i)
      BY <2>9, ChatReads DEF ChatTake, At
    <3>2. t.i = 0 /\ count[t.box] <= d
      BY <1>4, <2>1, <2>9 DEF ChatTake, At, ChatFits
    <3>3. AllFit
      BY <1>7, <3>1, <3>2 DEF ChatTo, StoreFits, ChatFits
    <3> QED BY <1>5, <2>9, <3>3 DEF ChatTake, redis
  <2>10. CASE ChatReset(t)
    <3>1. \A b \in Boxes : count'[b] = IF b = t.box THEN 0 ELSE count[b]
      BY <2>1, <2>10 DEF ChatReset, TypeOK
    <3>2. \A b \in Boxes : count'[b] <= d
      BY <1>1, <1>4, <3>1
    <3>3. t.op = "chat" /\ t.i = 0 /\ t.n <= d /\ t.n \in Nat
      BY <1>4, <2>1, <2>10 DEF ChatReset, At, ChatFits
    <3>4. PICK r : ChatTo(t, r, IF t.n = 0 THEN "own" ELSE "fetch", t.m, t.n, t.i)
      BY <2>10, <3>3, ChatGoes DEF ChatReset
    <3>5. Fits(r)
      BY <3>3, <3>4 DEF ChatTo, StoreFits, ChatFits
    <3>6. AllFit
      BY <1>7, <3>4, <3>5 DEF ChatTo
    <3> QED BY <1>2, <3>2, <3>6
  <2>11. CASE ChatFetch(t) /\ ~Done(t)
    <3> DEFINE m == offl[t.box][t.i]
    <3>1. t.op = "chat" /\ t.step = "fetch" /\ t.i < t.n /\ t.n <= d
      BY <1>4, <2>11 DEF ChatFetch, At, ChatFits
    <3>2. m \in Messages
      BY <2>11, <3>1, FetchInRange DEF ChatFetch
    <3>3. Replace(t, [t EXCEPT !.step = "push", !.m = m]) /\ UNCHANGED count
      BY <2>11 DEF ChatFetch, redis
    <3> HIDE DEF m
    <3>4. PICK r : ChatTo(t, r, "push", m, t.n, t.i)
      BY <3>1, <3>3, ChatFinds
    <3>5. AllFit
      BY <1>7, <3>1, <3>2, <3>4 DEF ChatTo, StoreFits, ChatFits
    <3> QED BY <1>5, <3>3, <3>5
  <2>12. CASE ChatPush(t)
    <3>1. /\ t.op = "chat" /\ t.step = "push" /\ t.i < t.n /\ t.n <= d /\ t.m \in Messages
      BY <1>4, <2>12 DEF ChatPush, At, ChatFits
    <3>2. PICK r : ChatTo(t, r, "hdel", t.m, t.n, t.i)
      BY <2>12, <3>1, ChatGoes DEF ChatPush
    <3>3. AllFit
      BY <1>7, <3>1, <3>2 DEF ChatTo, StoreFits, ChatFits
    <3> QED BY <1>5, <2>12, <3>3 DEF ChatPush
  <2>13. CASE ChatHdel(t)
    <3>1. t.op = "chat" /\ t.step = "hdel" /\ t.i < t.n /\ t.n <= d /\ t.n \in Nat
          /\ t.i \in Nat
      BY <1>4, <2>1, <2>13, Kinds DEF ChatHdel, At, ChatFits, ChatTask
    <3>2. PICK r : ChatTo(t, r, IF t.i + 1 = t.n THEN "own" ELSE "fetch", None, t.n, t.i + 1)
      BY <2>13, <3>1, ChatNext DEF ChatHdel
    <3>3. Fits(r)
      BY <3>1, <3>2 DEF ChatTo, StoreFits, ChatFits
    <3>4. AllFit
      BY <1>7, <3>2, <3>3 DEF ChatTo
    <3> QED BY <1>5, <2>13, <3>4 DEF ChatHdel
  <2>14. CASE ChatReply(t)
    <3>1. UNCHANGED count /\ t.op = "chat" /\ Goto(t, "flag")
      BY <2>14 DEF ChatReply, At, redis
    <3> QED BY <1>5, <2>3, <3>1
  <2>15. CASE (ChatOwn(t) \/ ChatOwnRead(t)) /\ ~Done(t)
    <3>1. PICK r : /\ Replace(t, r) /\ Moves(t, r) /\ r.n \in {t.n, count[Swap(t.box)]}
                   /\ \/ r.step = "ownread" /\ r.i < r.n
                      \/ r.step = "reply"
      BY <2>15, OwnMoves
    <3>2. t.op = "chat" /\ UNCHANGED count
      BY <2>15, OwnMoves DEF redis
    <3>3. Swap(t.box) \in Boxes
      BY <2>1 DEF Boxes, Swap
    <3>4. t.n <= d /\ count[Swap(t.box)] <= d
      BY <1>4, <3>2, <3>3 DEF ChatFits
    <3>5. r.op = "chat" /\ r.n <= d
      BY <3>1, <3>2, <3>4 DEF Moves
    <3>6. Fits(r)
      BY <3>1, <3>5 DEF StoreFits, ChatFits
    <3>7. AllFit
      BY <1>7, <3>1, <3>6
    <3> QED BY <1>5, <3>2, <3>7
  <2> QED
    BY <1>11, <2>4, <2>5, <2>6, <2>7, <2>8, <2>9, <2>10, <2>11, <2>12, <2>13, <2>14, <2>15
       DEF TaskStep, MessageSendToNull, MessageRead, ChatFetch, ChatOwn, ChatOwnRead, ChatReply, ChatFlag,
           endChat, redis
<1>12. CASE UNCHANGED vars
  BY <1>5, <1>6, <1>12 DEF vars
<1> QED BY <1>9, <1>10, <1>11, <1>12 DEF Next

----------------------------------------------------------------------------
(***************************************************************************)
(* Boxes.  What one box holds, for the tasks T, the messages S that were   *)
(* sent, the box's counter c and messages f, and the history h of its pair.*)
(***************************************************************************)
HoldersIn(T, b) == {t \in T : Holds(t, b)}

\* The indices from lo to hi, and no others, hold a message.
Filled(f, lo, hi) == \A i \in Indices : f[i] # None <=> lo <= i /\ i < hi

\* What the task that holds the box has done to it.
HolderFits(t, c, f, h) ==
    /\ t.step \in {"offl", "reset"} => t.n = c /\ Filled(f, 0, c)
    /\ t.step = "incr" => t.n = c /\ Filled(f, 0, c + 1) /\ f[t.n] = t.m
    /\ t.step \in {"fetch", "push", "hdel"} => c = 0 /\ Filled(f, t.i, t.n)
    /\ t.step \in {"push", "hdel"} => f[t.i] = t.m
    /\ t.step = "hdel" => In(t.m, h)

\* One task at most holds the box.
Exclusive(T, b, c, f, h) ==
    /\ \A s, t \in HoldersIn(T, b) : s = t
    /\ HoldersIn(T, b) = {} => Filled(f, 0, c)
    /\ \A t \in HoldersIn(T, b) : HolderFits(t, c, f, h)

\* A message is in the history, stored, or has a task that will put it there.
StoreOf(T, b, m) == \E t \in T : t.op = "message" /\ t.box = b /\ t.m = m
Present(T, b, f, h, m) == In(m, h) \/ (\E i \in Indices : f[i] = m) \/ StoreOf(T, b, m)
AllPresent(S, T, b, f, h) == \A m \in Messages : From(S, b, m) => Present(T, b, f, h, m)

BoxOK(S, T, b, c, f, h) == Exclusive(T, b, c, f, h) /\ AllPresent(S, T, b, f, h)
BoxInv ==
    \A b \in Boxes \ (disturbed \cup cut) :
        BoxOK(sent, tasks, b, count[b], offl[b], hist[PairOf(b)])

\* The box itself, and who holds it, are as before.
LEMMA BoxFrame ==
    ASSUME NEW S, NEW S2, NEW T, NEW T2, NEW b, NEW c, NEW f, NEW h, NEW h2,
           BoxOK(S, T, b, c, f, h),
           HoldersIn(T2, b) = HoldersIn(T, b),
           \A m : In(m, h) => In(m, h2),
           \A m \in Messages : StoreOf(T, b, m) => StoreOf(T2, b, m) \/ In(m, h2),
           \A m \in Messages : From(S2, b, m) => From(S, b, m) \/ StoreOf(T2, b, m)
    PROVE  BoxOK(S2, T2, b, c, f, h2)
<1>1. Exclusive(T2, b, c, f, h2)
  BY DEF BoxOK, Exclusive, HolderFits
<1>2. AllPresent(S2, T2, b, f, h2)
  BY DEF BoxOK, AllPresent, Present
<1> QED BY <1>1, <1>2 DEF BoxOK

\* One task of the box makes a step and no other task holds the box.
LEMMA BoxStep ==
    ASSUME NEW S, NEW T, NEW T2, NEW b, NEW c, NEW c2, NEW f, NEW f2, NEW h, NEW h2,
           BoxOK(S, T, b, c, f, h),
           NEW R, HoldersIn(T2, b) = R, \A s, t \in R : s = t,
           R = {} => Filled(f2, 0, c2),
           \A t \in R : HolderFits(t, c2, f2, h2),
           \A m \in Messages : Present(T, b, f, h, m) => Present(T2, b, f2, h2, m)
    PROVE  BoxOK(S, T2, b, c2, f2, h2)
<1>1. Exclusive(T2, b, c2, f2, h2)
  BY DEF Exclusive
<1>2. AllPresent(S, T2, b, f2, h2)
  BY DEF BoxOK, AllPresent
<1> QED BY <1>1, <1>2 DEF BoxOK

\* No step takes anything out of the history.
LEMMA HistoryGrows ==
    ASSUME TypeOK, Bound, [Next]_vars, NEW p \in Pairs
    PROVE  \A m : In(m, hist[p]) => In(m, hist'[p])
<1>0. \A a \in Seq(Messages), y \in Messages : \A x : In(x, a) => In(x, Append(a, y))
  BY Appended
<1>1. \A a \in Seq(Messages), b \in Seq(Messages) : \A x : In(x, a) => In(x, a \o b)
  BY Concatenated
<1>2. CASE UNCHANGED hist
  BY <1>2
<1>3. ASSUME NEW t \in tasks, MessageRead(t)
      PROVE  \A m : In(m, hist[p]) => In(m, hist'[p])
  <2>1. t.m \in Messages /\ PairOf(t.box) \in Pairs
    BY <1>3, Kinds DEF MessageRead, At, MessageTask
  <2>2. hist'[p] = hist[p] \/ hist'[p] = Append(hist[p], t.m)
    BY <1>3, <2>1 DEF MessageRead, TypeOK
  <2>3. hist[p] \in Seq(Messages)
    BY DEF TypeOK
  <2>4. \A m : In(m, hist[p]) => In(m, Append(hist[p], t.m))
    BY <1>0, <2>1, <2>3
  <2> QED BY <2>2, <2>4
<1>4. ASSUME NEW t \in tasks, ChatPush(t)
      PROVE  \A m : In(m, hist[p]) => In(m, hist'[p])
  <2>1. PairOf(t.box) \in Pairs
    BY Kinds
  <2>2. messageQueue' \in [Pairs -> Seq(Messages)]
    BY TypeStep DEF TypeOK
  <2>3. hist'[p] = hist[p] \/ hist'[p] = hist[p] \o messageQueue'[p]
    BY <1>4, <2>1 DEF ChatPush, TypeOK
  <2>4. hist[p] \in Seq(Messages) /\ messageQueue'[p] \in Seq(Messages)
    BY <2>2 DEF TypeOK
  <2>5. \A m : In(m, hist[p]) => In(m, hist[p] \o messageQueue'[p])
    BY <1>1, <2>4
  <2> QED BY <2>3, <2>5
<1>5. ASSUME NEW u \in Users, ClientStep(u) PROVE UNCHANGED hist
  BY <1>5 DEF ClientStep, Enter, Say, Leave, Drop, Return, redis
<1>6. ASSUME Restart PROVE UNCHANGED hist
  BY <1>6 DEF Restart, redis
<1>7. ASSUME NEW t \in tasks, TaskStep(t), ~MessageRead(t), ~ChatPush(t)
      PROVE  UNCHANGED hist
  BY <1>6, <1>7
     DEF TaskStep, MessageRoute, MessageSend, MessageSendToNull, MessageStatus, StoreLock,
         StoreCount, StoreOffl, StoreIncr, ChatTake, ChatReset, ChatFetch, ChatHdel, ChatOwn, ChatOwnRead,
         ChatReply, ChatFlag, endChat, redis
<1>8. ASSUME UNCHANGED vars PROVE UNCHANGED hist
  BY <1>8 DEF vars
<1> QED BY <1>2, <1>3, <1>4, <1>5, <1>6, <1>7, <1>8 DEF Next

\* A step of a task leaves the other boxes alone.
LEMMA OtherBox ==
    ASSUME TypeOK, Bound, [Next]_vars, NEW t \in tasks, TaskStep(t), ~Restart,
           NEW b \in Boxes, t.box # b,
           BoxOK(sent, tasks, b, count[b], offl[b], hist[PairOf(b)])
    PROVE  BoxOK(sent', tasks', b, count'[b], offl'[b], hist'[PairOf(b)])
<1>1. /\ HoldersIn(tasks', b) = HoldersIn(tasks, b)
      /\ \A m \in Messages : StoreOf(tasks, b, m) => StoreOf(tasks', b, m)
      /\ UNCHANGED sent
  <2>1. CASE Done(t) /\ UNCHANGED sent
    BY <2>1 DEF Done, HoldersIn, Holds, StoreOf
  <2>2. ASSUME NEW r, Replace(t, r), Moves(t, r), UNCHANGED sent
        PROVE  /\ HoldersIn(tasks', b) = HoldersIn(tasks, b)
               /\ \A m \in Messages : StoreOf(tasks, b, m) => StoreOf(tasks', b, m)
               /\ UNCHANGED sent
    BY <2>2 DEF Replace, Moves, HoldersIn, Holds, StoreOf
  <2> QED BY <2>1, <2>2, TaskMove
<1>2. PairOf(b) \in Pairs
  BY DEF PairOf, Pairs
<1>3. \A m : In(m, hist[PairOf(b)]) => In(m, hist'[PairOf(b)])
  BY <1>2, HistoryGrows
<1>4. count'[b] = count[b]
  <2>1. CASE UNCHANGED count
    BY <2>1
  <2>2. CASE StoreIncr(t) \/ ChatReset(t)
    BY <2>2 DEF StoreIncr, ChatReset, TypeOK
  <2> QED
    BY <2>1, <2>2
       DEF TaskStep, MessageRoute, MessageSend, MessageSendToNull, MessageStatus, MessageRead,
           StoreLock, StoreCount, StoreOffl, ChatTake, ChatFetch, ChatPush, ChatHdel, ChatOwn, ChatOwnRead,
           ChatReply, ChatFlag, endChat, redis
<1>5. offl'[b] = offl[b]
  <2>1. CASE UNCHANGED offl
    BY <2>1
  <2>2. CASE StoreOffl(t) \/ ChatHdel(t)
    BY <2>2 DEF StoreOffl, ChatHdel, TypeOK
  <2> QED
    BY <2>1, <2>2
       DEF TaskStep, MessageRoute, MessageSend, MessageSendToNull, MessageStatus, MessageRead,
           StoreLock, StoreCount, StoreIncr, ChatTake, ChatReset, ChatFetch, ChatPush, ChatOwn, ChatOwnRead,
           ChatReply, ChatFlag, endChat, redis
<1> QED BY <1>1, <1>3, <1>4, <1>5, BoxFrame

\* The tasks that hold a box after one of its tasks went on or ended.
LEMMA HoldersMove ==
    ASSUME NEW t \in tasks, NEW b, t.box = b
    PROVE  /\ \A r : Replace(t, r) /\ ~Holds(t, b) /\ ~Holds(r, b) =>
                  HoldersIn(tasks', b) = HoldersIn(tasks, b)
           /\ \A r : Replace(t, r) /\ HoldersIn(tasks, b) \subseteq {t} /\ Holds(r, b) =>
                  HoldersIn(tasks', b) = {r}
           /\ \A r : Replace(t, r) /\ HoldersIn(tasks, b) \subseteq {t} /\ ~Holds(r, b) =>
                  HoldersIn(tasks', b) = {}
           /\ Done(t) /\ ~Holds(t, b) => HoldersIn(tasks', b) = HoldersIn(tasks, b)
           /\ Done(t) /\ HoldersIn(tasks, b) \subseteq {t} => HoldersIn(tasks', b) = {}
BY DEF Replace, Done, HoldersIn

\* A MESSAGE task that goes on, and a CHAT task in any step, leave the other
\* messages of a box their task.
LEMMA StoresMove ==
    ASSUME NEW t \in tasks, NEW b, NEW m
    PROVE  /\ \A r, step, n : StoreTo(t, r, step, n) =>
                 (StoreOf(tasks, b, m) => StoreOf(tasks', b, m))
           /\ t.op # "message" /\ (Done(t) \/ \E r : Replace(t, r)) =>
                 (StoreOf(tasks, b, m) => StoreOf(tasks', b, m))
           /\ Done(t) => (StoreOf(tasks, b, m) => StoreOf(tasks', b, m) \/ m = t.m)
BY DEF Replace, Done, StoreTo, StoreOf

\* The steps of MESSAGE tasks on their own box.
LEMMA OwnBoxMessage ==
    ASSUME TypeOK, Bound, Origin, Locking, [Next]_vars, NEW t \in tasks, t.op = "message",
           TaskStep(t), ~Restart, NEW b \in Boxes \ disturbed', t.box = b,
           BoxOK(sent, tasks, b, count[b], offl[b], hist[PairOf(b)])
    PROVE  BoxOK(sent', tasks', b, count'[b], offl'[b], hist'[PairOf(b)])
<1> DEFINE p == PairOf(b)
           T == tasks
           U == tasks'
           h == hist[p]
           k == hist'[p]
           f == offl[b]
           g == offl'[b]
           c == count[b]
           d == count'[b]
           Goal == BoxOK(sent', U, b, d, g, k)
<1>1. t \in MessageTask /\ p \in Pairs /\ t.m \in Messages /\ t.n \in Nat
  BY Kinds DEF MessageTask
<1>2. \A m : In(m, h) => In(m, k)
  BY <1>1, HistoryGrows
<1>3. /\ Exclusive(T, b, c, f, h) /\ AllPresent(sent, T, b, f, h)
  BY DEF BoxOK
<1>4. Holds(t, b) => HoldersIn(T, b) = {t} /\ HolderFits(t, c, f, h)
  BY <1>3 DEF Exclusive, HoldersIn
<1>5. ASSUME NEW step, step \notin {"offl", "incr"}, Goto(t, step), ~Holds(t, b),
             UNCHANGED <<sent, count, offl>>
      PROVE  Goal
  <2>1. PICK r : StoreTo(t, r, step, t.n)
    BY <1>5, StoreGoes
  <2>2. HoldersIn(U, b) = HoldersIn(T, b)
    BY <1>5, <2>1, HoldersMove DEF StoreTo, Holds
  <2>3. \A m : StoreOf(T, b, m) => StoreOf(U, b, m)
    BY <2>1, StoresMove
  <2> QED BY <1>2, <1>5, <2>2, <2>3, BoxFrame
<1>6. CASE MessageRoute(t) \/ MessageSend(t) \/ MessageStatus(t) \/ StoreLock(t)
  <2>1. ~Holds(t, b)
    BY <1>6 DEF MessageRoute, MessageSend, MessageStatus, StoreLock, At, Holds
  <2>2. \E step : step \notin {"offl", "incr"} /\ Goto(t, step)
    BY <1>6 DEF MessageRoute, MessageSend, MessageStatus, StoreLock
  <2>3. UNCHANGED <<sent, count, offl>>
    BY <1>6 DEF MessageRoute, MessageSend, MessageStatus, StoreLock, clients, redis
  <2> QED BY <1>5, <2>1, <2>2, <2>3
<1>7. CASE MessageRead(t)
  <2>1. Done(t) /\ ~Holds(t, b) /\ UNCHANGED <<sent, count, offl>>
    BY <1>7 DEF MessageRead, At, Holds, clients
  <2>2. In(t.m, k)
    <3>1. k = Append(h, t.m) /\ h \in Seq(Messages)
      BY <1>1, <1>7 DEF MessageRead, TypeOK
    <3> QED BY <1>1, <3>1, Appended
  <2>3. HoldersIn(U, b) = HoldersIn(T, b)
    BY <2>1, HoldersMove
  <2>4. \A m : StoreOf(T, b, m) => StoreOf(U, b, m) \/ In(m, k)
    BY <2>1, <2>2, StoresMove
  <2> QED BY <1>2, <2>1, <2>3, <2>4, BoxFrame
<1>8. CASE StoreCount(t)
  <2>1. PICK r : StoreTo(t, r, "offl", c)
    BY <1>8, StoreReads DEF StoreCount, At
  <2>2. /\ UNCHANGED <<sent, count, offl, hist>> /\ storeMtx = t.m /\ NoteOverlap(t)
        /\ t.step = "count" /\ t \in Stores
    BY <1>8 DEF StoreCount, At, clients, redis, Locking, Locked, Stores
  <2>3. HoldersIn(T, b) = {}
    <3>1. SUFFICES ASSUME NEW s \in T, Holds(s, b) PROVE FALSE
      BY DEF HoldersIn
    <3>2. s # t /\ (s.op = "chat" \/ (s.op = "message" /\ s.step \in {"offl", "incr"}))
      BY <2>2, <3>1 DEF Holds
    <3>3. CASE s.op = "chat"
      BY <2>2, <3>1, <3>2, <3>3 DEF NoteOverlap
    <3>4. CASE s.op = "message" /\ s.step \in {"offl", "incr"}
      BY <2>2, <3>2, <3>4 DEF Locking, Locked, Stores, Origin, SentOnce
    <3> QED BY <3>2, <3>3, <3>4
  <2>4. Holds(r, b) /\ HoldersIn(U, b) = {r}
    BY <2>1, <2>3, HoldersMove DEF StoreTo, Holds
  <2>5. HolderFits(r, c, f, h)
    BY <1>3, <2>1, <2>3 DEF Exclusive, HolderFits, StoreTo
  <2>6. \A m : StoreOf(T, b, m) => StoreOf(U, b, m)
    BY <2>1, StoresMove
  <2>7. \A m \in Messages : Present(T, b, f, h, m) => Present(U, b, f, h, m)
    BY <2>6 DEF Present
  <2>8. BoxOK(sent, U, b, c, f, h)
    BY <2>4, <2>5, <2>7, BoxStep
  <2> QED BY <2>2, <2>8
<1>9. CASE StoreOffl(t)
  <2>1. PICK r : StoreTo(t, r, "incr", t.n)
    BY <1>9, StoreGoes DEF StoreOffl, At
  <2>2. /\ UNCHANGED <<sent, count, hist>> /\ Holds(t, b) /\ t.step = "offl" /\ t \in Stores
    BY <1>9 DEF StoreOffl, At, clients, Holds, Stores
  <2>3. t.n = c /\ Filled(f, 0, c) /\ HoldersIn(T, b) = {t}
    BY <1>4, <2>2 DEF HolderFits
  <2>4. t.n \in Indices /\ MaxStored \in Nat
    BY <1>1, <2>2, FinishedFits DEF Bound, Indices
  <2>5. \A i \in Indices : g[i] = IF i = t.n THEN t.m ELSE f[i]
    BY <1>9 DEF StoreOffl, TypeOK
  <2>6. \A i \in Indices : i \in Nat
    BY <2>4 DEF Indices
  <2>7. t.m # None
    BY <1>1, ConstantsAssumption
  <2>8. Filled(g, 0, c + 1)
    BY <1>1, <2>3, <2>5, <2>6, <2>7 DEF Filled
  <2>9. Holds(r, b) /\ HoldersIn(U, b) = {r}
    BY <2>1, <2>3, HoldersMove DEF StoreTo, Holds
  <2>10. HolderFits(r, c, g, h)
    BY <2>1, <2>3, <2>4, <2>5, <2>8 DEF HolderFits, StoreTo
  <2>11. \A m : StoreOf(T, b, m) => StoreOf(U, b, m)
    BY <2>1, StoresMove
  <2>12. f[t.n] = None
    BY <1>1, <2>3, <2>4 DEF Filled
  <2>13. ASSUME NEW m \in Messages, Present(T, b, f, h, m) PROVE Present(U, b, g, h, m)
    BY <2>5, <2>11, <2>12, <2>13, ConstantsAssumption DEF Present
  <2>14. BoxOK(sent, U, b, c, g, h)
    BY <2>9, <2>10, <2>13, BoxStep
  <2> QED BY <2>2, <2>14
<1>10. CASE StoreIncr(t)
  <2>1. /\ UNCHANGED <<sent, offl, hist>> /\ Holds(t, b) /\ t.step = "incr" /\ t \in Stores
        /\ Done(t) /\ d = t.n + 1
    BY <1>1, <1>10 DEF StoreIncr, At, clients, Holds, Stores, TypeOK
  <2>2. t.n = c /\ Filled(f, 0, c + 1) /\ HoldersIn(T, b) = {t} /\ f[t.n] = t.m
    BY <1>4, <2>1 DEF HolderFits
  <2>3. t.n \in Indices
    BY <1>1, <2>1, FinishedFits DEF Bound, Indices
  <2>4. HoldersIn(U, b) = {}
    BY <2>1, <2>2, HoldersMove
  <2>5. \A m : StoreOf(T, b, m) => StoreOf(U, b, m) \/ m = t.m
    BY <2>1, StoresMove
  <2>6. \A m \in Messages : Present(T, b, f, h, m) => Present(U, b, f, h, m)
    BY <2>2, <2>3, <2>5 DEF Present
  <2>7. BoxOK(sent, U, b, d, f, h)
    BY <2>1, <2>2, <2>4, <2>6, BoxStep
  <2> QED BY <2>1, <2>7
<1> QED
  BY <1>6, <1>7, <1>8, <1>9, <1>10
     DEF TaskStep, MessageSendToNull, ChatTake, ChatReset, ChatFetch, ChatPush, ChatHdel,
         ChatOwn, ChatOwnRead, ChatReply, ChatFlag, endChat, At

\* The steps of CHAT and ENDCHAT tasks on their own box.
LEMMA OwnBoxChat ==
    ASSUME TypeOK, Bound, Origin, [Next]_vars, NEW t \in tasks, t.op # "message",
           TaskStep(t), ~Restart, NEW b \in Boxes \ disturbed', t.box = b,
           BoxOK(sent, tasks, b, count[b], offl[b], hist[PairOf(b)])
    PROVE  BoxOK(sent', tasks', b, count'[b], offl'[b], hist'[PairOf(b)])
<1> DEFINE p == PairOf(b)
           T == tasks
           U == tasks'
           h == hist[p]
           k == hist'[p]
           f == offl[b]
           g == offl'[b]
           c == count[b]
           d == count'[b]
           Goal == BoxOK(sent', U, b, d, g, k)
<1>1. p \in Pairs /\ (t.op = "chat" => t \in ChatTask /\ t.n \in Nat /\ t.i \in Nat)
  BY Kinds DEF ChatTask
<1>2. \A m : In(m, h) => In(m, k)
  BY <1>1, HistoryGrows
<1>3. /\ Exclusive(T, b, c, f, h) /\ AllPresent(sent, T, b, f, h)
  BY DEF BoxOK
<1>4. Holds(t, b) => HoldersIn(T, b) = {t} /\ HolderFits(t, c, f, h)
  BY <1>3 DEF Exclusive, HoldersIn
<1>5. UNCHANGED sent /\ \A m : StoreOf(T, b, m) => StoreOf(U, b, m)
  <2>1. UNCHANGED sent /\ (Done(t) \/ \E r : Replace(t, r))
    BY TaskMove
  <2> QED BY <2>1, StoresMove
<1>6. ASSUME Done(t), ~Holds(t, b), UNCHANGED <<count, offl>> PROVE Goal
  <2>1. HoldersIn(U, b) = HoldersIn(T, b)
    BY <1>6, HoldersMove
  <2> QED BY <1>2, <1>5, <1>6, <2>1, BoxFrame
<1>7. ASSUME NEW step \in {"own", "reply", "flag"}, Goto(t, step), t.op = "chat",
             ~Holds(t, b), UNCHANGED <<count, offl>>
      PROVE  Goal
  <2>1. PICK r : ChatTo(t, r, step, t.m, t.n, t.i)
    BY <1>7, ChatGoes
  <2>2. HoldersIn(U, b) = HoldersIn(T, b)
    BY <1>7, <2>1, HoldersMove DEF ChatTo, Holds
  <2> QED BY <1>2, <1>5, <1>7, <2>2, BoxFrame
<1>8. CASE ChatFlag(t) \/ endChat(t)
  <2>1. ~Holds(t, b) /\ Done(t) /\ UNCHANGED <<count, offl>>
    BY <1>8 DEF ChatFlag, endChat, At, Holds, redis
  <2> QED BY <1>6, <2>1
<1>9. CASE ChatReply(t)
  <2>1. ~Holds(t, b) /\ t.op = "chat" /\ UNCHANGED <<count, offl>> /\ Goto(t, "flag")
    BY <1>9 DEF ChatReply, At, Holds, redis
  <2> QED BY <1>7, <2>1
<1>15. CASE ChatOwn(t) \/ ChatOwnRead(t)
  <2>1. ~Holds(t, b) /\ UNCHANGED <<count, offl>>
    BY <1>15, OwnMoves DEF Holds, redis
  <2>2. CASE Done(t)
    BY <1>6, <2>1, <2>2
  <2>3. CASE ~Done(t)
    <3>1. PICK r : Replace(t, r) /\ Moves(t, r) /\ r.step \in {"ownread", "reply"}
      BY <1>15, <2>3, OwnMoves
    <3>2. ~Holds(r, b) /\ t.op = "chat"
      BY <1>15, <3>1, OwnMoves DEF Moves, Holds
    <3>3. HoldersIn(U, b) = HoldersIn(T, b)
      BY <2>1, <3>1, <3>2, HoldersMove
    <3> QED BY <1>2, <1>5, <2>1, <3>3, BoxFrame
  <2> QED BY <2>2, <2>3
<1>10. CASE ChatTake(t)
  <2>1. PICK r : ChatTo(t, r, "reset", t.m, c, t.i)
    BY <1>10, ChatReads DEF ChatTake, At
  <2>2. UNCHANGED <<count, offl, hist>> /\ NoteOverlap(t) /\ ~Holds(t, b) /\ t.op = "chat"
    BY <1>10 DEF ChatTake, At, Holds, redis
  <2>3. HoldersIn(T, b) = {}
    BY <2>2 DEF NoteOverlap, HoldersIn
  <2>4. HoldersIn(U, b) = {r}
    BY <2>1, <2>3, HoldersMove DEF ChatTo, Holds
  <2>5. HolderFits(r, c, f, h)
    BY <1>3, <2>1, <2>3 DEF Exclusive, HolderFits, ChatTo
  <2>6. \A m \in Messages : Present(T, b, f, h, m) => Present(U, b, f, h, m)
    BY <1>5 DEF Present
  <2>7. BoxOK(sent, U, b, c, f, h)
    BY <2>4, <2>5, <2>6, BoxStep
  <2> QED BY <1>5, <2>2, <2>7
<1>11. CASE ChatReset(t)
  <2>1. /\ UNCHANGED <<offl, hist>> /\ Holds(t, b) /\ t.op = "chat" /\ t.step = "reset"
        /\ Goto(t, IF t.n = 0 THEN "own" ELSE "fetch") /\ d = 0
    BY <1>11 DEF ChatReset, At, Holds, TypeOK
  <2>2. t.n = c /\ Filled(f, 0, c) /\ HoldersIn(T, b) = {t} /\ t.i = 0
    BY <1>4, <2>1 DEF HolderFits, Bound, Chats
  <2>3. \A m \in Messages : Present(T, b, f, h, m) => Present(U, b, f, h, m)
    BY <1>5 DEF Present
  <2>4. CASE t.n = 0
    <3>1. PICK r : ChatTo(t, r, "own", t.m, t.n, t.i)
      BY <2>1, <2>4, ChatGoes
    <3>2. HoldersIn(U, b) = {}
      BY <2>2, <3>1, HoldersMove DEF ChatTo, Holds
    <3>3. BoxOK(sent, U, b, 0, f, h)
      BY <2>2, <2>3, <2>4, <3>2, BoxStep
    <3> QED BY <1>5, <2>1, <3>3
  <2>5. CASE t.n # 0
    <3>1. PICK r : ChatTo(t, r, "fetch", t.m, t.n, t.i)
      BY <2>1, <2>5, ChatGoes
    <3>2. HoldersIn(U, b) = {r}
      BY <2>2, <3>1, HoldersMove DEF ChatTo, Holds
    <3>3. HolderFits(r, 0, f, h)
      BY <2>2, <3>1 DEF HolderFits, ChatTo
    <3>4. BoxOK(sent, U, b, 0, f, h)
      BY <2>3, <3>2, <3>3, BoxStep
    <3> QED BY <1>5, <2>1, <3>4
  <2> QED BY <2>4, <2>5
<1>12. CASE ChatFetch(t)
  <2>1. UNCHANGED <<count, offl, hist>> /\ Holds(t, b) /\ t.op = "chat" /\ t.step = "fetch"
    BY <1>12 DEF ChatFetch, At, Holds, redis
  <2>2. c = 0 /\ Filled(f, t.i, t.n) /\ HoldersIn(T, b) = {t} /\ t.i < t.n
    BY <1>4, <2>1 DEF HolderFits, Bound, Chats
  <2>3. f[t.i] # None
    BY <1>1, <2>1, <2>2, FetchInRange DEF Filled
  <2> DEFINE m == f[t.i]
  <2>4. Replace(t, [t EXCEPT !.step = "push", !.m = m])
    BY <1>12, <2>3 DEF ChatFetch
  <2>5. m = f[t.i]
    OBVIOUS
  <2> HIDE DEF m
  <2>6. PICK r : ChatTo(t, r, "push", m, t.n, t.i)
    BY <2>1, <2>4, ChatFinds
  <2>7. HoldersIn(U, b) = {r}
    BY <2>2, <2>6, HoldersMove DEF ChatTo, Holds
  <2>8. HolderFits(r, c, f, h)
    BY <2>2, <2>5, <2>6 DEF HolderFits, ChatTo
  <2>9. \A x \in Messages : Present(T, b, f, h, x) => Present(U, b, f, h, x)
    BY <1>5 DEF Present
  <2>10. BoxOK(sent, U, b, c, f, h)
    BY <2>7, <2>8, <2>9, BoxStep
  <2> QED BY <1>5, <2>1, <2>10
<1>13. CASE ChatPush(t)
  <2>1. UNCHANGED <<count, offl>> /\ Holds(t, b) /\ t.op = "chat" /\ t.step = "push"
        /\ Goto(t, "hdel")
    BY <1>13 DEF ChatPush, At, Holds
  <2>2. c = 0 /\ Filled(f, t.i, t.n) /\ HoldersIn(T, b) = {t} /\ f[t.i] = t.m
        /\ t.m \in Messages
    BY <1>4, <2>1 DEF HolderFits, Bound, Chats
  <2>3. In(t.m, k)
    <3>1. messageQueue[p] \in Seq(Messages) /\ h \in Seq(Messages)
      BY <1>1 DEF TypeOK
    <3>2. messageQueue'[p] = Append(messageQueue[p], t.m)
      BY <1>1, <1>13 DEF ChatPush, TypeOK
    <3>3. k = h \o messageQueue'[p]
      BY <1>1, <1>13 DEF ChatPush, TypeOK
    <3>4. In(t.m, messageQueue'[p])
      BY <2>2, <3>1, <3>2, Appended
    <3>5. messageQueue'[p] \in Seq(Messages)
      BY <2>2, <3>1, <3>2
    <3>6. \A q1 \in Seq(Messages), q2 \in Seq(Messages) :
             \A x : In(x, q1 \o q2) <=> In(x, q1) \/ In(x, q2)
      BY Concatenated
    <3>7. In(t.m, h \o messageQueue'[p])
      BY <3>1, <3>4, <3>5, <3>6
    <3> QED BY <3>3, <3>7
  <2>4. PICK r : ChatTo(t, r, "hdel", t.m, t.n, t.i)
    BY <2>1, ChatGoes
  <2>5. HoldersIn(U, b) = {r}
    BY <2>2, <2>4, HoldersMove DEF ChatTo, Holds
  <2>6. HolderFits(r, c, f, k)
    BY <2>2, <2>3, <2>4 DEF HolderFits, ChatTo
  <2>7. \A m \in Messages : Present(T, b, f, h, m) => Present(U, b, f, k, m)
    BY <1>2, <1>5 DEF Present
  <2>8. BoxOK(sent, U, b, c, f, k)
    BY <2>5, <2>6, <2>7, BoxStep
  <2> QED BY <1>5, <2>1, <2>8
<1>14. CASE ChatHdel(t)
  <2>1. UNCHANGED <<count, hist>> /\ Holds(t, b) /\ t.op = "chat" /\ t.step = "hdel"
    BY <1>14 DEF ChatHdel, At, Holds
  <2>2. c = 0 /\ Filled(f, t.i, t.n) /\ HoldersIn(T, b) = {t} /\ f[t.i] = t.m
        /\ t.i < t.n /\ In(t.m, h)
    BY <1>4, <2>1 DEF HolderFits, Bound, Chats
  <2>3. t.i \in Indices /\ \A i \in Indices : i \in Nat
    BY <2>1, FetchInRange, FinishedFits DEF Indices
  <2>4. \A i \in Indices : g[i] = IF i = t.i THEN None ELSE f[i]
    BY <1>14 DEF ChatHdel, TypeOK
  <2>5. Filled(g, t.i + 1, t.n)
    BY <1>1, <2>1, <2>2, <2>3, <2>4 DEF Filled
  <2>6. ASSUME NEW m \in Messages, Present(T, b, f, h, m) PROVE Present(U, b, g, h, m)
    BY <1>5, <2>2, <2>4, <2>6 DEF Present
  <2>7. CASE t.i + 1 = t.n
    <3>1. PICK r : ChatTo(t, r, "own", None, t.n, t.i + 1)
      BY <1>14, <2>1, <2>7, ChatNext DEF ChatHdel
    <3>2. HoldersIn(U, b) = {}
      BY <2>2, <3>1, HoldersMove DEF ChatTo, Holds
    <3>3. Filled(g, 0, c)
      BY <1>1, <2>1, <2>2, <2>3, <2>5, <2>7 DEF Filled
    <3>4. BoxOK(sent, U, b, c, g, h)
      BY <2>6, <3>2, <3>3, BoxStep
    <3> QED BY <1>5, <2>1, <3>4
  <2>8. CASE t.i + 1 # t.n
    <3>1. PICK r : ChatTo(t, r, "fetch", None, t.n, t.i + 1)
      BY <1>14, <2>1, <2>8, ChatNext DEF ChatHdel
    <3>2. HoldersIn(U, b) = {r}
      BY <2>2, <3>1, HoldersMove DEF ChatTo, Holds
    <3>3. HolderFits(r, c, g, h)
      BY <2>2, <2>5, <3>1 DEF HolderFits, ChatTo
    <3>4. BoxOK(sent, U, b, c, g, h)
      BY <2>6, <3>2, <3>3, BoxStep
    <3> QED BY <1>5, <2>1, <3>4
  <2> QED BY <2>7, <2>8
<1> QED
  BY <1>8, <1>9, <1>10, <1>11, <1>12, <1>13, <1>14, <1>15
     DEF TaskStep, MessageRoute, MessageSend, MessageSendToNull, MessageStatus, MessageRead,
         StoreLock, StoreCount, StoreOffl, StoreIncr, At

\* Every step keeps the boxes that no two tasks changed at once and no restart
\* cut off.
LEMMA BoxInvStep ==
    ASSUME TypeOK, Bound, Origin, Locking, BoxInv, [Next]_vars
    PROVE  BoxInv'
<1> SUFFICES ASSUME NEW b \in Boxes, b \notin disturbed', b \notin cut'
             PROVE  BoxOK(sent', tasks', b, count'[b], offl'[b], hist'[PairOf(b)])
  BY DEF BoxInv
<1>1. disturbed \subseteq disturbed' /\ cut \subseteq cut'
  <2>1. ASSUME NEW u \in Users, ClientStep(u) PROVE UNCHANGED <<disturbed, cut>>
    BY <2>1 DEF ClientStep, Enter, Say, Leave, Drop, Return, history
  <2>2. ASSUME Restart PROVE disturbed \subseteq disturbed' /\ cut \subseteq cut'
    BY <2>2 DEF Restart
  <2>3. ASSUME NEW t \in tasks, TaskStep(t)
        PROVE  disturbed \subseteq disturbed' /\ cut \subseteq cut'
    BY <2>2, <2>3
       DEF TaskStep, MessageRoute, MessageSend, MessageSendToNull, MessageStatus, MessageRead,
           StoreLock, StoreCount, StoreOffl, StoreIncr, ChatTake, ChatReset, ChatFetch,
           ChatPush, ChatHdel, ChatOwn, ChatOwnRead, ChatReply, ChatFlag, endChat, NoteOverlap, history
  <2>4. ASSUME UNCHANGED vars PROVE UNCHANGED <<disturbed, cut>>
    BY <2>4 DEF vars
  <2> QED BY <2>1, <2>2, <2>3, <2>4 DEF Next
<1>2. BoxOK(sent, tasks, b, count[b], offl[b], hist[PairOf(b)])
  BY <1>1 DEF BoxInv
<1>3. ASSUME NEW new, new.op \in {"message", "chat", "endchat"},
             new.op \in {"message", "chat"} => new.step \in {"route", "take"},
             tasks' = tasks \cup {new},
             sent' = sent \/ \E s : /\ sent' = sent \cup {s}
                                    /\ new.op = "message"
                                    /\ s = <<new.box[2], new.box[1], new.m>>
                                    /\ new.box = <<new.box[1], new.box[2]>>,
             UNCHANGED <<count, offl, hist>>
      PROVE  BoxOK(sent', tasks', b, count'[b], offl'[b], hist'[PairOf(b)])
  <2>1. HoldersIn(tasks', b) = HoldersIn(tasks, b)
    BY <1>3 DEF HoldersIn, Holds
  <2>2. \A m : StoreOf(tasks, b, m) => StoreOf(tasks', b, m)
    BY <1>3 DEF StoreOf
  <2>3. \A m : From(sent', b, m) => From(sent, b, m) \/ StoreOf(tasks', b, m)
    <3>1. CASE sent' = sent
      BY <3>1
    <3>2. CASE \E s : /\ sent' = sent \cup {s}
                      /\ new.op = "message"
                      /\ s = <<new.box[2], new.box[1], new.m>>
                      /\ new.box = <<new.box[1], new.box[2]>>
      <4>1. b = <<b[1], b[2]>>
        BY DEF Boxes
      <4>2. ASSUME NEW m, From(sent', b, m), ~From(sent, b, m)
            PROVE  new.m = m /\ new.box = b
        BY <3>2, <4>1, <4>2 DEF From
      <4> QED BY <1>3, <3>2, <4>2 DEF StoreOf
    <3> QED BY <1>3, <3>1, <3>2
  <2> QED BY <1>2, <1>3, <2>1, <2>2, <2>3, BoxFrame
<1>4. ASSUME tasks' = tasks, sent' = sent, UNCHANGED <<count, offl, hist>>
      PROVE  BoxOK(sent', tasks', b, count'[b], offl'[b], hist'[PairOf(b)])
  BY <1>2, <1>4
<1>5. ASSUME NEW u \in Users, NEW v \in Users, Enter(u, v)
      PROVE  BoxOK(sent', tasks', b, count'[b], offl'[b], hist'[PairOf(b)])
  <2> DEFINE new == [op |-> "chat", m |-> None, box |-> <<u, v>>, n |-> 0, i |-> 0,
                     id |-> enters[u], step |-> "take"]
  <2>1. new.op = "chat" /\ new.step = "take" /\ tasks' = tasks \cup {new}
        /\ UNCHANGED <<sent, count, offl, hist>>
    BY <1>5 DEF Enter, redis
  <2> HIDE DEF new
  <2> QED BY <1>3, <2>1
<1>6. ASSUME NEW u \in Users, NEW m \in Messages, Say(u, m)
      PROVE  BoxOK(sent', tasks', b, count'[b], offl'[b], hist'[PairOf(b)])
  <2> DEFINE new == [op |-> "message", m |-> m, box |-> <<screen[u][1], u>>, n |-> 0,
                     step |-> "route"]
             s == <<u, screen[u][1], m>>
  <2>1. /\ new.op = "message" /\ new.step = "route" /\ tasks' = tasks \cup {new}
        /\ UNCHANGED <<count, offl, hist>> /\ sent' = sent \cup {s}
        /\ s = <<new.box[2], new.box[1], new.m>>
        /\ new.box = <<new.box[1], new.box[2]>>
    BY <1>6 DEF Say, redis
  <2> HIDE DEF new, s
  <2>2. \E x : /\ sent' = sent \cup {x} /\ new.op = "message"
                /\ x = <<new.box[2], new.box[1], new.m>>
                /\ new.box = <<new.box[1], new.box[2]>>
    BY <2>1
  <2> QED BY <1>3, <2>1, <2>2
<1>7. ASSUME NEW u \in Users, Leave(u)
      PROVE  BoxOK(sent', tasks', b, count'[b], offl'[b], hist'[PairOf(b)])
  <2> DEFINE new == [op |-> "endchat", box |-> <<u, screen[u][1]>>, id |-> enters[u]]
  <2>1. new.op = "endchat" /\ tasks' = tasks \cup {new} /\ UNCHANGED <<sent, count, offl, hist>>
    BY <1>7 DEF Leave, redis
  <2> HIDE DEF new
  <2> QED BY <1>3, <2>1
<1>8. ASSUME NEW u \in Users, Drop(u) \/ Return(u)
      PROVE  BoxOK(sent', tasks', b, count'[b], offl'[b], hist'[PairOf(b)])
  BY <1>4, <1>8 DEF Drop, Return, redis
<1>9. CASE Restart
  <2>1. \A t \in tasks : t.box # b
    BY <1>9 DEF Restart
  <2>2. HoldersIn(tasks', b) = HoldersIn(tasks, b) /\ \A m : ~StoreOf(tasks, b, m)
    BY <1>9, <2>1 DEF Restart, HoldersIn, Holds, StoreOf
  <2>3. UNCHANGED <<sent, count, offl, hist>>
    BY <1>9 DEF Restart, redis
  <2> QED BY <1>2, <2>2, <2>3, BoxFrame
<1>10. ASSUME NEW t \in tasks, TaskStep(t), ~Restart
       PROVE  BoxOK(sent', tasks', b, count'[b], offl'[b], hist'[PairOf(b)])
  <2>1. CASE t.box # b
    BY <1>2, <1>10, <2>1, OtherBox
  <2>2. CASE t.box = b /\ t.op = "message"
    BY <1>2, <1>10, <2>2, OwnBoxMessage
  <2>3. CASE t.box = b /\ t.op # "message"
    BY <1>2, <1>10, <2>3, OwnBoxChat
  <2> QED BY <2>1, <2>2, <2>3
<1>11. CASE UNCHANGED vars
  BY <1>4, <1>11 DEF vars
<1> QED BY <1>5, <1>6, <1>7, <1>8, <1>9, <1>10, <1>11 DEF Next, ClientStep

----------------------------------------------------------------------------
(***************************************************************************)
(* chatStatus_.  What it says of one box, for the tasks T, the screen s of *)
(* the owner and the number e of its CHAT requests.                        *)
(***************************************************************************)
ChatsIn(T, b) == {t \in T : t.box = b /\ t.op \in {"chat", "endchat"}}

\* What holds while the request t of the box is served.
RequestFits(t, F, b, s, e) ==
    /\ t.op = "endchat" => b \in F /\ s = <<Nobody, "menu">>
    /\ t.op = "chat" /\ t.step # "flag" =>
          b \notin F /\ s = <<b[2], "enters">> /\ t.id + 1 = e
    /\ t.op = "chat" /\ t.step = "flag" => b \notin F /\ s = <<b[2], "chat">>

FlagFollows(T, F, b, s, e) ==
    /\ \A x, y \in ChatsIn(T, b) : x = y
    /\ ChatsIn(T, b) = {} => (b \in F <=> s = <<b[2], "chat">>)
    /\ \A t \in ChatsIn(T, b) : RequestFits(t, F, b, s, e)

FlagInv ==
    \A b \in Boxes \ hurried :
        FlagFollows(tasks, chatStatus_, b, screen[b[1]], enters[b[1]])

\* The flag, the requests of the box, its owner's screen and number of requests
\* are as before.
LEMMA FlagFrame ==
    ASSUME NEW T, NEW U, NEW F, NEW G, NEW b, NEW s, NEW e,
           FlagFollows(T, F, b, s, e), ChatsIn(U, b) = ChatsIn(T, b), b \in G <=> b \in F
    PROVE  FlagFollows(U, G, b, s, e)
BY DEF FlagFollows, RequestFits

\* Clients keep it, for the boxes whose requests do not overlap.
LEMMA FlagClient ==
    ASSUME TypeOK, NEW u \in Users, ClientStep(u), NEW b \in Boxes, b \notin hurried',
           FlagFollows(tasks, chatStatus_, b, screen[b[1]], enters[b[1]])
    PROVE  FlagFollows(tasks', chatStatus_', b, screen'[b[1]], enters'[b[1]])
<1> DEFINE o == b[1]
           Goal == FlagFollows(tasks', chatStatus_', b, screen'[o], enters'[o])
<1>0. b = <<b[1], b[2]>> /\ o \in Users /\ b[2] \in Users /\ o # b[2]
  BY DEF Boxes
<1>1. /\ screen[u] = <<screen[u][1], screen[u][2]>>
      /\ screen[o][2] = "menu" => screen[o] = <<Nobody, "menu">>
      /\ Nobody \notin Users
  <2>1. \A w \in Users : screen[w] \in {<<Nobody, "menu">>} \cup (Users \X {"enters", "chat"})
    BY DEF TypeOK
  <2>2. \A w \in Users : /\ screen[w] = <<screen[w][1], screen[w][2]>>
                         /\ screen[w][2] = "menu" => screen[w] = <<Nobody, "menu">>
    <3> SUFFICES ASSUME NEW w \in Users
                 PROVE  /\ screen[w] = <<screen[w][1], screen[w][2]>>
                        /\ screen[w][2] = "menu" => screen[w] = <<Nobody, "menu">>
      OBVIOUS
    <3> DEFINE s == screen[w]
    <3>1. s = <<Nobody, "menu">> \/ s \in Users \X {"enters", "chat"}
      BY <2>1
    <3> HIDE DEF s
    <3>2. CASE s \in Users \X {"enters", "chat"}
      BY <3>2 DEF s
    <3>3. CASE s = <<Nobody, "menu">>
      BY <3>3 DEF s
    <3> QED BY <3>1, <3>2, <3>3
  <2> QED BY <1>0, <2>2, ConstantsAssumption
<1>2. UNCHANGED chatStatus_
  BY DEF ClientStep, Enter, Say, Leave, Drop, Return
<1>3. ASSUME NEW new, tasks' = tasks \cup {new},
             new.box # b \/ new.op \notin {"chat", "endchat"}
      PROVE  ChatsIn(tasks', b) = ChatsIn(tasks, b)
  BY <1>3 DEF ChatsIn
<1>4. ASSUME NEW new, tasks' = tasks \cup {new}, new.box = b, ChatsIn(tasks, b) = {},
             new.op \in {"chat", "endchat"},
             RequestFits(new, chatStatus_, b, screen'[o], enters'[o])
      PROVE  Goal
  <2>1. ChatsIn(tasks', b) = {new}
    BY <1>4 DEF ChatsIn
  <2> QED BY <1>2, <1>4, <2>1 DEF FlagFollows
<1>5. NoteHurry(u) /\ o = u => ChatsIn(tasks, b) = {}
  BY DEF NoteHurry, ChatsIn
<1>6. ASSUME ChatsIn(tasks', b) = {}, ChatsIn(tasks, b) = {},
             screen[o] # <<b[2], "chat">>, screen'[o] # <<b[2], "chat">>
      PROVE  Goal
  BY <1>2, <1>6 DEF FlagFollows
<1>7. ASSUME NEW v \in Users, Enter(u, v) PROVE Goal
  <2> DEFINE new == [op |-> "chat", m |-> None, box |-> <<u, v>>, n |-> 0, i |-> 0,
                     id |-> enters[u], step |-> "take"]
  <2>1. /\ new.op = "chat" /\ new.step = "take" /\ new.box = <<u, v>> /\ new.id = enters[u]
        /\ tasks' = tasks \cup {new} /\ NoteHurry(u) /\ screen[u][2] = "menu"
    BY <1>7 DEF Enter
  <2> HIDE DEF new
  <2>2. /\ \A w \in Users : screen'[w] = IF w = u THEN <<v, "enters">> ELSE screen[w]
        /\ \A w \in Users : enters'[w] = IF w = u THEN enters[u] + 1 ELSE enters[w]
    BY <1>7 DEF Enter, TypeOK
  <2>3. CASE o # u
    <3>1. ChatsIn(tasks', b) = ChatsIn(tasks, b)
      BY <1>0, <1>3, <2>1, <2>3
    <3> QED BY <1>0, <1>2, <2>2, <2>3, <3>1, FlagFrame
  <2>4. CASE o = u /\ v # b[2]
    <3>1. ChatsIn(tasks', b) = ChatsIn(tasks, b)
      BY <1>0, <1>3, <2>1, <2>4
    <3>2. screen[o] # <<b[2], "chat">> /\ screen'[o] # <<b[2], "chat">>
      BY <1>0, <1>1, <2>1, <2>2, <2>4
    <3> QED BY <1>5, <1>6, <2>1, <2>4, <3>1, <3>2
  <2>5. CASE o = u /\ v = b[2]
    <3>1. ChatsIn(tasks, b) = {} /\ screen[o] # <<b[2], "chat">>
      BY <1>1, <1>5, <2>1, <2>5
    <3>2. b \notin chatStatus_
      BY <3>1 DEF FlagFollows
    <3>3. RequestFits(new, chatStatus_, b, screen'[o], enters'[o])
      BY <1>0, <2>1, <2>2, <2>5, <3>2 DEF RequestFits
    <3> QED BY <1>0, <1>4, <2>1, <2>5, <3>1, <3>3
  <2> QED BY <2>3, <2>4, <2>5
<1>8. ASSUME NEW m \in Messages, Say(u, m) PROVE Goal
  <2> DEFINE new == [op |-> "message", m |-> m, box |-> <<screen[u][1], u>>, n |-> 0,
                     step |-> "route"]
  <2>1. new.op = "message" /\ tasks' = tasks \cup {new} /\ UNCHANGED <<screen, enters>>
    BY <1>8 DEF Say
  <2> HIDE DEF new
  <2>2. ChatsIn(tasks', b) = ChatsIn(tasks, b)
    BY <1>3, <2>1
  <2> QED BY <1>2, <2>1, <2>2, FlagFrame
<1>9. CASE Leave(u)
  <2> DEFINE new == [op |-> "endchat", box |-> <<u, screen[u][1]>>, id |-> enters[u]]
  <2>1. /\ new.op = "endchat" /\ new.box = <<u, screen[u][1]>> /\ tasks' = tasks \cup {new}
        /\ NoteHurry(u) /\ screen[u][2] = "chat" /\ UNCHANGED enters
    BY <1>9 DEF Leave
  <2> HIDE DEF new
  <2>2. \A w \in Users : screen'[w] = IF w = u THEN <<Nobody, "menu">> ELSE screen[w]
    BY <1>9 DEF Leave, TypeOK
  <2>3. CASE o # u
    <3>1. ChatsIn(tasks', b) = ChatsIn(tasks, b)
      BY <1>0, <1>3, <2>1, <2>3
    <3> QED BY <1>0, <1>2, <2>1, <2>2, <2>3, <3>1, FlagFrame
  <2>4. CASE o = u /\ screen[u][1] # b[2]
    <3>1. ChatsIn(tasks', b) = ChatsIn(tasks, b)
      BY <1>0, <1>3, <2>1, <2>4
    <3>2. screen[o] # <<b[2], "chat">> /\ screen'[o] # <<b[2], "chat">>
      BY <1>0, <1>1, <2>1, <2>2, <2>4
    <3> QED BY <1>5, <1>6, <2>1, <2>4, <3>1, <3>2
  <2>5. CASE o = u /\ screen[u][1] = b[2]
    <3>1. ChatsIn(tasks, b) = {} /\ screen[o] = <<b[2], "chat">>
      BY <1>1, <1>5, <2>1, <2>5
    <3>2. b \in chatStatus_
      BY <3>1 DEF FlagFollows
    <3>3. RequestFits(new, chatStatus_, b, screen'[o], enters'[o])
      BY <1>0, <2>1, <2>2, <2>5, <3>2 DEF RequestFits
    <3> QED BY <1>0, <1>4, <2>1, <2>5, <3>1, <3>3
  <2> QED BY <2>3, <2>4, <2>5
<1>10. CASE Drop(u)
  <2>1. screen'[o] = screen[o]
    BY <1>0, <1>1, <1>10 DEF Drop, TypeOK
  <2> QED BY <1>10, <2>1, FlagFrame DEF Drop
<1>11. CASE Return(u)
  BY <1>11, FlagFrame DEF Return
<1> QED BY <1>7, <1>8, <1>9, <1>10, <1>11 DEF ClientStep

\* So do the tasks.
LEMMA FlagTask ==
    ASSUME TypeOK, Bound, NEW t \in tasks, TaskStep(t), ~Restart, NEW b \in Boxes,
           FlagFollows(tasks, chatStatus_, b, screen[b[1]], enters[b[1]])
    PROVE  FlagFollows(tasks', chatStatus_', b, screen'[b[1]], enters'[b[1]])
<1> DEFINE o == b[1]
           Goal == FlagFollows(tasks', chatStatus_', b, screen'[o], enters'[o])
<1>0. b = <<b[1], b[2]>> /\ o \in Users /\ b[2] \in Users /\ t.box = <<t.box[1], t.box[2]>>
      /\ t.box[1] \in Users
  BY Kinds DEF Boxes
<1>1. UNCHANGED enters
  BY DEF TaskStep, MessageRoute, MessageSend, MessageSendToNull, MessageStatus, MessageRead,
     StoreLock, StoreCount, StoreOffl, StoreIncr, ChatTake, ChatReset, ChatFetch, ChatPush,
     ChatHdel, ChatOwn, ChatOwnRead, ChatReply, ChatFlag, endChat, clients
<1>2. CASE t.op = "message"
  <2>1. UNCHANGED <<screen, chatStatus_>>
    BY <1>2
       DEF TaskStep, MessageRoute, MessageSend, MessageSendToNull, MessageStatus, MessageRead,
           StoreLock, StoreCount, StoreOffl, StoreIncr, ChatTake, ChatReset, ChatFetch,
           ChatPush, ChatHdel, ChatOwn, ChatOwnRead, ChatReply, ChatFlag, endChat, clients, At
  <2>2. ChatsIn(tasks', b) = ChatsIn(tasks, b)
    <3>1. CASE Done(t)
      BY <1>2, <3>1 DEF Done, ChatsIn
    <3>2. ASSUME NEW r, Replace(t, r), Moves(t, r) PROVE ChatsIn(tasks', b) = ChatsIn(tasks, b)
      BY <1>2, <3>2 DEF Replace, Moves, ChatsIn
    <3> QED BY <3>1, <3>2, TaskMove
  <2> QED BY <1>1, <2>1, <2>2, FlagFrame
<1>3. CASE t.op # "message" /\ t.box # b
  <2>1. ChatsIn(tasks', b) = ChatsIn(tasks, b)
    <3>1. CASE Done(t)
      BY <1>3, <3>1 DEF Done, ChatsIn
    <3>2. ASSUME NEW r, Replace(t, r), Moves(t, r) PROVE ChatsIn(tasks', b) = ChatsIn(tasks, b)
      BY <1>3, <3>2 DEF Replace, Moves, ChatsIn
    <3> QED BY <3>1, <3>2, TaskMove
  <2>2. b \in chatStatus_' <=> b \in chatStatus_
    BY <1>3
       DEF TaskStep, MessageRoute, MessageSend, MessageSendToNull, MessageStatus, MessageRead,
           StoreLock, StoreCount, StoreOffl, StoreIncr, ChatTake, ChatReset, ChatFetch,
           ChatPush, ChatHdel, ChatOwn, ChatOwnRead, ChatReply, ChatFlag, endChat
  <2>3. CASE UNCHANGED screen
    BY <1>1, <2>1, <2>2, <2>3, FlagFrame
  <2>4. CASE /\ screen[t.box[1]] = <<t.box[2], "enters">>
             /\ screen' = [screen EXCEPT ![t.box[1]] = <<t.box[2], "chat">>]
    <3>1. \A w \in Users : screen'[w] = IF w = t.box[1] THEN <<t.box[2], "chat">>
                                        ELSE screen[w]
      BY <2>4 DEF TypeOK
    <3>2. CASE t.box[1] # o
      BY <1>0, <1>1, <2>1, <2>2, <3>1, <3>2, FlagFrame
    <3>3. CASE t.box[1] = o
      <4>1. t.box[2] # b[2]
        BY <1>0, <1>3, <3>3
      <4>2. screen[o] # <<b[2], "chat">> /\ screen'[o] # <<b[2], "chat">>
        BY <1>0, <2>4, <3>1, <3>3, <4>1
      <4>3. screen[o] # <<b[2], "enters">> /\ screen[o] # <<Nobody, "menu">>
        BY <2>4, <3>3, <4>1
      <4>4. ChatsIn(tasks, b) = {}
        <5>1. \A x \in ChatsIn(tasks, b) : x.op \in {"chat", "endchat"}
          BY DEF ChatsIn
        <5> QED BY <4>2, <4>3, <5>1 DEF FlagFollows, RequestFits
      <4> QED BY <2>1, <2>2, <4>2, <4>4 DEF FlagFollows
    <3> QED BY <3>2, <3>3
  <2> QED
    BY <2>3, <2>4
       DEF TaskStep, MessageRoute, MessageSend, MessageSendToNull, MessageStatus, MessageRead,
           StoreLock, StoreCount, StoreOffl, StoreIncr, ChatTake, ChatReset, ChatFetch,
           ChatPush, ChatHdel, ChatOwn, ChatOwnRead, ChatReply, ChatFlag, endChat, clients
<1>4. CASE t.op # "message" /\ t.box = b
  <2>1. t.op \in {"chat", "endchat"} /\ t \in ChatsIn(tasks, b)
    BY <1>4, Kinds DEF ChatsIn
  <2>2. ChatsIn(tasks, b) = {t} /\ RequestFits(t, chatStatus_, b, screen[o], enters[o])
    BY <2>1 DEF FlagFollows
  <2>3. Done(t) => ChatsIn(tasks', b) = {}
    BY <2>2 DEF Done, ChatsIn
  <2>4. ASSUME NEW r, Replace(t, r), r.op = "chat", r.box = b PROVE ChatsIn(tasks', b) = {r}
    BY <2>2, <2>4 DEF Replace, ChatsIn
  <2>5. ASSUME NEW r, Replace(t, r), r.op = "chat", r.box = b, r.id = t.id, r.step # "flag",
               t.op = "chat", t.step # "flag", UNCHANGED <<screen, chatStatus_>>
        PROVE  Goal
    <3>1. ChatsIn(tasks', b) = {r}
      BY <2>4, <2>5
    <3>2. RequestFits(r, chatStatus_, b, screen[o], enters[o])
      BY <2>2, <2>5 DEF RequestFits
    <3> QED BY <1>1, <2>5, <3>1, <3>2 DEF FlagFollows
  <2>6. ASSUME Done(t), t.op = "chat", t.step # "flag", UNCHANGED <<screen, chatStatus_>>
        PROVE  Goal
    BY <2>2, <2>3, <2>6 DEF FlagFollows, RequestFits
  <2>7. CASE ChatTake(t)
    <3>1. PICK r : ChatTo(t, r, "reset", t.m, count[t.box], t.i)
      BY <2>7, ChatReads DEF ChatTake, At
    <3> QED BY <1>4, <2>5, <2>7, <3>1 DEF ChatTake, At, ChatTo, clients
  <2>8. ASSUME NEW step, step # "flag", Goto(t, step), t.op = "chat", t.step # "flag",
               UNCHANGED <<screen, chatStatus_>>
        PROVE  Goal
    <3>1. PICK r : ChatTo(t, r, step, t.m, t.n, t.i)
      BY <2>8, ChatGoes
    <3> QED BY <1>4, <2>5, <2>8, <3>1 DEF ChatTo
  <2>9. CASE ChatReset(t) \/ ChatPush(t)
    <3>1. t.op = "chat" /\ t.step # "flag" /\ UNCHANGED <<screen, chatStatus_>>
          /\ \E step : step # "flag" /\ Goto(t, step)
      BY <2>9 DEF ChatReset, ChatPush, At, clients
    <3> QED BY <2>8, <3>1
  <2>10. CASE ChatOwn(t) \/ ChatOwnRead(t)
    <3>1. t.op = "chat" /\ t.step # "flag" /\ UNCHANGED <<screen, chatStatus_>>
      BY <2>10, OwnMoves DEF clients
    <3>2. CASE Done(t)
      BY <2>6, <3>1, <3>2
    <3>3. CASE ~Done(t)
      <4>1. PICK r : Replace(t, r) /\ Moves(t, r) /\ r.step \in {"ownread", "reply"}
        BY <2>10, <3>3, OwnMoves
      <4> QED BY <1>4, <2>5, <3>1, <4>1 DEF Moves
    <3> QED BY <3>2, <3>3
  <2>11. CASE ChatFetch(t)
    <3>1. t.op = "chat" /\ t.step # "flag" /\ UNCHANGED <<screen, chatStatus_>>
      BY <2>11 DEF ChatFetch, At, clients
    <3>2. CASE Done(t)
      BY <2>6, <3>1, <3>2
    <3>3. CASE Replace(t, [t EXCEPT !.step = "push", !.m = offl[t.box][t.i]])
      <4> DEFINE m == offl[t.box][t.i]
      <4>1. Replace(t, [t EXCEPT !.step = "push", !.m = m])
        BY <3>3
      <4> HIDE DEF m
      <4>2. PICK r : ChatTo(t, r, "push", m, t.n, t.i)
        BY <3>1, <4>1, ChatFinds
      <4> QED BY <1>4, <2>5, <3>1, <4>2 DEF ChatTo
    <3> QED BY <2>11, <3>2, <3>3 DEF ChatFetch
  <2>12. CASE ChatHdel(t)
    <3>1. t.op = "chat" /\ t.step # "flag" /\ UNCHANGED <<screen, chatStatus_>>
      BY <2>12 DEF ChatHdel, At, clients
    <3> DEFINE step == IF t.i + 1 = t.n THEN "own" ELSE "fetch"
    <3>2. Replace(t, [t EXCEPT !.i = t.i + 1, !.m = None, !.step = step]) /\ step # "flag"
      BY <2>12 DEF ChatHdel
    <3> HIDE DEF step
    <3>3. PICK r : ChatTo(t, r, step, None, t.n, t.i + 1)
      BY <3>1, <3>2, ChatNext
    <3> QED BY <1>4, <2>5, <3>1, <3>2, <3>3 DEF ChatTo
  <2>13. CASE ChatReply(t)
    <3>1. t.op = "chat" /\ t.step = "reply" /\ UNCHANGED chatStatus_ /\ Goto(t, "flag")
      BY <2>13 DEF ChatReply, At
    <3>2. b \notin chatStatus_ /\ screen[o] = <<b[2], "enters">> /\ t.id + 1 = enters[o]
      BY <2>2, <3>1 DEF RequestFits
    <3>3. o \in online
      BY <1>0, <3>2 DEF TypeOK
    <3>4. screen'[o] = <<b[2], "chat">>
      BY <1>0, <1>4, <2>13, <3>2, <3>3 DEF ChatReply, TypeOK
    <3>5. PICK r : ChatTo(t, r, "flag", t.m, t.n, t.i)
      BY <3>1, ChatGoes
    <3>6. ChatsIn(tasks', b) = {r} /\ r.op = "chat" /\ r.step = "flag"
      BY <1>4, <2>4, <3>5 DEF ChatTo
    <3>7. RequestFits(r, chatStatus_, b, screen'[o], enters'[o])
      BY <3>2, <3>4, <3>6 DEF RequestFits
    <3> QED BY <3>1, <3>6, <3>7 DEF FlagFollows
  <2>14. CASE ChatFlag(t)
    <3>1. t.op = "chat" /\ t.step = "flag" /\ UNCHANGED screen /\ Done(t)
          /\ chatStatus_' = chatStatus_ \cup {b}
      BY <1>4, <2>14 DEF ChatFlag, At, clients
    <3>2. screen'[o] = <<b[2], "chat">>
      BY <2>2, <3>1 DEF RequestFits
    <3> QED BY <2>3, <3>1, <3>2 DEF FlagFollows
  <2>15. CASE endChat(t)
    <3>1. t.op = "endchat" /\ UNCHANGED screen /\ Done(t) /\ chatStatus_' = chatStatus_ \ {b}
      BY <1>4, <2>15 DEF endChat, clients
    <3>2. screen'[o] = <<Nobody, "menu">>
      BY <2>2, <3>1 DEF RequestFits
    <3> QED BY <2>3, <3>1, <3>2 DEF FlagFollows
  <2> QED
    BY <1>4, <2>7, <2>9, <2>10, <2>11, <2>12, <2>13, <2>14, <2>15
       DEF TaskStep, MessageRoute, MessageSend, MessageSendToNull, MessageStatus, MessageRead,
           StoreLock, StoreCount, StoreOffl, StoreIncr, At
<1> QED BY <1>2, <1>3, <1>4

\* Every step keeps the flags of the boxes that are not hurried.
LEMMA FlagInvStep ==
    ASSUME TypeOK, Bound, FlagInv, [Next]_vars
    PROVE  FlagInv'
<1> SUFFICES ASSUME NEW b \in Boxes, b \notin hurried'
             PROVE  FlagFollows(tasks', chatStatus_', b, screen'[b[1]], enters'[b[1]])
  BY DEF FlagInv
<1>1. hurried \subseteq hurried'
  <2>1. ASSUME NEW u \in Users, ClientStep(u) PROVE hurried \subseteq hurried'
    BY <2>1 DEF ClientStep, Enter, Say, Leave, Drop, Return, NoteHurry, history
  <2>2. ASSUME Restart PROVE hurried \subseteq hurried'
    BY <2>2 DEF Restart
  <2>3. ASSUME NEW t \in tasks, TaskStep(t) PROVE hurried \subseteq hurried'
    BY <2>2, <2>3
       DEF TaskStep, MessageRoute, MessageSend, MessageSendToNull, MessageStatus, MessageRead,
           StoreLock, StoreCount, StoreOffl, StoreIncr, ChatTake, ChatReset, ChatFetch,
           ChatPush, ChatHdel, ChatOwn, ChatOwnRead, ChatReply, ChatFlag, endChat, history
  <2>4. ASSUME UNCHANGED vars PROVE hurried \subseteq hurried'
    BY <2>4 DEF vars
  <2> QED BY <2>1, <2>2, <2>3, <2>4 DEF Next
<1>2. FlagFollows(tasks, chatStatus_, b, screen[b[1]], enters[b[1]])
  BY <1>1 DEF FlagInv
<1>3. CASE Restart
  <2>1. b[1] \in Users
    BY DEF Boxes
  <2>2. screen'[b[1]] = <<Nobody, "menu">> /\ tasks' = {} /\ chatStatus_' = {}
    BY <1>3, <2>1 DEF Restart
  <2>3. ChatsIn(tasks', b) = {}
    BY <2>2 DEF ChatsIn
  <2> QED BY <2>2, <2>3 DEF FlagFollows
<1>4. CASE UNCHANGED vars
  BY <1>2, <1>4 DEF vars
<1> QED BY <1>2, <1>3, <1>4, FlagClient, FlagTask DEF Next

----------------------------------------------------------------------------
(***************************************************************************)
(* The properties.                                                         *)
(***************************************************************************)

\* Nobody sends a message to himself.
Apart == \A s \in sent : s[1] # s[2]

\* No step makes anybody write to himself.
LEMMA ApartStep ==
    ASSUME TypeOK, Apart, [Next]_vars
    PROVE  Apart'
<1>1. CASE UNCHANGED sent
  BY <1>1 DEF Apart
<1>2. ASSUME NEW u \in Users, NEW m \in Messages, Say(u, m) PROVE Apart'
  <2>1. screen[u][1] # u /\ sent' = sent \cup {<<u, screen[u][1], m>>}
    BY <1>2 DEF Say, TypeOK
  <2> QED BY <2>1 DEF Apart
<1>3. ASSUME NEW u \in Users, ClientStep(u), ~(\E m \in Messages : Say(u, m))
      PROVE  UNCHANGED sent
  BY <1>3 DEF ClientStep, Enter, Leave, Drop, Return
<1>4. ASSUME Restart PROVE UNCHANGED sent
  BY <1>4 DEF Restart
<1>5. ASSUME NEW t \in tasks, TaskStep(t) PROVE UNCHANGED sent
  BY <1>4, <1>5
     DEF TaskStep, MessageRoute, MessageSend, MessageSendToNull, MessageStatus, MessageRead,
         StoreLock, StoreCount, StoreOffl, StoreIncr, ChatTake, ChatReset, ChatFetch,
         ChatPush, ChatHdel, ChatOwn, ChatOwnRead, ChatReply, ChatFlag, endChat, clients
<1>6. ASSUME UNCHANGED vars PROVE UNCHANGED sent
  BY <1>6 DEF vars
<1> QED BY <1>1, <1>2, <1>3, <1>4, <1>5, <1>6 DEF Next

\* The inductive invariant.
MailboxInv ==
    /\ TypeOK /\ Bound /\ Origin /\ Locking /\ Apart
    /\ BoxInv /\ FlagInv

\* It holds when the server starts.
LEMMA InitMailboxInv == Init => MailboxInv
<1> SUFFICES ASSUME Init PROVE MailboxInv
  OBVIOUS
<1> USE DEF Init
<1>1. Stores = {} /\ Chats = {} /\ \A p : \A x : ~In(x, <<>>)
  BY DEF Stores, Chats, In
<1>2. TypeOK
  <2>1. online \subseteq Users /\ sent \subseteq Users \X Users \X Messages
        /\ tasks \subseteq ChatTask \cup MessageTask \cup EndTask /\ chatStatus_ \subseteq Boxes
    OBVIOUS
  <2>2. /\ screen \in [Users -> {<<Nobody, "menu">>} \cup (Users \X {"enters", "chat"})]
        /\ enters \in [Users -> Nat] /\ count \in [Boxes -> Nat]
        /\ offl \in [Boxes -> [Indices -> Messages \cup {None}]]
        /\ hist \in [Pairs -> Seq(Messages)] /\ messageQueue \in [Pairs -> Seq(Messages)]
    OBVIOUS
  <2>3. \A u \in Users : screen[u][1] # u /\ screen[u][2] = "menu"
    BY ConstantsAssumption
  <2> QED BY <2>1, <2>2, <2>3 DEF TypeOK
<1>3. Bound
  <2>1. Cardinality(Finished) \in Nat
    BY FinishedFits
  <2> QED BY <1>1, <2>1 DEF Bound
<1>4. Origin
  BY <1>1 DEF Origin, SentOnce, TasksFrom, BoxesFrom, QueueOfPair, HistOfPair
<1>5. Locking /\ Apart
  BY <1>1 DEF Locking, Apart
<1>6. BoxInv
  <2> SUFFICES ASSUME NEW b \in Boxes
               PROVE  BoxOK(sent, tasks, b, count[b], offl[b], hist[PairOf(b)])
    BY DEF BoxInv
  <2>1. HoldersIn(tasks, b) = {} /\ \A m : ~From(sent, b, m)
    BY DEF HoldersIn, From
  <2>2. Filled(offl[b], 0, count[b])
    BY FinishedFits DEF Filled, Indices
  <2> QED BY <2>1, <2>2 DEF BoxOK, Exclusive, AllPresent
<1>7. FlagInv
  <2> SUFFICES ASSUME NEW b \in Boxes
               PROVE  FlagFollows(tasks, chatStatus_, b, screen[b[1]], enters[b[1]])
    BY DEF FlagInv
  <2>1. ChatsIn(tasks, b) = {} /\ b[1] \in Users
    BY DEF ChatsIn, Boxes
  <2>2. screen[b[1]] # <<b[2], "chat">> /\ b \notin chatStatus_
    BY <2>1
  <2> QED BY <2>1, <2>2 DEF FlagFollows
<1> QED BY <1>2, <1>3, <1>4, <1>5, <1>6, <1>7 DEF MailboxInv

\* Every step keeps it.
LEMMA MailboxAlways == Spec => []MailboxInv
<1>1. ASSUME MailboxInv, [Next]_vars PROVE MailboxInv'
  <2>1. TypeOK' /\ Bound' /\ Origin' /\ Locking' /\ Apart'
    BY <1>1, TypeStep, BoundStep, OriginStep, LockStep, ApartStep DEF MailboxInv
  <2>2. BoxInv' /\ FlagInv'
    BY <1>1, BoxInvStep, FlagInvStep DEF MailboxInv
  <2> QED BY <2>1, <2>2 DEF MailboxInv
<1> QED BY InitMailboxInv, <1>1, PTL DEF Spec

\* At rest, an undisturbed box holds messages below its counter and nowhere
\* else.
LEMMA AtRest ==
    ASSUME MailboxInv, NEW b \in Boxes, Settled(b), b \notin disturbed \cup cut
    PROVE  /\ \A i \in Indices : offl[b][i] # None <=> i < count[b]
           /\ AllPresent(sent, tasks, b, offl[b], hist[PairOf(b)])
<1>1. BoxOK(sent, tasks, b, count[b], offl[b], hist[PairOf(b)])
  BY DEF MailboxInv, BoxInv
<1>2. HoldersIn(tasks, b) = {}
  BY DEF Settled, HoldersIn, Holds
<1>3. Filled(offl[b], 0, count[b])
  BY <1>1, <1>2 DEF BoxOK, Exclusive
<1>4. \A i \in Indices : i \in Nat
  BY FinishedFits DEF Indices
<1> QED BY <1>1, <1>3, <1>4 DEF Filled, BoxOK

\* A message that was sent is in the history or unread below the counter once
\* its box is at rest, as long as no two tasks changed the box at once and no
\* restart cut one off: MESSAGE, storeMessages and the CHAT handler together
\* lose none.
THEOREM Kept == Spec => []KeptUnlessDisturbed
<1>1. ASSUME MailboxInv PROVE KeptUnlessDisturbed
  <2> SUFFICES ASSUME NEW s \in sent, Settled(<<s[2], s[1]>>),
                      <<s[2], s[1]>> \notin disturbed \cup cut
               PROVE  InHistory(<<s[2], s[1]>>, s[3]) \/ IsUnread(<<s[2], s[1]>>, s[3])
    BY DEF KeptUnlessDisturbed
  <2> DEFINE b == <<s[2], s[1]>>
  <2>1. /\ s[1] \in Users /\ s[2] \in Users /\ s[3] \in Messages /\ s[1] # s[2]
        /\ s = <<s[1], s[2], s[3]>>
    BY <1>1 DEF MailboxInv, TypeOK, Apart
  <2>2. b \in Boxes /\ From(sent, b, s[3])
    BY <2>1 DEF Boxes, From
  <2>3. b \notin disturbed \cup cut /\ Settled(b)
    OBVIOUS
  <2> HIDE DEF b
  <2>4. Present(tasks, b, offl[b], hist[PairOf(b)], s[3])
    BY <1>1, <2>1, <2>2, <2>3, AtRest DEF AllPresent
  <2>5. ~StoreOf(tasks, b, s[3])
    BY <2>3 DEF Settled, StoreOf
  <2>6. CASE In(s[3], hist[PairOf(b)])
    BY <2>6 DEF In, InHistory, b
  <2>7. CASE \E i \in Indices : offl[b][i] = s[3]
    <3>1. s[3] # None
      BY <2>1, ConstantsAssumption
    <3>2. IsUnread(b, s[3])
      BY <1>1, <2>2, <2>3, <2>7, <3>1, AtRest DEF IsUnread
    <3> QED BY <3>2 DEF b
  <2> QED BY <2>4, <2>5, <2>6, <2>7 DEF Present
<1> QED BY MailboxAlways, <1>1, PTL

\* The unread counter of a box at rest counts its unread messages, under the
\* same condition.
THEOREM CounterAgrees == Spec => []CounterCountsUnread
<1>1. ASSUME MailboxInv PROVE CounterCountsUnread
  BY <1>1, AtRest DEF CounterCountsUnread
<1> QED BY MailboxAlways, <1>1, PTL

\* The history of two users holds only what one of them sent to the other,
\* whatever indices are overwritten or read twice.
THEOREM HistoryOfPair == Spec => []HistoryIsOfThePair
<1>1. ASSUME MailboxInv PROVE HistoryIsOfThePair
  BY <1>1 DEF MailboxInv, Origin, HistOfPair, OfPair, In, HistoryIsOfThePair
<1> QED BY MailboxAlways, <1>1, PTL

\* chatStatus_ says whose chat is open once the CHAT and ENDCHAT requests of
\* that chat are served, unless they overlapped or the user dropped out of it.
THEOREM FlagAgrees == Spec => []FlagMatchesScreen
<1>1. ASSUME MailboxInv PROVE FlagMatchesScreen
  <2> SUFFICES ASSUME NEW b \in Boxes, Settled(b), b \notin hurried
               PROVE  b \in chatStatus_ <=> screen[b[1]] = <<b[2], "chat">>
    BY DEF FlagMatchesScreen
  <2>1. FlagFollows(tasks, chatStatus_, b, screen[b[1]], enters[b[1]])
    BY <1>1 DEF MailboxInv, FlagInv
  <2>2. ChatsIn(tasks, b) = {}
    BY DEF Settled, ChatsIn
  <2> QED BY <2>1, <2>2 DEF FlagFollows
<1> QED BY MailboxAlways, <1>1, PTL
============================================================================
