------------------------------ MODULE Mailbox ------------------------------
(***************************************************************************)
(* Private messages: the MESSAGE, CHAT and ENDCHAT handlers of             *)
(* handleData.cc with the redis operations they call (storeMessages,       *)
(* sendOfflineMeg, storeReadMeg, sendHisOffineMeg), run by pool workers    *)
(* that interleave at every redis round trip.                              *)
(*                                                                         *)
(* Redis keeps, per owner and sender, a counter of unread messages (a      *)
(* field of "frie:<owner>") and the messages themselves, indexed from 0 (in*)
(* "offl:<owner>"), and per pair of users the history ("read:<a>:<b>").    *)
(* Memory keeps chatStatus_ (who has which chat open) and messageQueue.    *)
(* Login and routing are those of Session: here a user is online or not.   *)
(***************************************************************************)
EXTENDS Naturals, Sequences, FiniteSets

CONSTANTS
    Users,       \* mutual friends, none of them blacklisted
    Messages,    \* bound: the messages, each sent at most once
    Nobody,      \* no user
    None,        \* an absent field of a redis hash; no task
    MaxEnters    \* bound: the CHAT requests of each user

ASSUME ConstantsAssumption ==
    /\ Nobody \notin Users
    /\ None \notin Messages
    /\ MaxEnters \in [Users -> Nat]
    /\ IsFiniteSet(Messages)

VARIABLES
    online,        \* users that ConnectionManager routes to
    screen,        \* each client: the peer it chats with, and "menu",
                   \* "enters" (CHAT sent, no answer) or "chat"
    enters,        \* CHAT requests each user has sent
    sent,          \* history: messages sent, as <<from, to, m>>
    count,         \* redis: unread counter of <<owner, from>>
    offl,          \* redis: unread messages of <<owner, from>> by index
    hist,          \* redis: the history of a pair of users
    messageQueue,  \* redisCmd.cc: messages read, per pair, never cleared
    chatStatus_,   \* handleData.cc: <<u, v>>: u has the chat with v open
    storeMtx,      \* the message whose task holds storeMtx, or None
    tasks,         \* pool tasks
    disturbed,     \* history: boxes that two tasks changed at once
    cut,           \* history: boxes whose tasks a restart cut off
    hurried        \* history: boxes whose owner left or came back while an
                   \* ENDCHAT or CHAT of the box was running, or dropped

vars == <<online, screen, enters, sent, count, offl, hist, messageQueue,
          chatStatus_, storeMtx, tasks, disturbed, cut, hurried>>

redis == <<count, offl, hist>>
clients == <<online, screen, enters, sent>>
history == <<disturbed, cut, hurried>>

Boxes == {b \in Users \X Users : b[1] # b[2]}          \* <<owner, from>>
Pairs == {{b[1], b[2]} : b \in Boxes}
PairOf(b) == {b[1], b[2]}
Swap(b) == <<b[2], b[1]>>
MaxStored == Cardinality(Messages)
Indices == 0 .. MaxStored

Init ==
    /\ online = Users
    /\ screen = [u \in Users |-> <<Nobody, "menu">>]
    /\ enters = [u \in Users |-> 0]
    /\ sent = {}
    /\ count = [b \in Boxes |-> 0]
    /\ offl = [b \in Boxes |-> [i \in Indices |-> None]]
    /\ hist = [p \in Pairs |-> <<>>]
    /\ messageQueue = [p \in Pairs |-> <<>>]
    /\ chatStatus_ = {}
    /\ storeMtx = None
    /\ tasks = {}
    /\ disturbed = {}
    /\ cut = {}
    /\ hurried = {}

----------------------------------------------------------------------------
\* Requests of u on its chats overlap.
NoteHurry(u) ==
    hurried' = hurried \cup {b \in Boxes : b[1] = u /\
                  \E t \in tasks : t.box = b /\ t.op \in {"chat", "endchat"}}

(***************************************************************************)
(* Clients.                                                                *)
(***************************************************************************)

\* seeFriend sends CHAT and waits.
Enter(u, v) ==
    /\ u \in online /\ u # v
    /\ screen[u][2] = "menu"
    /\ enters[u] < MaxEnters[u]
    /\ enters' = [enters EXCEPT ![u] = @ + 1]
    /\ screen' = [screen EXCEPT ![u] = <<v, "enters">>]
    /\ tasks' = tasks \cup
          {[op |-> "chat", m |-> None, box |-> <<u, v>>, n |-> 0, i |-> 0,
            id |-> enters[u], step |-> "take"]}
    /\ NoteHurry(u)
    /\ UNCHANGED <<online, sent, redis, messageQueue, chatStatus_, storeMtx,
                   disturbed, cut>>

Say(u, m) ==
    /\ u \in online
    /\ screen[u][2] = "chat"
    /\ \A s \in sent : s[3] # m
    /\ sent' = sent \cup {<<u, screen[u][1], m>>}
    /\ tasks' = tasks \cup
          {[op |-> "message", m |-> m, box |-> <<screen[u][1], u>>, n |-> 0,
            step |-> "route"]}
    /\ UNCHANGED <<online, screen, enters, redis, messageQueue, chatStatus_,
                   storeMtx, history>>

\* /quit sends ENDCHAT and leaves at once.
Leave(u) ==
    /\ u \in online
    /\ screen[u][2] = "chat"
    /\ screen' = [screen EXCEPT ![u] = <<Nobody, "menu">>]
    /\ tasks' = tasks \cup
          {[op |-> "endchat", box |-> <<u, screen[u][1]>>, id |-> enters[u]]}
    /\ NoteHurry(u)
    /\ UNCHANGED <<online, enters, sent, redis, messageQueue, chatStatus_,
                   storeMtx, disturbed, cut>>

\* The disconnect callback; chatStatus_ stays as it is.
Drop(u) ==
    /\ u \in online
    /\ online' = online \ {u}
    /\ screen' = [screen EXCEPT ![u] = <<Nobody, "menu">>]
    /\ hurried' = hurried \cup {b \in Boxes : b[1] = u /\ screen[u][2] # "menu"}
    /\ UNCHANGED <<enters, sent, redis, messageQueue, chatStatus_, storeMtx,
                   tasks, disturbed, cut>>

Return(u) ==
    /\ u \notin online
    /\ online' = online \cup {u}
    /\ UNCHANGED <<screen, enters, sent, redis, messageQueue, chatStatus_,
                   storeMtx, tasks, history>>

----------------------------------------------------------------------------
Replace(t, r) == tasks' = (tasks \ {t}) \cup {r}
Goto(t, step) == Replace(t, [t EXCEPT !.step = step])
Done(t) == tasks' = tasks \ {t}
At(t, op, step) == t.op = op /\ t.step = step

\* The task is between its read of a box and its last write to it.
Holds(t, b) ==
    /\ t.box = b
    /\ \/ t.op = "message" /\ t.step \in {"offl", "incr"}
       \/ t.op = "chat" /\ t.step \in {"reset", "fetch", "push", "hdel"}

\* Another task has read the box and is about to write it, and t enters.  Two
\* stores do not count: storeMtx is there to keep them apart.
NoteOverlap(t) ==
    disturbed' = IF \E s \in tasks \ {t} : /\ Holds(s, t.box)
                                           /\ "chat" \in {s.op, t.op}
                 THEN disturbed \cup {t.box} ELSE disturbed

(***************************************************************************)
(* The server process dies and is started again: tasks, locks, flags and   *)
(* connections are gone, redis stays.                                      *)
(***************************************************************************)
Restart ==
    /\ online' = {}
    /\ screen' = [u \in Users |-> <<Nobody, "menu">>]
    /\ messageQueue' = [p \in Pairs |-> <<>>]
    /\ chatStatus_' = {}
    /\ storeMtx' = None
    /\ tasks' = {}
    /\ cut' = cut \cup {b \in Boxes : \E t \in tasks : t.box = b}
    /\ UNCHANGED <<enters, sent, redis, disturbed, hurried>>

----------------------------------------------------------------------------
(***************************************************************************)
(* The MESSAGE branch of Megcycle.                                         *)
(***************************************************************************)
MessageRoute(t) ==
    /\ At(t, "message", "route")
    /\ Goto(t, IF t.box[1] \in online THEN "send" ELSE "lock")
    /\ UNCHANGED <<clients, redis, messageQueue, chatStatus_, storeMtx,
                   history>>

\* getConn again, then send: the second task goes to the other pool.
MessageSend(t) ==
    /\ At(t, "message", "send")
    /\ t.box[1] \in online
    /\ Goto(t, "status")
    /\ UNCHANGED <<clients, redis, messageQueue, chatStatus_, storeMtx,
                   history>>

\* getConn returns nullptr for a user gone meanwhile, and send is called on it.
MessageSendToNull(t) ==
    /\ At(t, "message", "send")
    /\ t.box[1] \notin online
    /\ Restart

MessageStatus(t) ==
    /\ At(t, "message", "status")
    /\ Goto(t, IF t.box \in chatStatus_ /\ Swap(t.box) \in chatStatus_
               THEN "read" ELSE "lock")
    /\ UNCHANGED <<clients, redis, messageQueue, chatStatus_, storeMtx,
                   history>>

\* storeReadMeg of the one message.
MessageRead(t) ==
    /\ At(t, "message", "read")
    /\ hist' = [hist EXCEPT ![PairOf(t.box)] = Append(@, t.m)]
    /\ Done(t)
    /\ UNCHANGED <<clients, count, offl, messageQueue, chatStatus_, storeMtx,
                   history>>

\* Mutant: storeMessages does not lock storeMtx.
StoreNoLock(t) ==
    /\ At(t, "message", "lock")
    /\ Goto(t, "count")
    /\ UNCHANGED <<clients, redis, messageQueue, chatStatus_, storeMtx,
                   history>>

\* storeMessages: under storeMtx, read the counter ...
StoreLock(t) ==
    /\ At(t, "message", "lock")
    /\ storeMtx = None
    /\ storeMtx' = t.m
    /\ Goto(t, "count")
    /\ UNCHANGED <<clients, redis, messageQueue, chatStatus_, history>>

StoreCount(t) ==
    /\ At(t, "message", "count")
    /\ Replace(t, [t EXCEPT !.step = "offl", !.n = count[t.box]])
    /\ NoteOverlap(t)
    /\ UNCHANGED <<clients, redis, messageQueue, chatStatus_, storeMtx,
                   cut, hurried>>

\* ... store the message at that index ...
StoreOffl(t) ==
    /\ At(t, "message", "offl")
    /\ offl' = [offl EXCEPT ![t.box][t.n] = t.m]
    /\ Goto(t, "incr")
    /\ UNCHANGED <<clients, count, hist, messageQueue, chatStatus_, storeMtx,
                   history>>

\* ... and write the counter back.
StoreIncr(t) ==
    /\ At(t, "message", "incr")
    /\ count' = [count EXCEPT ![t.box] = t.n + 1]
    /\ storeMtx' = None
    /\ Done(t)
    /\ UNCHANGED <<clients, offl, hist, messageQueue, chatStatus_, history>>

----------------------------------------------------------------------------
(***************************************************************************)
(* The CHAT handler: sendOfflineMeg of handleData.cc.                      *)
(***************************************************************************)

\* redisCmd::sendOfflineMeg reads the counter without storeMtx ...
ChatTake(t) ==
    /\ At(t, "chat", "take")
    /\ Replace(t, [t EXCEPT !.step = "reset", !.n = count[t.box]])
    /\ NoteOverlap(t)
    /\ UNCHANGED <<clients, redis, messageQueue, chatStatus_, storeMtx,
                   cut, hurried>>

\* Mutant: the counter is not reset.
ChatNoReset(t) ==
    /\ At(t, "chat", "reset")
    /\ Goto(t, IF t.n = 0 THEN "own" ELSE "fetch")
    /\ UNCHANGED <<clients, count, offl, hist, messageQueue, chatStatus_,
                   storeMtx, history>>

\* ... resets it with the next commit, which may be that of the next helper ...
ChatReset(t) ==
    /\ At(t, "chat", "reset")
    /\ count' = [count EXCEPT ![t.box] = 0]
    /\ Goto(t, IF t.n = 0 THEN "own" ELSE "fetch")
    /\ UNCHANGED <<clients, offl, hist, messageQueue, chatStatus_, storeMtx,
                   history>>

\* Mutant: an absent message is taken for a message.
ChatFetchUnchecked(t) ==
    /\ At(t, "chat", "fetch")
    /\ Replace(t, [t EXCEPT !.step = "push", !.m = offl[t.box][t.i]])
    /\ UNCHANGED <<clients, redis, messageQueue, chatStatus_, storeMtx,
                   history>>

\* ... reads the messages one by one (as_string of an absent one throws, and
\* the pool drops the task) ...
ChatFetch(t) ==
    /\ At(t, "chat", "fetch")
    /\ IF offl[t.box][t.i] = None
       THEN Done(t)
       ELSE Replace(t, [t EXCEPT !.step = "push", !.m = offl[t.box][t.i]])
    /\ UNCHANGED <<clients, redis, messageQueue, chatStatus_, storeMtx,
                   history>>

\* ... appends each to messageQueue and all of messageQueue to the history ...
ChatPush(t) ==
    /\ At(t, "chat", "push")
    /\ LET p == PairOf(t.box) IN
          /\ messageQueue' = [messageQueue EXCEPT ![p] = Append(@, t.m)]
          /\ hist' = [hist EXCEPT ![p] = @ \o messageQueue'[p]]
    /\ Goto(t, "hdel")
    /\ UNCHANGED <<clients, count, offl, chatStatus_, storeMtx, history>>

\* ... and deletes it.
ChatHdel(t) ==
    /\ At(t, "chat", "hdel")
    /\ offl' = [offl EXCEPT ![t.box][t.i] = None]
    /\ Replace(t, [t EXCEPT !.i = t.i + 1, !.m = None,
                            !.step = IF t.i + 1 = t.n THEN "own" ELSE "fetch"])
    /\ UNCHANGED <<clients, count, hist, messageQueue, chatStatus_, storeMtx,
                   history>>

\* sendHisOffineMeg counts what the peer has not read yet ...
ChatOwn(t) ==
    /\ At(t, "chat", "own")
    /\ LET n == count[Swap(t.box)] IN
          Replace(t, [t EXCEPT !.n = n, !.i = 0,
                               !.step = IF n = 0 THEN "reply" ELSE "ownread"])
    /\ UNCHANGED <<clients, redis, messageQueue, chatStatus_, storeMtx,
                   history>>

\* ... and reads it one by one; it throws likewise.
ChatOwnRead(t) ==
    /\ At(t, "chat", "ownread")
    /\ IF offl[Swap(t.box)][t.i] = None
       THEN Done(t)
       ELSE Replace(t, [t EXCEPT !.i = t.i + 1,
                    !.step = IF t.i + 1 = t.n THEN "reply" ELSE "ownread"])
    /\ UNCHANGED <<clients, redis, messageQueue, chatStatus_, storeMtx,
                   history>>

\* UCHAT goes to the connection that asked, if it is still there ...
ChatReply(t) ==
    /\ At(t, "chat", "reply")
    /\ IF t.box[1] \in online /\ screen[t.box[1]] = <<t.box[2], "enters">>
          /\ t.id + 1 = enters[t.box[1]]
       THEN screen' = [screen EXCEPT ![t.box[1]] = <<t.box[2], "chat">>]
       ELSE UNCHANGED screen
    /\ Goto(t, "flag")
    /\ UNCHANGED <<online, enters, sent, redis, messageQueue, chatStatus_,
                   storeMtx, history>>

\* ... and only then chatStatus_ is set.
ChatFlag(t) ==
    /\ At(t, "chat", "flag")
    /\ chatStatus_' = chatStatus_ \cup {t.box}
    /\ Done(t)
    /\ UNCHANGED <<clients, redis, messageQueue, storeMtx, history>>

\* Mutant: the flag is left set.
EndChatKeepsFlag(t) ==
    /\ t.op = "endchat"
    /\ Done(t)
    /\ UNCHANGED <<clients, redis, messageQueue, chatStatus_, storeMtx,
                   history>>

endChat(t) ==
    /\ t.op = "endchat"
    /\ chatStatus_' = chatStatus_ \ {t.box}
    /\ Done(t)
    /\ UNCHANGED <<clients, redis, messageQueue, storeMtx, history>>

----------------------------------------------------------------------------
ClientStep(u) ==
    \/ \E v \in Users : Enter(u, v)
    \/ \E m \in Messages : Say(u, m)
    \/ Leave(u) \/ Drop(u) \/ Return(u)

TaskStep(t) ==
    \/ MessageRoute(t) \/ MessageSend(t) \/ MessageSendToNull(t)
    \/ MessageStatus(t) \/ MessageRead(t)
    \/ StoreLock(t) \/ StoreCount(t) \/ StoreOffl(t) \/ StoreIncr(t)
    \/ ChatTake(t) \/ ChatReset(t) \/ ChatFetch(t) \/ ChatPush(t)
    \/ ChatHdel(t) \/ ChatOwn(t) \/ ChatOwnRead(t) \/ ChatReply(t)
    \/ ChatFlag(t) \/ endChat(t)

Next ==
    \/ \E u \in Users : ClientStep(u)
    \/ \E t \in tasks : TaskStep(t)
    \/ Restart

Spec == Init /\ [][Next]_vars

----------------------------------------------------------------------------
Settled(b) == \A t \in tasks : t.box # b
InHistory(b, m) == \E i \in DOMAIN hist[PairOf(b)] : hist[PairOf(b)][i] = m
IsUnread(b, m) == \E i \in Indices : i < count[b] /\ offl[b][i] = m

\* A message that was sent is in the history, or unread at an index below the
\* counter, where the next CHAT finds it, as soon as its box is at rest: as
\* long as no two tasks changed the box at once and no restart cut one off.
\* Stores from any number of tasks do not disturb each other.
KeptUnlessDisturbed ==
    \A s \in sent :
        LET b == <<s[2], s[1]>> IN
            Settled(b) /\ b \notin disturbed \cup cut =>
                InHistory(b, s[3]) \/ IsUnread(b, s[3])

\* Under the same condition the counter is the number of unread messages: the
\* indices below it, and no others, hold one.
CounterCountsUnread ==
    \A b \in Boxes : Settled(b) /\ b \notin disturbed \cup cut =>
        \A i \in Indices : offl[b][i] # None <=> i < count[b]

\* Whatever is in the history was sent by one user of the pair to the other,
\* through any indices being overwritten or read twice.
HistoryIsOfThePair ==
    \A p \in Pairs : \A i \in DOMAIN hist[p] :
        \E s \in sent : {s[1], s[2]} = p /\ s[3] = hist[p][i]

\* chatStatus_ tells whose chat is open, once the requests of that chat are
\* served, unless they overlapped or the user dropped out of the chat.
FlagMatchesScreen ==
    \A b \in Boxes : Settled(b) /\ b \notin hurried =>
        (b \in chatStatus_ <=> screen[b[1]] = <<b[2], "chat">>)

----------------------------------------------------------------------------
\* README.md:17: messages to an absent user are stored.  A message is kept
\* as long as the server is not restarted.
OfflineKept ==
    \A s \in sent :
        LET b == <<s[2], s[1]>> IN
            Settled(b) /\ b \notin cut =>
                InHistory(b, s[3]) \/ IsUnread(b, s[3])
=============================================================================
