------------------------------- MODULE Group -------------------------------
(***************************************************************************)
(* One group: its members and their ranks, requests to join, invitations,  *)
(* and its messages.  The CREATEGROUP, DELGROUP, ADD, VERIFY, CMD, GCHAT,  *)
(* GMESSAGE and ENDCHAT handlers of handleData.cc with the redis operations*)
(* they call; an action ends where a redis commit or a critical section    *)
(* ends.  Handlers for different groups share no redis field.              *)
(*                                                                         *)
(* A membership is two records: the rank, a field of "grop:<group>", and   *)
(* the unread counter, a field of "mygp:<user>".  Reading the history      *)
(* writes the second for whoever asks, a member or not; the variable       *)
(* ghosts is for those it does so for wrongly.  All users are friends:     *)
(* Registry is about those that are not.                                   *)
(***************************************************************************)
EXTENDS Naturals, FiniteSets

CONSTANTS
    Users,        \* registered users
    None,         \* an absent field; nobody
    MaxRequests,  \* bound: the requests of each user
    MaxWords,     \* bound: the messages of each user
    MaxTasks,     \* bound: the pool tasks at any moment
    MaxFaults     \* bound: users gone, and server restarts

Ranks == {"owner", "admin", "member"}

\* A task of the pool: the request it handles and how far it is, with what it
\* has read.
Task == [op : {"ask", "invite", "agree", "refuse", "accept", "decline",
               "create", "leave", "leave2", "del", "upl", "dnl", "chat",
               "history", "endchat", "message"},
         u : Users, v : Users \cup {None}, id : Nat,
         step : {"begin", "own", "other", "mine", "theirs", "push", "my",
                 "grop", "lrem", "rank", "rank1", "rank2", "rank3", "quit",
                 "members", "drop", "target", "write", "fetch", "reset",
                 "flag", "store", "each", "incr"},
         rank : Ranks \cup {None}, todo : SUBSET Users, n : Nat]

ASSUME ConstantsAssumption ==
    /\ IsFiniteSet(Users)
    /\ None \notin Users \cup Nat \cup Ranks
    /\ None \notin Task
    /\ MaxRequests \in [Users -> Nat]
    /\ MaxWords \in [Users -> Nat]
    /\ MaxTasks \in Nat \ {0}
    /\ MaxFaults \in Nat

VARIABLES
    grop,        \* redis: rank of each user in "grop:<group>", or None
    mygp,        \* redis: unread counter in "mygp:<user>", or None
    ghosts,      \* history: users whose counter is there because they read
                 \* the history when they were no members
    asks,        \* redis: users with a request in "mess:grop:<group>"
    invites,     \* redis: <<u, v>>: "mess:user:<u>" holds v's invitation
    regp,        \* redis: the number of messages in the history of the group
    chatStatus_, \* handleData.cc: users that have the group's chat open
    storeMtx2,   \* the task that holds storeMtx2, or None
    online,      \* users that ConnectionManager routes to
    screen,      \* each client: "menu", "wait", "confirm", "chat", "command"
                 \* (a command in the chat is not answered yet) or "stuck"
    requests,    \* requests each client has sent
    words,       \* messages each client has sent
    faults,      \* users gone and restarts
    tasks,       \* pool tasks
    unseen,      \* history: messages stored while the member was not in the
                 \* chat, since its last visit
    disturbed,   \* history: two tasks changed the members at once, or a
                 \* restart cut a task off
    outOfDate,   \* history: an answer or a command came when the group was
                 \* dissolved, its sender out of it, or its target the owner
    uncounted    \* history: users whose visits or leaving overlapped the
                 \* counting of a message

vars == <<grop, mygp, ghosts, asks, invites, regp, chatStatus_, storeMtx2, online,
          screen, requests, words, faults, tasks, unseen, disturbed,
          outOfDate, uncounted>>
membership == <<grop, mygp, ghosts>>
pending == <<asks, invites>>
clients == <<online, screen, requests, words, faults>>
history == <<disturbed, outOfDate, uncounted>>

Members == {u \in Users : grop[u] # None}
isgroup == Members # {}

\* tool::compareLevel: the shorter word outranks the longer one, of two words
\* of the same length the later one in the alphabet.  getData gives "null"
\* for who is no member.
Strength == [r \in Ranks \cup {None} |->
                CASE r = None -> 4 [] r = "owner" -> 3
                  [] r = "admin" -> 2 [] r = "member" -> 1]
compareLevel(a, b) == Strength[a] > Strength[b]

\* No group, or any group that has an owner; all messages read.
Init ==
    /\ grop \in {f \in [Users -> Ranks \cup {None}] :
                    \/ \A u \in Users : f[u] = None
                    \/ Cardinality({u \in Users : f[u] = "owner"}) = 1}
    /\ mygp = [u \in Users |-> IF grop[u] = None THEN None ELSE 0]
    /\ ghosts = {}
    /\ asks = {} /\ invites = {}
    /\ regp = 0
    /\ chatStatus_ = {}
    /\ storeMtx2 = None
    /\ online = Users
    /\ screen = [u \in Users |-> "menu"]
    /\ requests = [u \in Users |-> 0]
    /\ words = [u \in Users |-> 0]
    /\ faults = 0
    /\ tasks = {}
    /\ unseen = [u \in Users |-> 0]
    /\ disturbed = FALSE /\ outOfDate = FALSE
    /\ uncounted = {}

----------------------------------------------------------------------------
(***************************************************************************)
(* Clients.                                                                *)
(***************************************************************************)
NewTask(u, op, v) == [op |-> op, u |-> u, v |-> v, id |-> requests[u],
                      step |-> "begin", rank |-> None, todo |-> {}, n |-> 0]

Request(u, op, v, from, to) ==
    /\ u \in online
    /\ screen[u] = from
    /\ requests[u] < MaxRequests[u]
    /\ Cardinality(tasks) < MaxTasks
    /\ requests' = [requests EXCEPT ![u] = @ + 1]
    /\ screen' = [screen EXCEPT ![u] = to]
    /\ tasks' = tasks \cup {NewTask(u, op, v)}
    /\ UNCHANGED <<membership, pending, regp, chatStatus_, storeMtx2, online,
                   words, faults, unseen, history>>

\* Asks for a group, or invites a friend, and waits.
joinGroup(u) ==
    \/ Request(u, "ask", None, "menu", "wait")
    \/ \E v \in Users \ {u} : Request(u, "invite", v, "menu", "wait")

\* Answers a request to join, or an invitation, and waits.
handleCmd(u) ==
    \/ \E v \in Users \ {u} : \E op \in {"agree", "refuse"} :
          Request(u, op, v, "menu", "wait")
    \/ \E op \in {"accept", "decline"} : Request(u, op, None, "menu", "wait")

\* Creates a group with a friend or alone, and does not wait; asks to leave,
\* and waits for a warning.
managerGroup(u) ==
    \/ \E v \in (Users \cup {None}) \ {u} : Request(u, "create", v, "menu", "menu")
    \/ Request(u, "leave", None, "menu", "wait")

\* Having seen the warning the client sends DELGROUP again, or gives up.
Confirm(u) ==
    /\ screen[u] = "confirm"
    /\ \/ Request(u, "leave2", None, "confirm", "menu")
       \/ /\ screen' = [screen EXCEPT ![u] = "menu"]
          /\ UNCHANGED <<membership, pending, regp, chatStatus_, storeMtx2,
                         online, requests, words, faults, tasks, unseen, history>>

EnterChat(u) == Request(u, "chat", None, "menu", "wait")

\* In the chat a command, or /h for the history, waits for its answer; /quit
\* does not.
myGroup(u) ==
    \/ \E v \in Users : \E op \in {"del", "upl", "dnl"} :
          Request(u, op, v, "chat", "command")
    \/ Request(u, "history", None, "chat", "command")
    \/ Request(u, "endchat", None, "chat", "menu")

Say(u) ==
    /\ u \in online
    /\ screen[u] = "chat"
    /\ words[u] < MaxWords[u]
    /\ Cardinality(tasks) < MaxTasks
    /\ words' = [words EXCEPT ![u] = @ + 1]
    /\ tasks' = tasks \cup {[NewTask(u, "message", None) EXCEPT !.id = words[u]]}
    /\ UNCHANGED <<membership, pending, regp, chatStatus_, storeMtx2, online,
                   screen, requests, faults, unseen, history>>

\* A client is gone: its route is taken out, its flag stays.
Drop(u) ==
    /\ u \in online
    /\ faults < MaxFaults
    /\ faults' = faults + 1
    /\ online' = online \ {u}
    /\ screen' = [screen EXCEPT ![u] = "menu"]
    /\ uncounted' = IF u \in chatStatus_ \/ screen[u] = "wait"
                    THEN uncounted \cup {u} ELSE uncounted
    /\ UNCHANGED <<membership, pending, regp, chatStatus_, storeMtx2,
                   requests, words, tasks, unseen, disturbed, outOfDate>>

Return(u) ==
    /\ u \notin online
    /\ online' = online \cup {u}
    /\ UNCHANGED <<membership, pending, regp, chatStatus_, storeMtx2, screen,
                   requests, words, faults, tasks, unseen, history>>

----------------------------------------------------------------------------
At(t, ops, step) == t.op \in ops /\ t.step = step
Replace(t, r) == tasks' = (tasks \ {t}) \cup {r}
Goto(t, step) == Replace(t, [t EXCEPT !.step = step])
Done(t) == tasks' = tasks \ {t}
Beside(t) == {s \in tasks \ {t} : s.step # "begin"}

Joining == {"create", "agree", "accept"}
Leaving == {"leave", "leave2", "del"}
Ranking == {"upl", "dnl"}
Counting == {"chat", "message"}

\* The users whose membership or visits a task changes.
Target(t) == IF t.op \in {"agree", "refuse", "del", "upl", "dnl"} THEN t.v
             ELSE t.u
Touched(t) == IF t.op = "create" THEN {t.u, t.v}
              ELSE IF t.op \in Joining \cup Leaving
                                 \cup {"chat", "history", "endchat"}
              THEN {Target(t)} ELSE {}

\* What t does now overlaps another task.
Note(t) ==
    /\ disturbed' = \/ disturbed
                    \/ \E s \in Beside(t) : \E a \in {s.op, t.op} :
                          \/ /\ a \in Leaving
                             /\ {s.op, t.op} \ Leaving # {}
                             /\ {s.op, t.op} \subseteq
                                    Leaving \cup Joining \cup Ranking \cup Counting
                          \/ /\ a = "create" \/ {s.op, t.op} \cap Ranking # {}
                             /\ a \in Joining
                             /\ {s.op, t.op} \subseteq Joining \cup Ranking
    /\ uncounted' = uncounted \cup
          UNION {Touched(s) \cup Touched(t) :
                    s \in {r \in Beside(t) : "message" \in {r.op, t.op}}}

\* The answer brings a client that waits for it to the next screen.
Answer(t, to) ==
    /\ Done(t)
    /\ screen' = IF /\ t.u \in online /\ screen[t.u] \in {"wait", "command"}
                    /\ requests[t.u] = t.id + 1
                 THEN [screen EXCEPT ![t.u] = to] ELSE screen
    /\ UNCHANGED <<online, requests, words, faults>>
GoOn(t, step) == Goto(t, step) /\ UNCHANGED clients
End(t) == Done(t) /\ UNCHANGED clients

Join(u, rank) ==
    /\ grop' = [grop EXCEPT ![u] = rank]
    /\ mygp' = [mygp EXCEPT ![u] = 0]
    /\ unseen' = [unseen EXCEPT ![u] = 0]
    /\ ghosts' = ghosts \ {u}
Part(users) ==
    /\ grop' = [u \in Users |-> IF u \in users THEN None ELSE grop[u]]
    /\ mygp' = [u \in Users |-> IF u \in users THEN None ELSE mygp[u]]
    /\ ghosts' = ghosts \ users

----------------------------------------------------------------------------
(***************************************************************************)
(* CREATEGROUP: handleData::createGroup, redisCmd::createGroup.            *)
(***************************************************************************)
CreateCheck(t) ==
    /\ At(t, {"create"}, "begin")
    /\ IF isgroup THEN End(t) ELSE GoOn(t, "own")
    /\ Note(t)
    /\ UNCHANGED <<membership, pending, regp, chatStatus_, storeMtx2, unseen,
                   outOfDate>>

\* joinGroup writes both records of a member with one commit.
CreateJoin(t) ==
    /\ \/ /\ At(t, {"create"}, "own")
          /\ Join(t.u, "owner")
          /\ IF t.v = None THEN End(t) ELSE GoOn(t, "other")
       \/ At(t, {"create"}, "other") /\ Join(t.v, "member") /\ End(t)
    /\ Note(t)
    /\ UNCHANGED <<pending, regp, chatStatus_, storeMtx2, outOfDate>>

(***************************************************************************)
(* ADD for "mygp:" (a request to join) and "grop:" (an invitation).        *)
(***************************************************************************)
AddIsGroup(t) ==
    /\ At(t, {"ask", "invite"}, "begin")
    /\ IF isgroup THEN GoOn(t, "mine") ELSE Answer(t, "menu")
    /\ Note(t)
    /\ UNCHANGED <<membership, pending, regp, chatStatus_, storeMtx2, unseen,
                   outOfDate>>

\* ismygroup reads the user's record: who asks must not, who invites must be
\* a member, and the friend must not.
AddMine(t) ==
    /\ \/ /\ At(t, {"ask"}, "mine")
          /\ IF mygp[t.u] = None THEN GoOn(t, "push") ELSE Answer(t, "menu")
       \/ /\ At(t, {"invite"}, "mine")
          /\ IF mygp[t.u] # None THEN GoOn(t, "theirs") ELSE Answer(t, "menu")
       \/ /\ At(t, {"invite"}, "theirs")
          /\ IF mygp[t.v] = None THEN GoOn(t, "push") ELSE Answer(t, "menu")
    /\ Note(t)
    /\ UNCHANGED <<membership, pending, regp, chatStatus_, storeMtx2, unseen,
                   outOfDate>>

\* Mutant: no answer.
AddPushSilent(t) ==
    /\ At(t, {"ask", "invite"}, "push")
    /\ IF t.op = "ask" THEN asks' = asks \cup {t.u} /\ UNCHANGED invites
       ELSE invites' = invites \cup {<<t.v, t.u>>} /\ UNCHANGED asks
    /\ End(t)
    /\ Note(t)
    /\ UNCHANGED <<membership, regp, chatStatus_, storeMtx2, unseen, outOfDate>>

AddPush(t) ==
    /\ At(t, {"ask", "invite"}, "push")
    /\ IF t.op = "ask" THEN asks' = asks \cup {t.u} /\ UNCHANGED invites
       ELSE invites' = invites \cup {<<t.v, t.u>>} /\ UNCHANGED asks
    /\ Answer(t, "menu")
    /\ Note(t)
    /\ UNCHANGED <<membership, regp, chatStatus_, storeMtx2, unseen, outOfDate>>

(***************************************************************************)
(* VERIFY: redisCmd::verifyUser for "addgroup" and "invitation".  Whether  *)
(* the group still exists, and who answers, is not tested.                 *)
(***************************************************************************)
VerifyFind(t) ==
    /\ \/ /\ At(t, {"agree", "refuse"}, "begin")
          /\ IF t.v \in asks
             THEN GoOn(t, IF t.op = "agree" THEN "my" ELSE "lrem")
             ELSE Answer(t, "menu")
       \/ /\ At(t, {"accept", "decline"}, "begin")
          /\ \/ \E v \in Users :
                   /\ <<t.u, v>> \in invites
                   /\ Replace(t, [t EXCEPT !.v = v, !.step =
                          IF t.op = "accept" THEN "my" ELSE "lrem"])
                   /\ UNCHANGED clients
             \/ (\A v \in Users : <<t.u, v>> \notin invites) /\ Answer(t, "menu")
    /\ Note(t)
    /\ UNCHANGED <<membership, pending, regp, chatStatus_, storeMtx2, unseen,
                   outOfDate>>

VerifyMy(t) ==
    /\ At(t, {"agree", "accept"}, "my")
    /\ mygp' = [mygp EXCEPT ![Target(t)] = 0]
    /\ unseen' = [unseen EXCEPT ![Target(t)] = 0]
    /\ GoOn(t, "grop")
    /\ Note(t)
    /\ UNCHANGED <<grop, ghosts, pending, regp, chatStatus_, storeMtx2,
                   outOfDate>>

VerifyGrop(t) ==
    /\ At(t, {"agree", "accept"}, "grop")
    /\ grop' = [grop EXCEPT ![Target(t)] = "member"]
    /\ ghosts' = ghosts \ {Target(t)}
    /\ outOfDate' = (outOfDate \/ ~isgroup \/ grop[Target(t)] = "owner")
    /\ GoOn(t, "lrem")
    /\ Note(t)
    /\ UNCHANGED <<mygp, pending, regp, chatStatus_, storeMtx2, unseen>>

VerifyLrem(t) ==
    /\ At(t, {"agree", "refuse", "accept", "decline"}, "lrem")
    /\ IF t.op \in {"agree", "refuse"}
       THEN asks' = asks \ {t.v} /\ UNCHANGED invites
       ELSE invites' = invites \ {<<t.u, t.v>>} /\ UNCHANGED asks
    /\ Answer(t, "menu")
    /\ Note(t)
    /\ UNCHANGED <<membership, regp, chatStatus_, storeMtx2, unseen, outOfDate>>

(***************************************************************************)
(* DELGROUP: handleData::deleteGroup, redisCmd::delPerson.  The client     *)
(* waits for URETURN, but a group that is not there, or not its own, is    *)
(* answered with UWAIT.                                                    *)
(***************************************************************************)
LeaveCheck(t) ==
    /\ \/ /\ At(t, {"leave", "leave2"}, "begin")
          /\ IF isgroup THEN GoOn(t, "mine") ELSE Answer(t, "stuck")
       \/ /\ At(t, {"leave", "leave2"}, "mine")
          /\ IF grop[t.u] # None THEN GoOn(t, "rank") ELSE Answer(t, "stuck")
    /\ Note(t)
    /\ UNCHANGED <<membership, pending, regp, chatStatus_, storeMtx2, unseen,
                   outOfDate>>

\* The rank is read again for every test of it: "member", "admin" and twice
\* "owner".
LeaveRank(t) ==
    /\ \/ /\ At(t, {"leave", "leave2"}, "rank")
          /\ IF grop[t.u] # "member" THEN GoOn(t, "rank1")
             ELSE IF t.op = "leave" THEN Answer(t, "confirm")
             ELSE GoOn(t, "rank2")
       \/ /\ At(t, {"leave", "leave2"}, "rank1")
          /\ IF grop[t.u] = "admin" /\ t.op = "leave"
             THEN Answer(t, "confirm") ELSE GoOn(t, "rank2")
       \/ /\ At(t, {"leave", "leave2"}, "rank2")
          /\ IF grop[t.u] = "owner" /\ t.op = "leave"
             THEN Answer(t, "confirm") ELSE GoOn(t, "rank3")
       \/ /\ At(t, {"leave", "leave2"}, "rank3")
          /\ GoOn(t, IF grop[t.u] = "owner" /\ t.op = "leave2"
                     THEN "members" ELSE "quit")
    /\ Note(t)
    /\ UNCHANGED <<membership, pending, regp, chatStatus_, storeMtx2, unseen,
                   outOfDate>>

LeaveQuit(t) ==
    /\ At(t, {"leave", "leave2"}, "quit")
    /\ Part({t.u})
    /\ Answer(t, "menu")
    /\ Note(t)
    /\ UNCHANGED <<pending, regp, chatStatus_, storeMtx2, unseen, outOfDate>>

LeaveMembers(t) ==
    /\ At(t, {"leave2"}, "members")
    /\ Replace(t, [t EXCEPT !.step = "drop", !.todo = Members])
    /\ Note(t)
    /\ UNCHANGED <<membership, pending, regp, chatStatus_, storeMtx2, clients,
                   unseen, outOfDate>>

\* Mutant: the members keep the group among theirs.
LeaveDropGrop(t) ==
    /\ At(t, {"leave2"}, "drop")
    /\ grop' = [u \in Users |-> None]
    /\ regp' = 0
    /\ End(t)
    /\ Note(t)
    /\ UNCHANGED <<mygp, ghosts, pending, chatStatus_, storeMtx2, unseen, outOfDate>>

\* All records of the members that were read, and the group, go at once.
LeaveDrop(t) ==
    /\ At(t, {"leave2"}, "drop")
    /\ grop' = [u \in Users |-> None]
    /\ mygp' = [u \in Users |-> IF u \in t.todo THEN None ELSE mygp[u]]
    /\ ghosts' = ghosts \ t.todo
    /\ regp' = 0
    /\ End(t)
    /\ Note(t)
    /\ UNCHANGED <<pending, chatStatus_, storeMtx2, unseen, outOfDate>>

(***************************************************************************)
(* CMD: handleData::handleCmd; /del, /uplevel and /downlevel in the chat.  *)
(***************************************************************************)
CmdRank(t) ==
    /\ At(t, {"del", "upl", "dnl"}, "begin")
    /\ Replace(t, [t EXCEPT !.step = "target", !.rank = grop[t.u]])
    /\ Note(t)
    /\ UNCHANGED <<membership, pending, regp, chatStatus_, storeMtx2, clients,
                   unseen, outOfDate>>

\* Mutant: any member may do it.
CmdTargetAny(t) ==
    /\ At(t, {"del", "upl", "dnl"}, "target")
    /\ IF grop[t.v] # None THEN GoOn(t, "write") ELSE Answer(t, "chat")
    /\ Note(t)
    /\ UNCHANGED <<membership, pending, regp, chatStatus_, storeMtx2, unseen,
                   outOfDate>>

CmdTarget(t) ==
    /\ At(t, {"del", "upl", "dnl"}, "target")
    /\ IF /\ grop[t.v] # None
          /\ compareLevel(t.rank, grop[t.v])
          /\ t.op # "del" => t.rank = "owner"
       THEN GoOn(t, "write") ELSE Answer(t, "chat")
    /\ Note(t)
    /\ UNCHANGED <<membership, pending, regp, chatStatus_, storeMtx2, unseen,
                   outOfDate>>

\* A promotion writes the rank whether or not there is one.
CmdWrite(t) ==
    /\ At(t, {"del", "upl", "dnl"}, "write")
    /\ IF t.op = "del" THEN Part({t.v})
       ELSE /\ grop' = [grop EXCEPT ![t.v] =
                           IF t.op = "upl" THEN "admin" ELSE "member"]
            /\ UNCHANGED <<mygp, ghosts>>
    /\ outOfDate' = (outOfDate \/ t.rank = None)
    /\ Answer(t, "chat")
    /\ Note(t)
    /\ UNCHANGED <<pending, regp, chatStatus_, storeMtx2, unseen>>

----------------------------------------------------------------------------
(***************************************************************************)
(* GCHAT, redisCmd::getGroupMeg: the history is read, then the counter is  *)
(* reset; ENDCHAT.                                                         *)
(***************************************************************************)
ChatCheck(t) ==
    /\ \/ /\ At(t, {"chat"}, "begin")
          /\ IF mygp[t.u] # None THEN GoOn(t, "fetch") ELSE Answer(t, "menu")
       \/ At(t, {"chat"}, "fetch") /\ GoOn(t, "reset")
    /\ Note(t)
    /\ UNCHANGED <<membership, pending, regp, chatStatus_, storeMtx2, unseen,
                   outOfDate>>

ChatReset(t) ==
    /\ At(t, {"chat"}, "reset")
    /\ mygp' = [mygp EXCEPT ![t.u] = 0]
    /\ unseen' = [unseen EXCEPT ![t.u] = 0]
    /\ GoOn(t, "flag")
    /\ Note(t)
    /\ UNCHANGED <<grop, ghosts, pending, regp, chatStatus_, storeMtx2,
                   outOfDate>>

ChatFlag(t) ==
    /\ At(t, {"chat"}, "flag")
    /\ chatStatus_' = chatStatus_ \cup {t.u}
    /\ Answer(t, "chat")
    /\ Note(t)
    /\ UNCHANGED <<membership, pending, regp, storeMtx2, unseen, outOfDate>>

\* seeHistory: getGroupMeg again, for a user that need not be a member.
seeHistory(t) ==
    /\ \/ /\ At(t, {"history"}, "begin")
          /\ GoOn(t, "reset")
          /\ UNCHANGED <<mygp, unseen, ghosts>>
       \/ /\ At(t, {"history"}, "reset")
          /\ mygp' = [mygp EXCEPT ![t.u] = 0]
          /\ unseen' = [unseen EXCEPT ![t.u] = 0]
          /\ ghosts' = IF grop[t.u] = None THEN ghosts \cup {t.u} ELSE ghosts
          /\ Answer(t, "chat")
    /\ Note(t)
    /\ UNCHANGED <<grop, pending, regp, chatStatus_, storeMtx2, outOfDate>>

endChat(t) ==
    /\ At(t, {"endchat"}, "begin")
    /\ chatStatus_' = chatStatus_ \ {t.u}
    /\ End(t)
    /\ Note(t)
    /\ UNCHANGED <<membership, pending, regp, storeMtx2, unseen, outOfDate>>

(***************************************************************************)
(* GMESSAGE: handleData::handlegMessage.                                   *)
(***************************************************************************)
\* Who is no member is told so, with a state that ends a command's wait.
MessageCheck(t) ==
    /\ At(t, {"message"}, "begin")
    /\ IF grop[t.u] # None THEN GoOn(t, "store")
       ELSE /\ Done(t)
            /\ screen' = IF t.u \in online /\ screen[t.u] = "command"
                         THEN [screen EXCEPT ![t.u] = "chat"] ELSE screen
            /\ UNCHANGED <<online, requests, words, faults>>
    /\ Note(t)
    /\ UNCHANGED <<membership, pending, regp, chatStatus_, storeMtx2, unseen,
                   outOfDate>>

MessageStore(t) ==
    /\ \/ /\ At(t, {"message"}, "store")
          /\ regp' = regp + 1
          /\ GoOn(t, "members")
          /\ UNCHANGED unseen
       \/ /\ At(t, {"message"}, "members")
          /\ Replace(t, [t EXCEPT !.step = "each", !.todo = Members \ {t.u}])
          /\ unseen' = [u \in Users |->
                  IF u \in Members \ ({t.u} \cup chatStatus_)
                  THEN unseen[u] + 1 ELSE unseen[u]]
          /\ UNCHANGED <<regp, clients>>
    /\ Note(t)
    /\ UNCHANGED <<membership, pending, chatStatus_, storeMtx2, outOfDate>>

\* Without a route getConn gives a null pointer and the server crashes.
MessageSend(t) ==
    /\ At(t, {"message"}, "each")
    /\ \E w \in t.todo \cap chatStatus_ \cap online :
          Replace(t, [t EXCEPT !.todo = @ \ {w}])
    /\ Note(t)
    /\ UNCHANGED <<membership, pending, regp, chatStatus_, storeMtx2, clients,
                   unseen, outOfDate>>

\* Mutant: the counter is read without the lock.
MessageCountUnlocked(t) ==
    /\ At(t, {"message"}, "each")
    /\ \E w \in t.todo \ chatStatus_ :
          /\ mygp[w] # None
          /\ Replace(t, [t EXCEPT !.step = "incr", !.v = w, !.n = mygp[w]])
    /\ Note(t)
    /\ UNCHANGED <<membership, pending, regp, chatStatus_, storeMtx2, clients,
                   unseen, outOfDate>>

\* std::stoi throws for who has no counter: the rest is not counted.
MessageCount(t) ==
    /\ At(t, {"message"}, "each")
    /\ storeMtx2 = None
    /\ \E w \in t.todo \ chatStatus_ :
          IF mygp[w] # None
          THEN LET r == [t EXCEPT !.step = "incr", !.v = w, !.n = mygp[w]]
               IN /\ Replace(t, r)
                  /\ storeMtx2' = r
                  /\ Note(t)
          ELSE /\ Done(t)
               /\ uncounted' = uncounted \cup t.todo
               /\ UNCHANGED <<storeMtx2, disturbed>>
    /\ UNCHANGED <<membership, pending, regp, chatStatus_, clients, unseen,
                   outOfDate>>

MessageIncr(t) ==
    /\ At(t, {"message"}, "incr")
    /\ mygp' = [mygp EXCEPT ![t.v] = t.n + 1]
    /\ storeMtx2' = None
    /\ Replace(t, [t EXCEPT !.step = "each", !.todo = @ \ {t.v}])
    /\ Note(t)
    /\ UNCHANGED <<grop, ghosts, pending, regp, chatStatus_, clients, unseen,
                   outOfDate>>

MessageEnd(t) ==
    /\ At(t, {"message"}, "each")
    /\ t.todo = {}
    /\ End(t)
    /\ Note(t)
    /\ UNCHANGED <<membership, pending, regp, chatStatus_, storeMtx2, unseen,
                   outOfDate>>

----------------------------------------------------------------------------
\* The server starts again with what redis holds, and without clients.
ServerDies ==
    /\ online' = {}
    /\ screen' = [u \in Users |-> "menu"]
    /\ chatStatus_' = {}
    /\ storeMtx2' = None
    /\ tasks' = {}
    /\ disturbed' = (disturbed \/ tasks # {})
    /\ uncounted' = IF tasks # {} THEN Users ELSE uncounted
    /\ UNCHANGED <<membership, pending, regp, requests, words, unseen, outOfDate>>

Restart == faults < MaxFaults /\ faults' = faults + 1 /\ ServerDies

MessageCrash(t) ==
    /\ At(t, {"message"}, "each")
    /\ (t.todo \cap chatStatus_) \ online # {}
    /\ ServerDies
    /\ UNCHANGED faults

ClientStep(u) ==
    \/ joinGroup(u) \/ handleCmd(u) \/ managerGroup(u) \/ Confirm(u)
    \/ EnterChat(u) \/ myGroup(u) \/ Say(u) \/ Drop(u) \/ Return(u)
TaskStep(t) ==
    \/ CreateCheck(t) \/ CreateJoin(t) \/ AddIsGroup(t) \/ AddMine(t)
    \/ AddPush(t) \/ VerifyFind(t) \/ VerifyMy(t) \/ VerifyGrop(t)
    \/ VerifyLrem(t) \/ LeaveCheck(t) \/ LeaveRank(t) \/ LeaveQuit(t)
    \/ LeaveMembers(t) \/ LeaveDrop(t) \/ CmdRank(t) \/ CmdTarget(t)
    \/ CmdWrite(t) \/ ChatCheck(t) \/ ChatReset(t) \/ ChatFlag(t)
    \/ seeHistory(t) \/ endChat(t) \/ MessageCheck(t) \/ MessageStore(t)
    \/ MessageSend(t) \/ MessageCount(t) \/ MessageIncr(t) \/ MessageEnd(t)
    \/ MessageCrash(t)
Next ==
    \/ \E u \in Users : ClientStep(u)
    \/ \E t \in tasks : TaskStep(t)
    \/ Restart

Spec == Init /\ [][Next]_vars

----------------------------------------------------------------------------
Rest == tasks = {} /\ ~disturbed

\* At rest who is in the table of the group has it in the table of his own
\* groups, and the other way round, but for who has read the history as no
\* member: createGroup, verifyUser, delPerson and delmember each change both,
\* for one member or for all, and getGroupMeg only the second.
MembershipAgrees ==
    Rest => \A u \in Users : /\ grop[u] # None => mygp[u] # None
                             /\ mygp[u] # None => grop[u] # None \/ u \in ghosts

\* At rest a group that has members has one owner: createGroup makes one, the
\* owner leaves by dissolving (deleteGroup) and compareLevel lets nobody take
\* the owner out or give him another rank.
GroupHasOwner ==
    Rest /\ ~outOfDate /\ Members # {} =>
        Cardinality({u \in Users : grop[u] = "owner"}) = 1

\* At rest the unread counter of a member is the number of messages that
\* handlegMessage stored while he was out of the chat, since he last read
\* them: it counts each once, and gChat resets it.
CounterCountsUnseen ==
    Rest => \A u \in Users \ uncounted : mygp[u] # None => mygp[u] = unseen[u]

\* A client waits only while the task of its last request is at work: no
\* handler is done with a request, on whatever branch and whatever the others
\* have changed meanwhile, before it has answered.  Redis answers and the pool
\* runs each task to its end, so the wait ends too.
WaitIsServed ==
    \A u \in Users : screen[u] \in {"wait", "command"} =>
        \E t \in tasks : t.u = u /\ t.id + 1 = requests[u] /\ t.op # "message"

============================================================================
