------------------------------ MODULE Session ------------------------------
(***************************************************************************)
(* Accounts and login sessions of the chat server: what register, login,   *)
(* ship (online/offline) and delete do, run by the 28 workers of the pool  *)
(* of server/server.cc, against the disconnect callback that an IO thread  *)
(* runs, over one redis hash per account and the two maps of               *)
(* ConnectionManager.                                                      *)
(*                                                                         *)
(* Every message of a connection becomes its own pool task, so the tasks   *)
(* of one connection interleave and overtake each other.  A task's steps   *)
(* are its redis round trips (every sync_commit) and its critical sections *)
(* of ConnectionManager::mutex_; steps of distinct tasks and of disconnect *)
(* callbacks interleave.                                                   *)
(***************************************************************************)
EXTENDS Naturals

CONSTANTS
    Users,        \* accounts ("user:<name>")
    Conns,        \* TcpConnection objects, each used by one client process
    NoUser,       \* the "null" ConnectionManager::getName returns
    NoConn,       \* the nullptr ConnectionManager::getConn returns
    Registered,   \* accounts that exist, offline, when the server starts
    MaxRequests   \* bound: the requests each client process sends

ASSUME ConstantsAssumption ==
    /\ NoUser \notin Users
    /\ NoConn \notin Conns
    /\ Registered \subseteq Users
    /\ MaxRequests \in [Conns -> Nat]

VARIABLES
    account,       \* redis: the hash of each account, and its "frie:" record
    userConnMap_,  \* ConnectionManager::userConnMap_
    connUserMap_,  \* ConnectionManager::connUserMap_
    findAllConn_,  \* the global map of handleData.cc
    connState,     \* each connection: its state_ and its disconnect callback
    closingName,   \* the local variable account of the disconnect callback
    client,        \* each client process: its screen and the user it shows
    sent,          \* requests each client process has sent
    tasks,         \* pool tasks enqueued and not finished
    restarted,     \* the server process has died once and was started again
    proved,        \* history: <<c, u>> such that c sent u's password
    guessed,       \* history: <<c, u>> such that c sent the word "null" for it
    deleted,       \* history: the users whose hash a deletion removed
    late,          \* history: connections closed with a ship still running,
                   \* or cut off by the restart
    overlapped     \* history: <<c, op>>: c sent op before its ships finished

vars == <<account, userConnMap_, connUserMap_, findAllConn_, connState,
          closingName, client, sent, tasks, restarted, proved, guessed,
          deleted, late, overlapped>>

server == <<userConnMap_, connUserMap_, findAllConn_>>
history == <<restarted, proved, guessed, deleted, late, overlapped>>

States == {"null", "online", "offline"}     \* "null": the field is absent
Screens == {"none", "menu", "wait", "granted", "user"}
ConnStates == {"new", "up", "getName", "hset", "remove", "down"}
Ops == {"register", "login", "online", "offline", "delete"}
Steps == {"start", "write", "reply", "finish"}
Ships == {"online", "offline"}

Task == [conn : Conns, id : Nat, op : Ops, user : Users, right : BOOLEAN,
         step : Steps]

----------------------------------------------------------------------------
Init ==
    /\ account = [u \in Users |->
                    [password |-> u \in Registered, mystate |-> "null",
                     self |-> u \in Registered]]
    /\ userConnMap_ = [u \in Users |-> NoConn]
    /\ connUserMap_ = [c \in Conns |-> NoUser]
    /\ findAllConn_ = [u \in Users |-> NoConn]
    /\ connState = [c \in Conns |-> "new"]
    /\ closingName = [c \in Conns |-> NoUser]
    /\ client = [c \in Conns |-> [screen |-> "none", user |-> NoUser]]
    /\ sent = [c \in Conns |-> 0]
    /\ tasks = {}
    /\ restarted = FALSE
    /\ proved = {}
    /\ guessed = {}
    /\ deleted = {}
    /\ late = {}
    /\ overlapped = {}

\* redisCmd::isAccount: a GET of a hash answers WRONGTYPE, which is not null,
\* so the test is "the key exists", and any field makes the key exist.
isAccount(u) == account[u].password \/ account[u].mystate # "null"

ShipsOf(c) == {t \in tasks : t.conn = c /\ t.op \in Ships}

Shows(c, screen, u) == client[c] = [screen |-> screen, user |-> u]

\* TcpConnection::send drops what it is given unless state_ is kConnected;
\* otherwise the client shows the next screen.
Reply(c, screen, u) ==
    client' = IF connState[c] = "up"
              THEN [client EXCEPT ![c] = [screen |-> screen, user |-> u]]
              ELSE client

----------------------------------------------------------------------------
(***************************************************************************)
(* The client process at the far end of a connection (base/logOn.h and     *)
(* client/UserUi.cc).                                                      *)
(***************************************************************************)

\* The message callback of server.cc splits the message off the stream and
\* enqueues a task for it.
SendTask(c, op, u, right) ==
    /\ connState[c] = "up"
    /\ sent[c] < MaxRequests[c]
    /\ sent' = [sent EXCEPT ![c] = @ + 1]
    /\ tasks' = tasks \cup
                {[conn |-> c, id |-> sent[c], op |-> op, user |-> u,
                  right |-> right, step |-> "start"]}

onConnection(c) ==
    /\ connState[c] = "new"
    /\ connState' = [connState EXCEPT ![c] = "up"]
    /\ client' = [client EXCEPT ![c] = [screen |-> "menu", user |-> NoUser]]
    /\ UNCHANGED <<account, server, closingName, sent, tasks, history>>

ClientRegister(c, u) ==
    /\ Shows(c, "menu", NoUser)
    /\ SendTask(c, "register", u, TRUE)
    /\ client' = [client EXCEPT ![c] = [screen |-> "wait", user |-> u]]
    /\ UNCHANGED <<account, server, connState, closingName, history>>

\* right: the word typed is the password u registered with.  FALSE is the word
\* "null", which handleLogin takes for a missing password (LoginPassword); any
\* other wrong word is always refused, as "null" is while u has a password.
ClientLogin(c, u, right) ==
    /\ Shows(c, "menu", NoUser)
    /\ SendTask(c, "login", u, right)
    /\ client' = [client EXCEPT ![c] = [screen |-> "wait", user |-> u]]
    /\ proved' = IF right THEN proved \cup {<<c, u>>} ELSE proved
    /\ guessed' = IF right THEN guessed ELSE guessed \cup {<<c, u>>}
    /\ UNCHANGED <<account, server, connState, closingName, restarted, deleted,
                   late, overlapped>>

NoteOverlap(c, op) ==
    overlapped' = IF ShipsOf(c) # {} THEN overlapped \cup {<<c, op>>}
                  ELSE overlapped

\* Userui::ui starts by sending ship "online".
ClientOnline(c, u) ==
    /\ Shows(c, "granted", u)
    /\ SendTask(c, "online", u, TRUE)
    /\ client' = [client EXCEPT ![c] = [screen |-> "user", user |-> u]]
    /\ NoteOverlap(c, "online")
    /\ UNCHANGED <<account, server, connState, closingName, restarted, proved,
                   guessed, deleted, late>>

\* Entry 9 of the user menu sends ship "offline" and goes back to the menu
\* without waiting for an answer.
ClientLogout(c, u) ==
    /\ Shows(c, "user", u)
    /\ SendTask(c, "offline", u, TRUE)
    /\ client' = [client EXCEPT ![c] = [screen |-> "menu", user |-> NoUser]]
    /\ NoteOverlap(c, "offline")
    /\ UNCHANGED <<account, server, connState, closingName, restarted, proved,
                   guessed, deleted, late>>

\* Entry 10 deletes the account; no ship "offline" is sent.
ClientDelete(c, u) ==
    /\ Shows(c, "user", u)
    /\ SendTask(c, "delete", u, TRUE)
    /\ client' = [client EXCEPT ![c] = [screen |-> "wait", user |-> u]]
    /\ overlapped' = overlapped \cup {<<c, "delete">>}
    /\ UNCHANGED <<account, server, connState, closingName, restarted, proved,
                   guessed, deleted, late>>

----------------------------------------------------------------------------
(***************************************************************************)
(* The handlers of handleData.cc, one action per step of a task t.         *)
(***************************************************************************)

Advance(t, step) == tasks' = (tasks \ {t}) \cup {[t EXCEPT !.step = step]}
Finish(t) == tasks' = tasks \ {t}
AtStep(t, op, step) == t.op = op /\ t.step = step

\* handleRegister, the test of isAccount.
RegisterCheck(t) ==
    /\ AtStep(t, "register", "start")
    /\ IF isAccount(t.user)
       THEN Finish(t) /\ Reply(t.conn, "menu", NoUser)
       ELSE Advance(t, "write") /\ UNCHANGED client
    /\ UNCHANGED <<account, server, connState, closingName, sent, history>>

\* setNewUser: the four hset of one pipeline.
RegisterWrite(t) ==
    /\ AtStep(t, "register", "write")
    /\ account' = [account EXCEPT ![t.user].password = TRUE]
    /\ Advance(t, "reply")
    /\ UNCHANGED <<server, connState, closingName, client, sent, history>>

\* Only a connected client gets the answer and the own "frie:" record.
RegisterReply(t) ==
    /\ AtStep(t, "register", "reply")
    /\ Reply(t.conn, "menu", NoUser)
    /\ IF connState[t.conn] = "up" THEN Advance(t, "finish") ELSE Finish(t)
    /\ UNCHANGED <<account, server, connState, closingName, sent, history>>

RegisterSelf(t) ==
    /\ AtStep(t, "register", "finish")
    /\ account' = [account EXCEPT ![t.user].self = TRUE]
    /\ Finish(t)
    /\ UNCHANGED <<server, connState, closingName, client, sent, history>>

\* redisCmd::handleLogin makes three round trips.  First, is there an account?
LoginCheck(t) ==
    /\ AtStep(t, "login", "start")
    /\ IF isAccount(t.user)
       THEN Advance(t, "write") /\ UNCHANGED client
       ELSE Finish(t) /\ Reply(t.conn, "menu", NoUser)
    /\ UNCHANGED <<account, server, connState, closingName, sent, history>>

\* Mutant: the password is not compared.
LoginAnyPassword(t) ==
    /\ AtStep(t, "login", "write")
    /\ IF account[t.user].password
       THEN Advance(t, "reply") /\ UNCHANGED client
       ELSE Finish(t) /\ Reply(t.conn, "menu", NoUser)
    /\ UNCHANGED <<account, server, connState, closingName, sent, history>>

\* Second, its password.  getField answers the word "null" for a field that is
\* absent, and the comparison takes it for the password: a hash that only has
\* a mystate, or was deleted since the first round trip, admits that word.
LoginPassword(t) ==
    /\ AtStep(t, "login", "write")
    /\ IF t.right = account[t.user].password
       THEN Advance(t, "reply") /\ UNCHANGED client
       ELSE Finish(t) /\ Reply(t.conn, "menu", NoUser)
    /\ UNCHANGED <<account, server, connState, closingName, sent, history>>

\* Mutant: no answer is sent to the client that is refused.
LoginRefusedSilently(t) ==
    /\ AtStep(t, "login", "reply")
    /\ IF account[t.user].mystate = "online"
       THEN UNCHANGED client
       ELSE Reply(t.conn, "granted", t.user)
    /\ Finish(t)
    /\ UNCHANGED <<account, server, connState, closingName, sent, history>>

\* Third, mystate; then handleData::handleLogin answers;
\* nothing is written: the account is marked online only by the later ship.
LoginState(t) ==
    /\ AtStep(t, "login", "reply")
    /\ IF account[t.user].mystate = "online"
       THEN Reply(t.conn, "menu", NoUser)
       ELSE Reply(t.conn, "granted", t.user)
    /\ Finish(t)
    /\ UNCHANGED <<account, server, connState, closingName, sent, history>>

\* updataShip, first redisCmd::updataship.
ShipState(t) ==
    /\ t.op \in Ships
    /\ t.step = "start"
    /\ account' = [account EXCEPT ![t.user].mystate = t.op]
    /\ Advance(t, "write")
    /\ UNCHANGED <<server, connState, closingName, client, sent, history>>

\* Mutant: the arguments of the first insertion are swapped.
addUserConnSwapped(u, c) ==
    /\ userConnMap_' = [userConnMap_ EXCEPT ![u] = u]
    /\ connUserMap_' = [connUserMap_ EXCEPT ![c] = u]

addUserConn(u, c) ==
    /\ userConnMap_' = [userConnMap_ EXCEPT ![u] = c]
    /\ connUserMap_' = [connUserMap_ EXCEPT ![c] = u]

\* Mutant: only the entry of the connection goes.
removeConnOnly(u, c) ==
    /\ userConnMap_' = userConnMap_
    /\ connUserMap_' = [connUserMap_ EXCEPT ![c] = NoUser]

\* The user's entry goes whichever connection it names.
removeUserConn(u, c) ==
    /\ userConnMap_' = [userConnMap_ EXCEPT ![u] = NoConn]
    /\ connUserMap_' = [connUserMap_ EXCEPT ![c] = NoUser]

\* updataShip, then ConnectionManager.  The connection taken from findAllConn_
\* instead is for a "return" field, which no client sends with mystate.
ShipOnline(t) ==
    /\ AtStep(t, "online", "write")
    /\ addUserConn(t.user, t.conn)
    /\ findAllConn_' = [findAllConn_ EXCEPT ![t.user] = t.conn]
    /\ Finish(t)
    /\ UNCHANGED <<account, connState, closingName, client, sent, history>>

ShipOffline(t) ==
    /\ AtStep(t, "offline", "write")
    /\ removeUserConn(t.user, t.conn)
    /\ Finish(t)
    /\ UNCHANGED <<account, findAllConn_, connState, closingName, client,
                   sent, history>>

\* redisCmd::deleteUser: the account's hash, later the "frie:" record.
DeleteHash(t) ==
    /\ AtStep(t, "delete", "start")
    /\ account' = [account EXCEPT ![t.user].password = FALSE,
                                  ![t.user].mystate = "null"]
    /\ deleted' = deleted \cup {t.user}
    /\ Advance(t, "write")
    /\ UNCHANGED <<server, connState, closingName, client, sent, restarted,
                   proved, guessed, late, overlapped>>

DeleteFriends(t) ==
    /\ AtStep(t, "delete", "write")
    /\ account' = [account EXCEPT ![t.user].self = FALSE]
    /\ Advance(t, "reply")
    /\ UNCHANGED <<server, connState, closingName, client, sent, history>>

\* The answer brings back the menu, if the client's thread wakes up for it.
DeleteReply(t) ==
    /\ AtStep(t, "delete", "reply")
    /\ Reply(t.conn, "menu", NoUser)
    /\ Finish(t)
    /\ UNCHANGED <<account, server, connState, closingName, sent, history>>

----------------------------------------------------------------------------
(***************************************************************************)
(* The disconnect callback of server.cc, run by the connection's IO thread *)
(* from TcpConnection::handleClose.                                        *)
(***************************************************************************)

\* handleClose sets kDisconnected and calls the callback.
Close(c) ==
    /\ connState[c] = "up"
    /\ connState' = [connState EXCEPT ![c] = "getName"]
    /\ client' = [client EXCEPT ![c] = [screen |-> "none", user |-> NoUser]]
    /\ UNCHANGED <<account, server, closingName, sent, tasks, history>>

\* It holds timeMutex from the look-up of the name to its end.
timeMutexIsFree == \A c \in Conns : connState[c] \notin {"hset", "remove"}

CloseGetName(c) ==
    /\ connState[c] = "getName"
    /\ timeMutexIsFree
    /\ closingName' = [closingName EXCEPT ![c] = connUserMap_[c]]
    /\ connState' = [connState EXCEPT
                       ![c] = IF connUserMap_[c] # NoUser THEN "hset"
                              ELSE "down"]
    /\ late' = IF ShipsOf(c) # {} THEN late \cup {c} ELSE late
    /\ UNCHANGED <<account, server, client, sent, tasks, restarted, proved,
                   guessed, deleted, overlapped>>

\* Mutant: the callback forgets to write mystate.
CloseNoHset(c) ==
    /\ connState[c] = "hset"
    /\ connState' = [connState EXCEPT ![c] = "remove"]
    /\ UNCHANGED <<account, server, closingName, client, sent, tasks, history>>

CloseHset(c) ==
    /\ connState[c] = "hset"
    /\ account' = [account EXCEPT ![closingName[c]].mystate = "offline"]
    /\ connState' = [connState EXCEPT ![c] = "remove"]
    /\ UNCHANGED <<server, closingName, client, sent, tasks, history>>

CloseRemove(c) ==
    /\ connState[c] = "remove"
    /\ removeUserConn(closingName[c], c)
    /\ closingName' = [closingName EXCEPT ![c] = NoUser]
    /\ connState' = [connState EXCEPT ![c] = "down"]
    /\ UNCHANGED <<account, findAllConn_, client, sent, tasks, history>>

----------------------------------------------------------------------------
\* The server process dies and is started again: every connection and
\* everything in memory is gone, redis keeps the accounts, and nothing in
\* main resets them.  Clients of the old process do not reconnect.
Restart ==
    /\ ~restarted
    /\ restarted' = TRUE
    /\ userConnMap_' = [u \in Users |-> NoConn]
    /\ connUserMap_' = [c \in Conns |-> NoUser]
    /\ findAllConn_' = [u \in Users |-> NoConn]
    /\ connState' = [c \in Conns |->
                        IF connState[c] = "new" THEN "new" ELSE "down"]
    /\ closingName' = [c \in Conns |-> NoUser]
    /\ client' = [c \in Conns |-> [screen |-> "none", user |-> NoUser]]
    /\ tasks' = {}
    /\ late' = late \cup {c \in Conns : connState[c] # "new"}
    /\ UNCHANGED <<account, sent, proved, guessed, deleted, overlapped>>

----------------------------------------------------------------------------
ClientStep(c) ==
    \E u \in Users :
        \/ ClientRegister(c, u)
        \/ \E right \in BOOLEAN : ClientLogin(c, u, right)
        \/ ClientOnline(c, u)
        \/ ClientLogout(c, u)
        \/ ClientDelete(c, u)

TaskStep(t) ==
    \/ RegisterCheck(t) \/ RegisterWrite(t) \/ RegisterReply(t)
    \/ RegisterSelf(t)
    \/ LoginCheck(t) \/ LoginPassword(t) \/ LoginState(t)
    \/ ShipState(t) \/ ShipOnline(t) \/ ShipOffline(t)
    \/ DeleteHash(t) \/ DeleteFriends(t) \/ DeleteReply(t)

CloseStep(c) == CloseGetName(c) \/ CloseHset(c) \/ CloseRemove(c)

Next ==
    \/ \E c \in Conns : onConnection(c) \/ ClientStep(c) \/ Close(c)
    \/ \E t \in tasks : TaskStep(t)
    \/ \E c \in Conns : CloseStep(c)
    \/ Restart

\* A pool worker and an IO thread keep running the code they have started;
\* clients may stop at any time, and connections need not close.
Fairness ==
    /\ \A c \in Conns : WF_vars(CloseStep(c))
    /\ \A c \in Conns : \A i \in 0 .. MaxRequests[c] :
          WF_vars(\E t \in tasks : t.conn = c /\ t.id = i /\ TaskStep(t))

Spec == Init /\ [][Next]_vars
FairSpec == Spec /\ Fairness

----------------------------------------------------------------------------
TypeOK ==
    /\ account \in [Users -> [password : BOOLEAN, mystate : States,
                              self : BOOLEAN]]
    /\ userConnMap_ \in [Users -> Conns \cup {NoConn}]
    /\ connUserMap_ \in [Conns -> Users \cup {NoUser}]
    /\ findAllConn_ \in [Users -> Conns \cup {NoConn}]
    /\ connState \in [Conns -> ConnStates]
    /\ closingName \in [Conns -> Users \cup {NoUser}]
    /\ client \in [Conns -> [screen : Screens, user : Users \cup {NoUser}]]
    /\ sent \in [Conns -> Nat]
    /\ tasks \subseteq Task
    /\ restarted \in BOOLEAN
    /\ proved \subseteq Conns \X Users
    /\ guessed \subseteq Conns \X Users
    /\ deleted \subseteq Users
    /\ late \subseteq Conns
    /\ overlapped \subseteq Conns \X Ops
----------------------------------------------------------------------------
(***************************************************************************)
(* Safety.                                                                 *)
(***************************************************************************)

\* What admits c as u: u's password; or the word "null", once a deletion has
\* removed the hash and with it the password that the word is compared with.
Entitled(c, u) ==
    <<c, u>> \in proved \/ (<<c, u>> \in guessed /\ u \in deleted)

\* A user's messages are only ever routed to a connection that sent that
\* user's password, and a connection is only ever charged to such a user:
\* whatever tasks overtake each other, ConnectionManager never holds a pair
\* that no login proved.  The one way around the password is the account that
\* was deleted: a disconnect or a late ship brings its hash back without a
\* password, and then, or while the deletion is running, handleLogin grants
\* the word "null".  No account that was never deleted can be entered so.
RoutesAreProved ==
    \A c \in Conns, u \in Users :
        userConnMap_[u] = c \/ connUserMap_[c] = u => Entitled(c, u)

\* A connection whose requests never overlapped its own unfinished ships.
Orderly(c) == \A op \in Ops : <<c, op>> \notin overlapped

\* The complete list of the ways a closed connection stays in the maps of
\* ConnectionManager: a ship was still running when the disconnect callback
\* looked the connection up, or two ships of it overtook each other, or the
\* user it showed was deleted.  Without them the callback cleans up.
DeadRoutesNeedARace ==
    \A c \in Conns :
        connState[c] = "down" /\ c \notin late /\ Orderly(c) =>
            /\ connUserMap_[c] = NoUser
            /\ \A u \in Users : userConnMap_[u] # c

TasksOf(c) == {t \in tasks : t.conn = c}
Settled(c) == TasksOf(c) = {} /\ connState[c] \in {"new", "up", "down"}
OnlyClientOf(c, u) == \A d \in Conns : <<d, u>> \in proved \cup guessed => d = c

\* When one client alone uses an account, and none of the races above
\* happened, then as soon as its requests are served the stored mystate and
\* the routing both agree with what its screen shows, through any number of
\* logins, logouts and a disconnect.
StatusMatchesScreen ==
    \A c \in Conns, u \in Users :
        OnlyClientOf(c, u) /\ Settled(c) /\ c \notin late /\ Orderly(c) =>
            /\ account[u].mystate = "online" <=> Shows(c, "user", u)
            /\ userConnMap_[u] = c <=> Shows(c, "user", u)

----------------------------------------------------------------------------
(***************************************************************************)
(* Liveness.                                                               *)
(***************************************************************************)

\* A client never waits for ever: whatever path its request takes through
\* the handler, it is answered, or the connection is gone.
RequestsAnswered ==
    \A c \in Conns : client[c].screen = "wait" ~> client[c].screen # "wait"

=============================================================================
