# A TLA+ verification of my-Chatroom

The repository is a chat room in C++17: a server, a client and a file server over a
home-made reactor library (netlib), with redis as the store. This directory holds TLA+
modules that model its core, TLC configurations that check them on small instances, and
TLAPS proofs for all instances. Line numbers refer to `src/`.

## 1. Inventory

| component | state | operations | where |
|---|---|---|---|
| accounts and login | redis: hash `user:<name>` (password, mystate, ...), `frie:<name>` | register, login, `updataShip` (online/offline), deleteUser | server/handleData.cc, server/redisCmd.cc |
| routes | `userConnMap_`, `connUserMap_` (under `mutex_`), `findAllConn_` (no lock) | addUserConn, removeUserConn, getConn, getName | server/ConnectionManager.cc |
| disconnect callback | `lastActiveTime` under `timeMutex` | looks the route up, sets `mystate`, removes the route | server/server.cc:71-82 |
| private chats | redis: counters in `frie:`, `offl:` by index, `read:` lists; memory: `chatStatus_`, `messageQueue`, `storeMtx` | MESSAGE, CHAT, ENDCHAT | handleData.cc:24-62, 485-503, 557-568; redisCmd.cc:258-351 |
| friends, verification, blacklist | redis: `frie:<u>` (friends and their unread counters), `mess:user:<u>` (requests), `blak:<u>` | ADD, VERIFY, DELFRIEND, BLACK | handleData.cc:287-321, 433-454, 569-603; redisCmd.cc:160-237, 352-377, 509-527 |
| groups | redis: `grop:<g>` (ranks), `mygp:<u>` (unread counters), `mess:grop:<g>`, `regp:<g>`; memory: `chatStatus_`, `storeMtx2` | CREATEGROUP, DELGROUP, ADD, VERIFY, CMD, GCHAT, /h, GMESSAGE, ENDCHAT | handleData.cc:322-370, 504-759; redisCmd.cc:392-504; base/tool.cc:27-41 |
| thread pool | `works`, `runflag`, a condition variable | enqueue, worker loop, destructor | base/threadPool.h |
| event loop | `pendingFunctors_`, `quit_`, `callingPendingFunctors_`, eventfd | loop, queueInLoop, wakeup, quit | netlib/net/EventLoop.cc, EventLoopThread.h, Epoller.cc |
| connections | `state_`, `connections_`, channel flags, `lastActiveTime`; the handlers' maps `findAllConn_`, `codes_` | create, establish, read, write, shutdown, forceClose, close, destroy | netlib/net/TcpConnection.cc, TcpServer.cc, Channel.cc, server/server.cc |
| buffer | vector, two indices | append, readFd, retrieve, makeSpace | netlib/net/Buffer.cc |
| framing | `buffer_` of the splitter | encodeMessage, append, nextMessage | base/MessageSplitter.h |
| client | two status words (`currentState_`, `currentUserState_`), `uiStart` and `g_ui_cv`, the open chat (`chatting`, `chatCv`, `gchatCv`, two reminders, `MessageManager`) | a screen sends, stores a word and reads it until an answer has stored another; pool tasks handle answers; `recvThread` prints a chat | client/client.cc, UserUi.cc, handleMeg.h, base/logOn.h, messageType.h, MessageManager.h |
| file transfer | one `handleFile` for all clients: `ftpConn`, `acceptSocket_`, `fileTimeMap`, the splitter; the uploads directory; a data connection per transfer | stor, retr, info, cloe; on the client the tasks that connect and copy | ftp/server.cc, ftp/handleFile.cc, client/sendFile.cc, UserUi.cc |
| connector | `state_`, `channel_`, `connection_` | start, connecting, handleWrite, handleError, retry; newConnection, removeConnection | netlib/net/Connector.cc, TcpClient.cc |

**How they interact.** TcpServer accepts on the main loop and gives each connection to one
of 16 IO loops. A loop reads into the connection's Buffer; the message callback moves the
bytes into the MessageSplitter and enqueues one task per message in a pool of 28 workers.
A task runs a handler, which talks to redis (every `sync_commit` is a round trip during which
anything else may happen) and answers with `TcpConnection::send`, which queues a functor on the
connection's IO loop. MESSAGE uses a second pool of 16. Every connect and every disconnect starts a detached thread
that looks for connections without heartbeat and has the main loop close them.

A client has two connections, to the chat server and to the file server, on its main loop. Every
batch of messages becomes a task of a pool of 32, so answers are handled in any order; a task stores a status
word or wakes a reader, while the logon thread and the ui thread send and wait. A file
goes over a data connection of its own: the file server opens a port, tells it to the client on the
control connection, and waits in `accept` on the IO thread of that connection; when the file has arrived it answers `info`
with the name, and the client announces it through the chat server.

**What is hard.** Tasks of one connection overtake each other. Handlers test redis and write
it later. The disconnect callback runs concurrently with the tasks of the same connection.
`state_` is written by three kinds of threads without a lock. Plain pointers and shared pointers
to a connection are mixed. Redis survives a server crash, the routes do not. A client's screen and the answers it
waits for write one word without an order between them. The IO threads of the file server share one object without a lock, and block in it.

**What makes each part correct.**

- routes lead only to connections that proved the password (or entered an account that was deleted by the word "null"), and
  lead nowhere after a disconnect; `mystate` agrees with what the clients show; every request is answered;
- a message that was sent is unread or in the history; the counter counts the unread
  messages; the flag tells whose chat is open;
- friends are friends both ways, have both agreed, and leave no unread message behind when they part;
- the two records of a membership agree, a group has one owner, the counters count what was not seen;
- the loop does not sleep over functors, runs each once and in order, and ends when told to;
- the pool loses no wakeup, starts tasks in order, and its destructor runs everything and
  returns;
- a connection outlives the plain pointers to it, goes down once, and after the peer closes is let go by all but the
  maps that nobody erases;
- the buffer loses and invents no byte; messages arrive whole, once, in order;
- a screen never waits for an answer that is not coming; one thread at a time shows a menu; no reader
  sleeps over a message;
- the connector's state, its channel and the client's connection agree;
- a file that is announced is the whole file that was uploaded, a download copies one whole file, a server thread waits
  only for who will connect, and every transfer ends.

The places at which each of these can go wrong are listed under `hazards` in PROJECT.json, with the property that
would notice. Where the code does go wrong and a property names the case as its exception, the note of the hazard says which exception it is;
the properties it lists beside such a note are those that show that nothing else goes wrong there.

## 2. Modules

| module | models | role |
|---|---|---|
| Session, MCSession, SessionProofs | accounts, login, routes, disconnect, server restart, the clients' login screens | protocol over redis |
| Mailbox, MCMailbox, MailboxProofs | private messages | protocol over redis |
| Registry, MCRegistry, RegistryProofs | friends, requests, blacklist, and what CHAT and MESSAGE do to friend records | protocol over redis |
| Group, MCGroup, GroupProofs | one group: members, ranks, requests, invitations, messages | protocol over redis |
| TaskQueue | what a callback queue promises | abstract specification |
| EventLoop, RuntimeProofs | one loop and other threads | implements TaskQueue |
| ThreadPool, RuntimeProofs | workers, callers, destructor | implements TaskQueue |
| Connection, ConnectionProofs | TcpConnection over main loop, IO loop, workers, monitors | uses the order that EventLoop is shown to keep |
| Buffer, RuntimeProofs | the Buffer class as operators on records | pure algorithm |
| Stream, MCStream, RuntimeProofs | sender, socket, receiver, splitter | composes Buffer (EXTENDS) with the framing |
| Connector | Connector and TcpClient on the client's main loop | part of Client |
| Client, ClientProofs | the client's screens, answers and chat reader | composes Connector (EXTENDS) with the threads |
| Transfer, TransferProofs | the file server and the clients' side of a transfer | two programs over control and data connections |

An action of Session, Mailbox, Registry or Group is the part of a handler between two redis round
trips, or one critical section; an action of Connection is what a thread does between two
accesses to `state_` or two queue operations; an action of EventLoop and ThreadPool is a critical
section, a system call or a test; an action of Client is what a thread does between two accesses to a status word or
a condition variable, one of Transfer what a thread does between two accesses to the shared `handleFile` or two system calls
(so that `connectPort` is three actions: the socket is stored in `acceptSocket_`, bound through it, and set to listen through it; only an append to
`megser` and a removal from it are taken as atomic). Definitions keep the names of the source. The table `map` of
PROJECT.json gives the lines of each.

Operators with "Mutant:" in their comment are wrong variants of the operator after them, used
to see that the properties depend on it. They are part of no specification.

### Session
`account[u]` is redis' hash of u (does it have a password, `mystate`, the self-friend record).
The maps have their own names. `tasks` is the pool: sets of records with the step they are at,
so that any task may run next, as 28 workers and more tasks allow. A connection goes
`new`, `up`, then through the disconnect callback (`getName`, `hset`, `remove`) to `down`; the
callback holds `timeMutex` throughout, so one connection at a time is in it. The client is its screen
(`menu`, `wait`, `granted`, `user`) and sends only what the screen lets it send.
`isAccount` follows the code: GET on a hash answers an error, which is not null, so any field
makes the account exist. A login is three round trips, and as `getField` answers "null" for an absent field, the word
"null" passes for the password of a hash without one: a client types the password (`right`) or that word; any other wrong word
is refused always. History variables say who sent a password (`proved`) or the word (`guessed`), which users were
`deleted`, whose connection was lost with a ship task running (`late`), and which requests overlapped (`overlapped`).

### Mailbox
A box is (owner, sender): a counter, messages by index. CHAT is nine steps, both of its loops reading one message at a time and
throwing if it is absent, and MESSAGE up to six; `storeMtx` is held where the code holds it and nowhere else. `disturbed` collects
the boxes that two tasks changed at once, `cut` those whose task a restart cut off, `hurried` those
whose owner moved on before the flag was written. The invariants hold of boxes in none of
them; `mailbox_kept` shows what happens without that condition. Two users are
mutual friends with none on the other's blacklist, and nobody writes to himself.
The client reaches `chat` when the answer comes, which the code sends before it sets
the flag.

### Registry
A friendship is two records, `frie[<<u, v>>]` and `frie[<<v, u>>]`; the value is the counter of unread messages.
A task is a record of the operation, the box (owner, other) and the step. `consent` remembers who asked for or
accepted whom since they last were friends. `torn` collects the pairs of which DELFRIEND overlapped another task, or a
restart cut a task off, or who wrote to each other as strangers; `crossed` those of which two requests or answers overlapped, and `met` those of which a CHAT and a
message, or two CHATs, overlapped. An unread message is its box and its index, and a CHAT fetches, deletes and counts them one by one, as in the
code: an absent one ends the task without an answer. Which messages are filed as read is left to Mailbox: here any
may be, or be stored. The initial states are all sets of friendships. A request may name a user nobody registered.

### Group
One group; handlers for different groups share no redis field, only `storeMtx2`, which is held for
two redis calls. `grop` and `mygp` are the two records of a membership. A task carries the rank it has read, the members
it still has to do and the counter it has read. The clients go from `menu` to `wait` to `confirm` (leaving) or `chat`, and
in the chat to `command`, where /h waits too. /h is `getGroupMeg` once more, and writes `mygp` without asking whether the user is
a member: `ghosts` are the users it made members in that table alone. `stuck` is the client that waits for URETURN and was answered UWAIT. `disturbed` says that two tasks
changed the members at once, or a restart cut one off; `outOfDate` that an answer or a command was handled although the
group had been dissolved, its sender removed, or its target made owner; `uncounted` holds the users whose visit overlapped
the counting of a message. A message for a member whose flag is set and who has no route kills the server
(handleData.cc:734), in the model as in the code. The initial states are: no group, and every group with one owner.
CREATEGROUP names at most one friend.

### EventLoop, ThreadPool, TaskQueue
`wakeupFd_` is the eventfd counter being nonzero, `calling` the threads between the unlock in
queueInLoop and `wakeup()`. `callingPendingFunctors_` starts with any value, as the constructor leaves it.
In ThreadPool the wait set of `cv` is the set of workers in `waiting`, and waits may end spuriously.
Both map onto TaskQueue with `started` a history variable.

### Connection
One functor queue per connection is the part of its IO loop's queue that concerns it, and one queue for
the main loop. `Held` says that a table of TcpServer, a functor, a task, a thread or a monitor has a shared pointer; the functor of
`shutdown` and the poller's channel hold plain pointers and are not in it. `maps[c]` are the handlers' maps that have one: the two of
ConnectionManager, which the disconnect callback clears, `findAllConn_` from the first online notice on and `codes_` from the first mail code on,
which nothing does. A connection that only these still have is let go (`LetGo`) and not released. Time is left out: any entry of `lastActiveTime`
may be found too old. A failed assertion (the build sets no NDEBUG) stops the model as it stops the process.

### Buffer, Stream
A buffer is a record of the vector and the two indices. `readFd` fills the writable part and
appends what spills into `extrabuf`. In Stream the socket takes and gives any number of bytes at
a time. A header is `HeaderSize` digits to the base `Base`, signed as `int32_t`.

### Connector, Client
`Connector` has both servers of the client, on one thread. A refusal calls `retry`, which goes through the null `timerQueue_` and
ends the process (`running`).
The screens of Client are data: `Screens[scr]` is a set of rows, each with the word it needs (`on`), the store before the
requests (`pre`), the requests (`ask`), the store after them (`post`) and the next screen (`to`). Three actions
run any of them (`Table` makes the function from rows of name and entry): `look` reads the word, `choose` acts on what was read, `updataState` makes the later store.
`inflight` has what may be left of each request's answer; `Answers` gives the server's answers as the words they store. An answer
`Disturbs` a thread if it is handled before the store the thread has still to make, after the thread has moved on, before an
earlier part of the same answer, or if it is the refusal of DELGROUP, which the screen does not wait for;
`disturbed` lasts until the thread is back at its menu with nothing in flight. `missed` holds the threads whose notification came between the
test and the sleep; `deleted` says that the account was deleted, which notifies nobody.
The initial states are a client just started, and a user logged in at one of the screens with what that screen waits for.

### Transfer
Each transfer has a number, which its listening socket and data connection share, because a port is told to one client only.
A file is two chunks, named by who sent them, for which operation, and their position, so that a file mixed from two uploads differs from both.
`Idle`, `next`, `stor`, `open`, `port`, `accept`, ... are the places at which the IO thread of a control connection can be. `ftpConn`,
`acceptSocket_`, `fileTimeMap` and `megser` are one each, as in the code, and every use of `ftpConn` or of a message that belongs to
another client puts both clients into `confused`; `failed` holds those a failure has hit (a file that cannot be
opened, on either side, or a client that ends). `socket` is the kernel's side of each listening socket (`raw`, `bound`, `listening`): `bind`,
`listen` and `accept` act on the socket that `acceptSocket_` has at that moment. `up` becomes false when `cloe` is read and the socket
closed twice, when a socket is bound a second time, and when `accept` is called on one that does not listen. A client that cannot
open the file of a download sends "550" before its `cloe`, which the server ignores.

## 3. Runs

| run | module | checks | bounds |
|---|---|---|---|
| session | MCSession | TypeOK, RoutesAreProved, DeadRoutesNeedARace, StatusMatchesScreen, RequestsAnswered | 2 users (1 registered), 2 connections, 3 and 2 requests, 1 restart |
| event_loop | EventLoop | NoSleepOverWork, FifoOnce, QueuedRuns, QuitEndsLoop | 2 threads, 3 functors |
| thread_pool | ThreadPool | NoTaskBesideSleeper, DrainedWhenDone, StartsInOrder, DestructorReturns | 3 workers, 2 callers, 4 tasks |
| mailbox | MCMailbox | KeptUnlessDisturbed, CounterCountsUnread, HistoryIsOfThePair, FlagMatchesScreen | 2 users, 2 messages, 2 and 1 chats |
| mailbox_kept | MCMailbox | OfflineKept, violated | as mailbox |
| connection | Connection | PlainPointersValid, ReleasedAfterOneDown, AssertsHoldUnlessForced, ClosedIsReleased | 1 connection, 2 monitors, 4 requests |
| stream | MCStream | ReceivedIsPrefixOfSent, RestInFlight, AllArrive | 3 messages of 0 or 3 bytes, headers of 2 digits, room for 4 bytes in the socket |
| registry | MCRegistry | FriendshipIsMutual, NoRequestBetweenFriends, FriendsAgreed, DeletedLeavesNothing, AnsweredUnlessOverlapped | 2 users, 2 requests each, 1 message, 1 restart or lost client |
| registry_strangers | MCRegistry | StrangersSilent, violated | as registry, no faults |
| group | MCGroup | MembershipAgrees, GroupHasOwner, CounterCountsUnseen, WaitIsServed | 2 users, 2 requests each, 2 messages of one user, 2 tasks at once, 1 restart or lost client |
| client | Client | WaitIsAnswered, OneMenu, NoLostWakeup, ChannelMatchesState | 2 requests in flight, 5 requests and pushes, one ui thread, one push at a time |
| transfer | Transfer | FilesIntact, WaitHasCause, TransfersEnd | 2 clients, 1 name, 3 transfers of which the first is over, 1 failure |

**Why the bounds are enough.** *session*: two connections are the fewest that can compete for an
account, two users the fewest that can be mixed up; three requests are a login, an online
notice and one more that overlaps them: a deletion, say, after which the other client's two are a login by the word "null" and
the notice that routes it. *registry*: friendship concerns two users; from any set of friendships, two requests
each are enough to ask, accept, part and ask again while the other does the same; a task left without its answer takes
two CHATs, or a CHAT and a message. *group*: the races concern two tasks; every
group there can be is an initial state, so nobody spends requests on building one; two requests are what leaving and dissolving take,
and two messages what two counting tasks take; with two requests each, one opens the chat and removes a member there while the other, in the chat too,
reads the history. That such a reader joins again, or asks for the group once more, takes more requests; there the theorems of section 4 stand alone. *mailbox*: losing a message takes a store
and a fetch; filling the history takes two messages and one fetch; the second chat
finds what the first left. *event_loop*: one functor running, one queued by it and one from outside.
*thread_pool*: three workers so that one can run, one wait and one exit. *connection*: connections share
only the queue of the main loop, which delays but does not reorder what concerns one; two monitors are needed
for two forced closes of one connection. *stream*: a buffer of
three bytes with one prepended must grow, move and read in two pieces; a message of three bytes
is cut inside its header and its body, and its bytes look like a header. *client*: the longest way to a state that a property speaks of
is log on (one request), open a screen and ask twice there, with an answer left over from before, and leave; two in flight are the
answer that is waited for and the one that is late; starting at eight screens spares the requests that lead there. The connection is lost only while
the logon thread is at its menu or not started: elsewhere a lost connection only turns off WaitIsAnswered. A spurious wakeup of the logon thread
occurs only while no ui thread runs, and pushes only while a reader runs. *transfer*: two clients are the fewest that can be mistaken for one
another, an earlier upload lets both download from the start, and with two more transfers an upload can meet an upload or a
download of either client. After a mix-up nothing new is asked for, no failure happens and no data connection is made, since no
property speaks of who was mixed up; what is under way goes on. Each client has an IO thread of its own, as up to 32 connections have.

Deadlock is not checked where clients and callers may stop for good, which is
everywhere: nobody has to send, enqueue, connect or quit, and the client and the file server may end.

**Fairness.** Session: a worker or an IO thread that has begun goes on (redis answers); a
task in the pool is begun (ThreadPool's StartsInOrder and the drain of its queue). EventLoop: the loop thread and a
thread inside `wakeup` go on; no event has to arrive. ThreadPool: workers go on and tasks
return; no spurious wakeup has to occur. Connection: loops, workers and monitors go on; no client has to do anything. Registry: redis
answers, so the tasks of each user's requests go on; users do nothing they do not want to. Stream:
level-triggered epoll keeps reporting a readable or writable socket. Transfer: the IO thread
of each connection goes on (its loop is level-triggered, and `accept` returns when a connection is there), and the client's tasks for each transfer go on; users
ask for nothing they do not want to, and no failure has to happen. Client has no fairness: its properties are about safety, since nobody
has to answer a prompt. Nor has Group: that a wait ends is stated there as WaitIsServed, by which the task that will answer is at work as long as the client waits;
with redis answering, every task comes to its end, for no handler loops but over the finite set it has read. No strong fairness is used.

### What the violated properties show

- **mailbox_kept** (README.md:17): `sendOfflineMeg` reads and resets the counter without `storeMtx`
  (redisCmd.cc:284-285). A message stored in between is overwritten, or is above the counter and never fetched.
- **registry_strangers** (README.md:20): MESSAGE tests the blacklist only (handleData.cc:24-35). A user whose chat is open when
  the friendship ends goes on writing, and `storeMessages` makes a friend record out of the counter (redisCmd.cc:274).

### Also seen while modelling, stated by no property

- A client that exits after its login is granted and before its `online` notice has been handled stays online in redis:
  the disconnect callback finds no route yet (server.cc:77); README.md:42 says that Ctrl-C logs out.
- `mystate` is read at login and set by a later request: two clients can log in with one account (redisCmd.cc:56).
- `messageQueue` is never cleared and is pushed whole for each message, so the history repeats messages (redisCmd.cc:293-294).
- `delFriend` of a friendship that has lost one record throws in `stoi`: the client gets no answer (redisCmd.cc:358, 363).
- Two crossing acceptances each write counter 0 and so hide messages that came between them (redisCmd.cc:160-165).
- DELGROUP for a group that does not exist, or is not one's own, is answered with UWAIT; the client loops for
  URETURN (handleData.cc:621-629, UserUi.cc:599-613).
- An invitation or a request that is accepted after the group was dissolved makes a group without owner, which nobody
  can dissolve (redisCmd.cc:211-227); one accepted by its owner makes him a member. A promotion of a member who
  has just left gives a rank without the other record (redisCmd.cc:112-118).
- A member who was removed while his chat is open and reads the history with /h gets his counter in `mygp:` back: `ismygroup` and `gChat`
  take him for a member, the group does not list him (redisCmd.cc:474-475).
- A member whose client was lost in the chat keeps the flag; the next message to the group calls `send` on a null
  pointer (handleData.cc:734).

- A disconnect after `deleteUser` writes `mystate` back and so re-creates the hash of the
  deleted account, without a password: `getField` answers "null" for it, so a login with that word is granted (server.cc:79,
redisCmd.cc:54, 85). A deletion between the round trips of a login has the same effect.
- Two registrations of one name may both succeed (handleData.cc:162), and a client that is
  gone before the answer has no self-friend record (handleData.cc:165).
- After a server crash, accounts that were online cannot log in again (redisCmd.cc:56).
- `as_string` of a missing message throws out of CHAT; the client gets no answer (redisCmd.cc:288-290, 343-347). It takes a message stored
  during a CHAT, or two friends that open their chat at once: one fetches and deletes what the other is about to show as sent.
- `findAllConn_` and `codes_` hold the connection of whoever logged in or asked for a mail code, and nothing erases either
  (handleData.cc:381, 227, 244): its object and its socket stay after it is closed.
- `forceClose` on the main thread tests `state_`, the IO loop closes, `forceClose` writes `kDisconnecting` and queues a second `handleClose`:
  the assertions of TcpConnection.cc:195 and 234 fail. AssertsHoldUnlessForced says that nothing else fails them.
- `getData` gives "null" for who has no rank, and `compareLevel` prefers the shorter word, so a removed member whose chat is open can remove everybody,
  the owner too (tool.cc:37; handleData.cc:511). "admin", "member" and "owner" come out in the right order because of their lengths and, between equals, the alphabet.
- A `quit()` before `loop()` is overwritten by it (EventLoop.cc:43), and a thread may still be in
  `quit()` when the loop it belongs to is destroyed.

In the client:

- `deleteUser` ends the ui thread without setting `uiStart` or notifying, so unless its answer comes first the logon thread sleeps on (UserUi.cc:177).
- Most screens send first and store UWAIT after (UserUi.cc:342): an answer that is handled in between is
  overwritten, and the screen waits for ever. The answer to `login`, and the two parts of `offmeg`, may overtake each other or the menu.
- `notify_one` is called without the mutex the waiter tests under (UserUi.cc:75, 269, 698), so the one notification can be missed.
- Whether a message is printed or pushed is looked up under a key that does not match: group messages carry "grop:", the chat stores "regp:"
  (UserUi.cc:655), so they are always pushed; on leaving a private chat the key is built from a `cmd` that has just been cleared (UserUi.cc:268-271), so later messages of that
  friend are printed into whatever is on the screen.
- A refused connection goes to `runAfter` of a loop without timer queue (Connector.cc:154); other errors close the socket and nobody is told.
- The heartbeat passes a reference to a local string to the main loop (client.cc:37); it is valid only because the loop is quick.

In the file server:

- One `handleFile` and one splitter serve all IO threads (ftp/server.cc:26): two clients at once are told each other's ports, or their messages are cut
  into each other; `acceptSocket_` may be replaced between `connectPort` and `accept`, or between the three uses `connectPort` makes of it
  (handleFile.cc:124-126): a socket is then bound twice, or not set to listen, and the server ends.
- The name of an upload is tested and opened in two steps (handleFile.cc:25-36): two uploads of one name may write one file.
- `info` is answered with the name of the last upload even if that was cut short (handleFile.cc:85).
- `cloe` is not read while the thread it should free is blocked (handleFile.cc:59, 78); when it is read, the socket is closed twice,
  which is fatal (handleFile.cc:91). A client that cannot open its own file leaves the server's thread in `accept` for ever.
- A download of a file that cannot be opened is not answered.

## 4. Proofs

| theorem | says | inductive invariant |
|---|---|---|
| SessionProofs!TypeCorrect | Session's TypeOK | TypeOK itself |
| SessionProofs!RoutingProved | RoutesAreProved | ProvedInv: also the screens, the tasks that may still add a route, and the callbacks belong to users whose password was given, or the word "null" after a deletion; see below |
| SessionProofs!DeadRoutesRace | DeadRoutesNeedARace | CleanInv: a connection without race has its routes from its one finished ship task; its callback has looked up the name the route still has; no route outlives `remove`. It needs AnswerInv: at most one request of a client awaits its answer, and while it does the client's screen is `wait` |
| SessionProofs!StatusAgrees | StatusMatchesScreen | StatusInv: for a user of one clean client, `mystate` is the route, ahead of it by a ship task that has written it or a callback that has; both routes are each other's inverse |
| MailboxProofs!Kept, CounterAgrees, HistoryOfPair, FlagAgrees | KeptUnlessDisturbed, CounterCountsUnread, HistoryIsOfThePair, FlagMatchesScreen | MailboxInv, see below |
| RegistryProofs!Mutuality, NothingPending, Agreement, NothingLeftBehind | FriendshipIsMutual, NoRequestBetweenFriends, FriendsAgreed, DeletedLeavesNothing | MutualInv and RegistryInv, see below |
| GroupProofs!Agreement, Ownership, Counters | MembershipAgrees, GroupHasOwner, CounterCountsUnseen | MembersInv and CounterInv, see below |
| GroupProofs!Served | WaitIsServed | ServedInv: who waits is connected, and the task of his last request is of a kind that answers when it ends |
| ConnectionProofs!PointersValid, ReleasedOnce, AssertsHold | PlainPointersValid, ReleasedAfterOneDown, AssertsHoldUnlessForced | ConnInv, see below |
| RuntimeProofs!TypeCorrect, NeverSleepsOverWork | NoSleepOverWork | LoopInv: pending functors imply a written eventfd, a thread about to write it, or a loop that is past poll; while functors run the flag is set |
| RuntimeProofs!ImplementsTaskQueue | FifoOnce | each step is Put, Start or a stutter of TaskQueue under `queue <- functors \o pendingFunctors_` |
| RuntimeProofs!PoolTypeCorrect, NothingLeft | DrainedWhenDone | PoolInv: a nonempty queue has a worker that has not left |
| RuntimeProofs!NoLostWakeup | NoTaskBesideSleeper | the property itself, with lemmas about the cardinality of the wait set |
| RuntimeProofs!PoolImplementsTaskQueue | safety part of StartsInOrder | as for EventLoop |
| RuntimeProofs!MoveHasRoom | the assertion of Buffer.cc:122 cannot fail | none, it is about one call |
| RuntimeProofs!MakeSpaceKeepsContent, AppendAppends, ReadFdAppends, RetrieveDrops | each operation does to the readable bytes what its name says, and keeps IsBuffer | none |
| RuntimeProofs!MessagesComeOut, NothingLost | ReceivedIsPrefixOfSent, RestInFlight | StreamInv: both properties, with the types, well-formed buffers and an input buffer that is empty between reads; see below |
| ClientProofs!ConnectorsAgree | ChannelMatchesState | ConInv: also the values' types, and that a connector is as constructed until `connect` is called |
| ClientProofs!ReaderIsWoken | ReaderWakes, the half of NoLostWakeup that is about the chat's reader | ReaderInv: what the reader waits for becomes true after its test only with a notification; a cached message has its reminder, or a task about to set it |
| ClientProofs!OneMenuShown | OneMenu | LogonInv, see below |
| ClientProofs!NobodySleepsOn | NoLostWakeup | LogonInv and ReaderInv |
| ClientProofs!WaitersAreAnswered | WaitIsAnswered | LogonInv and ServedInv, see below |
| TransferProofs!TypeCorrect | types, references and message order of Transfer | Typed: TypeOK, Shape, OrderInv, SpaceInv, see below |
| TransferProofs!NobodyWaits | WaitHasCause | WaitIInv, see below |
| TransferProofs!FilesStayWhole | FilesIntact | TransferInv, see below |

RoutesAreProved is not inductive by itself: a route is added by a task which relies on the client having
reached its user screen, which relies on the task that granted the login. ProvedInv names the three links. That the word "null" gets nobody past
the password of an account that was never deleted depends on there being no hash without a password: who may write `mystate` was
granted a login, and so its user has a password or was deleted (`Known`, and StatesKnown for the hash); `Admitted` carries both
from the login's round trips to the ships and the disconnect callback.
For EventLoop the property speaks of `poll` only, but whether the eventfd will be written before the next `poll` is
decided earlier, in the code that reads `callingPendingFunctors_`; LoopInv says what holds there.
For the reader the property speaks of the sleep, but a notification can be missed only between the test and the sleep, so ReaderInv speaks of both.

*Mailbox.* A box at rest is right because while nothing disturbs it at most one task is changing it, and what the box
holds is determined by the step that task is at: MailboxInv has, per step, the range of indices that are filled and what the task
has yet to write (`Exclusive`), and says of each message sent that it is in the history, stored, or carried by a task (`AllPresent`). That a counter
never reaches the last index needs `Bound`: it is no greater than the number of messages whose store has been counted. `Locking` says that `storeMtx` is held
by exactly the task between its lock and its unlock, `Apart` that tasks at work on one box are either noted in `disturbed` or one.
For the flag at most one CHAT or ENDCHAT of an unhurried box is there, and it determines the flag and its owner's screen (`FlagInv`).

*Registry.* Two tasks of a pair that overlap are noted (`Apart`), so for other pairs what a task has tested is still so when it writes:
a record that is there on one side only belongs to an acceptance or a deletion that is halfway (`WholeInv`, which gives Mutuality). RegistryInv
adds that a pending request is between strangers and was asked, and that friends have agreed, for pairs in neither `torn` nor `crossed`. For those that are
not in `met` either it says where the messages are: each unread one is below the counter, or about to be counted by the task that holds the lock, or about to
be fetched by the CHAT that has reset the counter (`Counted`, `Covers`); each index below the counter has its message, unless a DELFRIEND is about to
write what it has deleted (`Dense`); and a CHAT finds every message it has still to fetch (`Counting`). The two parts are proved with one
invariant, CleanInv, whose last argument is the set of pairs of which the second says nothing: `met`, or in a step its new value.

*Group.* Here a step is noted when it is made beside a task it could disturb (`Note`), so no statement about pairs of tasks is needed: when a step
goes unnoted, the other tasks at work are of kinds it agrees with (`Alone`). MembersInv then says that what each task has found out about the ranks and counters is
still so when it writes (`Holds`, `HoldsRank`), that a counter without a rank belongs to an acceptance between its two writes (`HalfIn`), and
that the group has one owner or nobody. A counter without a rank may also be that of a reader of the history: `/h` makes a ghost only of a user whom the group does not list,
and who is taken into the group or loses his counter is one no longer, so a member of earlier, ghost or not, is held to both records. CounterInv extends CounterCountsUnseen to the middle of a message: what is unseen is the counter plus the
number of messages that have noted the member and are still to count him (`Pend`, a cardinality, which is why the users and tasks must be finite), and the counter that
a message has read under the lock is still the stored one (`Fresh`). A visit or a departure touches a counter only when no message is
about to count it, or its user is noted as uncounted.

*Connection.* ConnInv is, for each connection, the order in which the two queues are worked off: a `kConnecting` connection has `connectEstablished` queued and
nothing else; one that is registered with the poller is `kConnected` or `kDisconnecting`, and in `kDisconnecting` a `handleClose` is queued or
the idle functor that made it so is still at work; the disconnect callbacks that ran are as many as removals are done or pending, one while no functor
of an idle monitor has run; a connection that the server has removed is destroyed or has `connectDestroyed` queued; a queued `shutdown` has a holder of the connection behind it in
the queue, which is what keeps its plain pointer valid. The handlers' maps are in none of this: no property about destruction relies on them, and a
pointer held for ever can only keep an object longer.

*Stream.* ReceivedIsPrefixOfSent alone is not inductive: what the splitter finds depends on the bytes in the buffers and in the socket, and RestInFlight says what
these are: the splitter's remainder, the socket and the output buffer together are the frames of the messages not yet received. Sending adds a frame
to both sides; writing moves bytes within the left side; reading takes from it the messages that the splitter finds. That these are the ones at
the front of the right side is the lemma CutsFindMessages: wherever the socket has cut the bytes, the splitter finds whole frames only (FirstMessage), because the digits of a header
read back as the length they were made of (LengthOfHeader), and stops at the first that is incomplete. Power, Length, Cuts and the bytes in flight are
recursive functions, so these lemmas need induction over the numbers. The library's induction rules cannot be used here; the lemma Induction derives what is needed from its facts about finite sets:
if m were missing from a set with 0 and all successors, adding 1 would map the members below m one to one into those other than 0, which are one fewer.
That each recursive function exists (PowersExist, ValuesExist, CutsExist, FlightExists) is shown with it too.

*Client.* That one menu is shown depends on which answers can still come: LogonInv says that only the answer to the logon thread's one own `login` can start a
ui thread, that it does so while the thread waits with the word `WAIT`, and that no request goes out before the connection is up. While
no ui thread runs `uiStart` is set, except after a `deleteUser`, and the logon thread sleeps over it only if it missed the notification.
That no screen waits in vain speaks of screens that wait; whether an answer is in flight for them was decided when the thread left the last screen, so
ServedInv speaks of every place of an undisturbed thread. `Goes` is the set of words a place goes on with, read off the rows of the screens (the lemmas
RowsGoOn and ScreensGoOn compare rows, requests and answers one by one). `GoesOn`: the thread has such a word or is about to store it, or a
request of its own will bring one whichever answer it gets, or one of the other thread will (the answer to `login` starts the ui thread, that to
`delete` releases the logon thread). This is kept only because the requests a thread waits for all suit its place (`OwnSuits`), because the thread goes
on already where a request may be answered with nothing more (`NoneIsEnough`), and because a place that goes on only with the last part of an answer
has one such request, and no word to go on with before that part comes (`OneAtStrict`). `Shape` says which thread the parts of an answer
concern, also when some are handled already, and where a store may be pending; `Begins` speaks of a ui thread that is to be started or has not looked yet.

*Transfer.* Everything shared is right only for clients that were not taken for another, so each part of the invariant speaks of a transfer while its client is
not in `confused`, or not `Hit`; MixInv says that whoever works for another client, or is told his answers, is in `confused`. `Shape` says what refers to what,
OrderInv that a client's messages are read in the order in which he asked, also across threads, and SpaceInv that there are no more files than uploads that have opened one,
from which createFile's loop over names ends within the numbers there are. ControlInv ties the thread of a transfer to its socket and data connection: the port is told once,
the thread that told it is the one that accepts, and the connection is open while, and only while, the thread is at work or has sent everything. SocketInv says that the
socket is not bound before its own thread binds it, and listens from then on, so that nothing but a mix-up makes `bind` or `accept` fail. WaitInv extends WaitHasCause back to
the moment at which the port is told, since only then is it decided which socket will be accepted on; CloeInv says that without confusion a `cloe` is
in the inbox of a client whose own thread waits, so nobody reads it. For the files, NameInv keeps a file's name that of its request, `WritingOf` says of an upload under way that
what is on disk followed by what is in the stream is what the client has sent, that no other thread writes the file, and that `fileTimeMap` still has its name; `OverOf` that from the end of the
stream to the FILE record the file is whole and written by none, which includes that the client's `info` cannot be read before his `stor` is done; `DownloadOf` that a copy followed by what is in the
stream is a prefix of the file as long as what the thread has sent. A file that is opened a second time would break the latter two, which is why openFile counts as a confusion of
everybody who asked for its name.

The proofs assume only the named ASSUMEs: the null values (NoUser, NoConn, Nobody, None, Unknown) are not among the values they stand
beside, there are clients of the file server and one transfer at least, a task is none of them, `Messages` of Mailbox, `Users` of Group and `Workers` and `Callers` of ThreadPool are finite, there are workers, the byte 0 is a byte, and `ftp` and
`chat` are among the client's servers; for Stream, that bytes are digits to a base above 1, that headers, `extrabuf` and the socket hold at least a byte, and
that the length of a message fits into the header as a positive number (LengthsFit; encodeMessage does not test it, and a message of 2 GB would break it). They hold for any number of users, connections, monitors,
threads, functors, tasks, clients and files, any bounds on requests, messages and faults, any servers, any buffer, any sizes of header
and socket, and any way in which the socket divides the bytes.

**Model-checked only.** The liveness properties and the liveness part of the two refinements of TaskQueue (the prover has no rule for fairness here). Every
invariant that a passing run checks has its theorem.

## 5. Not modelled

Logging, time stamps, addresses and sockets (no state a property is about); TimerQueue (never created, EventLoop.cc:15); mail
codes and terminal modes; the read-only queries; password and name changes. Of `deleteUser` (redisCmd.cc:119-153) Session has what concerns the account;
that it takes the user out of his friends' records and his groups, dissolves the groups he owns, and leaves the messages stored for his friends
is not modelled: the users of Mailbox, Registry and Group stay registered. A task that sends on another user's connection (a message, a notice)
is, in Connection, one more holder of that connection. In Transfer the number of a socket that is closed by another thread between
`listen` and `getsockname` is not given to a new socket, so the port told is the one that was opened. Corruption of
standard maps by unsynchronised access has no outcome to enumerate; the modules take each map operation as atomic.
Sending that fails, and bytes after a negative header, are left out of Stream.
Of the client: what is printed, the heartbeat thread (it changes no state of the client; for the server it is one of the messages of Connection), the request to read a
private history (its screen waits for nothing), `stop` and `restart` of the connector (`stop` is followed by the end of the process; `restart` needs `retry_`, which
nobody sets) and the destructors. Of the file server: system calls that fail other than opening a file, and the size of chunks.
PROJECT.json lists every component with its status.

## 6. Plan

1. Done: Session, EventLoop, ThreadPool, Mailbox, Connection, Buffer, Stream, Registry, Group, Connector, Client, Transfer; runs and proofs above.
2. Done: a theorem for every invariant that a passing run checks. Left: no safety property; liveness needs rules the prover does not have.
3. Larger instances: three users in Registry and Group, three clients in Transfer, if the state spaces allow it.
