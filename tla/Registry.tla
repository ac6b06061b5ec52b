------------------------------ MODULE Registry ------------------------------
(***************************************************************************)
(* Friends, friend requests and the blacklist: the ADD, VERIFY, DELFRIEND, *)
(* BLACK and CHAT handlers of handleData.cc and the stored MESSAGE, with   *)
(* the redis operations they call.  A friendship is two records, one in    *)
(* "frie:<u>" and one in "frie:<v>"; every handler tests them in one redis *)
(* call and writes them in later ones, and other pool tasks run in between:*)
(* an action ends where a redis commit or a critical section ends.         *)
(*                                                                         *)
(* The record of a friend is also the counter of its unread messages.      *)
(* Which messages are filed as read is Mailbox's subject: here any may be, *)
(* or be stored.                                                           *)
(***************************************************************************)
EXTENDS Naturals, FiniteSets

CONSTANTS
    Users,        \* registered users
    Unknown,      \* a name nobody registered
    None,         \* an absent field of a redis hash; no storing task
    MaxRequests,  \* bound: the requests of each user
    MaxWords,     \* bound: the messages of each user
    MaxFaults     \* bound: server restarts, and clients that do not wait

ASSUME ConstantsAssumption ==
    /\ Unknown \notin Users
    /\ None \notin Nat \cup (Users \X Nat)
    /\ MaxRequests \in [Users -> Nat]
    /\ MaxWords \in [Users -> Nat]
    /\ MaxFaults \in Nat

VARIABLES
    frie,      \* redis: counter of <<owner, friend>>, or None
    mess,      \* redis: <<u, v>>: "mess:user:<u>" holds a request of v
    blak,      \* redis: <<u, v>>: u has v on the blacklist
    offl,      \* redis: <<owner, from, i>>: the unread message at index i
    hist,      \* redis: the pairs of users that have a history
    storeMtx,  \* the task that holds storeMtx, as <<from, id>>, or None
    screen,    \* each client: "menu", "wait" or "chat", and the peer
    requests,  \* requests each client has sent
    words,     \* messages each client has sent
    faults,    \* restarts, and clients gone without their answer
    tasks,     \* pool tasks
    consent,   \* history: <<u, v>>: u has asked or accepted v since they
               \* last stopped being friends
    torn,      \* history: pairs of which a DELFRIEND overlapped another
               \* task, a restart cut a task off, or strangers wrote
    crossed,   \* history: pairs of which two requests or answers overlapped
    met        \* history: pairs of which a CHAT overlapped a message or a CHAT

vars == <<frie, mess, blak, offl, hist, storeMtx, screen, requests, words,
          faults, tasks, consent, torn, crossed, met>>
history == <<torn, crossed, met>>
redis == <<frie, mess, blak, offl, hist>>
clients == <<screen, requests, words, faults>>

Names == Users \cup {Unknown}
Boxes == {b \in Users \X Users : b[1] # b[2]}          \* <<owner, other>>
Swap(b) == <<b[2], b[1]>>
PairOf(b) == {b[1], b[2]}
Pairs == {PairOf(b) : b \in Boxes}
Unread(b) == {o \in offl : <<o[1], o[2]>> = b}
IsFriend(b) == b \in Boxes /\ frie[b] # None           \* redisCmd::isfriend

\* Some pairs are friends already, for whatever they have done before.
Init ==
    /\ \E friends \in SUBSET Pairs :
          /\ frie = [b \in Boxes |-> IF PairOf(b) \in friends THEN 0 ELSE None]
          /\ consent = {b \in Boxes : PairOf(b) \in friends}
    /\ mess = {} /\ blak = {} /\ offl = {} /\ hist = {}
    /\ storeMtx = None
    /\ screen = [u \in Users |-> <<"menu", Unknown>>]
    /\ requests = [u \in Users |-> 0]
    /\ words = [u \in Users |-> 0]
    /\ faults = 0
    /\ tasks = {}
    /\ torn = {} /\ crossed = {} /\ met = {}

----------------------------------------------------------------------------
(***************************************************************************)
(* Clients: a menu sends one request and waits for its answer.  The client *)
(* never names itself.                                                     *)
(***************************************************************************)
Request(u, op, v) ==
    /\ screen[u][1] = "menu"
    /\ u # v
    /\ requests[u] < MaxRequests[u]
    /\ requests' = [requests EXCEPT ![u] = @ + 1]
    /\ screen' = [screen EXCEPT ![u] = <<"wait", v>>]
    /\ tasks' = tasks \cup {[op |-> op, box |-> <<u, v>>, id |-> requests[u],
                             n |-> 0, i |-> 0, step |-> "begin"]}
    /\ consent' = IF op \in {"add", "yes"} THEN consent \cup {<<u, v>>}
                                           ELSE consent
    /\ UNCHANGED <<redis, storeMtx, words, faults, history>>

\* Only ADD tests whether the name is registered; for the others a name nobody
\* has is one more name that is no friend.
addFriend(u, v) == Request(u, "add", v)
handleCmd(u, v) == \E answer \in {"yes", "no"} : Request(u, answer, v)
managerFriend(u, v) == \E op \in {"delete", "black", "unblack"} :
                           Request(u, op, v)
seeFriend(u, v) == Request(u, "chat", v)

\* A message to the peer; nothing tests that the peer is a friend.
Say(u) ==
    /\ screen[u][1] = "chat"
    /\ words[u] < MaxWords[u]
    /\ words' = [words EXCEPT ![u] = @ + 1]
    /\ LET v == screen[u][2] IN
          tasks' = tasks \cup
              {[op |-> "message", box |-> <<v, u>>, id |-> words[u], n |-> 0,
                step |-> "begin",
                friends |-> IsFriend(<<u, v>>) /\ IsFriend(<<v, u>>)]}
    /\ UNCHANGED <<redis, storeMtx, screen, requests, faults, consent, history>>

Leave(u) ==
    /\ screen[u][1] = "chat"
    /\ screen' = [screen EXCEPT ![u] = <<"menu", Unknown>>]
    /\ UNCHANGED <<redis, storeMtx, requests, words, faults, tasks, consent,
                   history>>

\* A client goes away while it waits, and comes back; its tasks go on.
Drop(u) ==
    /\ screen[u][1] = "wait"
    /\ faults < MaxFaults
    /\ faults' = faults + 1
    /\ screen' = [screen EXCEPT ![u] = <<"menu", Unknown>>]
    /\ UNCHANGED <<redis, storeMtx, requests, words, tasks, consent, history>>

\* The server process dies and comes back with redis as it was.
Restart ==
    /\ faults < MaxFaults
    /\ faults' = faults + 1
    /\ tasks' = {}
    /\ storeMtx' = None
    /\ screen' = [u \in Users |-> <<"menu", Unknown>>]
    /\ torn' = torn \cup {PairOf(t.box) : t \in tasks}
    /\ UNCHANGED <<redis, requests, words, consent, crossed, met>>

----------------------------------------------------------------------------
Client(t) == IF t.op = "message" THEN t.box[2] ELSE t.box[1]
At(t, ops, step) == t.op \in ops /\ t.step = step
Replace(t, r) == tasks' = (tasks \ {t}) \cup {r}
Goto(t, step) == Replace(t, [t EXCEPT !.step = step])
Done(t) == tasks' = tasks \ {t}

\* Tasks that are past their first step and concern the pair of t.
Beside(t) == {s \in tasks \ {t} : /\ s.step # "begin"
                                  /\ PairOf(s.box) = PairOf(t.box)}

\* What t does now overlaps another task, or writes for strangers.
Note(t) ==
    /\ torn' = IF \/ \E s \in Beside(t) :
                        /\ "delete" \in {s.op, t.op}
                        /\ {s.op, t.op} \subseteq
                              {"add", "yes", "delete", "chat", "message"}
                  \/ /\ t.op = "message" /\ t.step \in {"read", "offl", "incr"}
                     /\ ~IsFriend(t.box)
               THEN torn \cup {PairOf(t.box)} ELSE torn
    /\ crossed' = IF \E s \in Beside(t) : {s.op, t.op} \subseteq {"add", "yes"}
                  THEN crossed \cup {PairOf(t.box)} ELSE crossed
    /\ met' = IF \E s \in Beside(t) : /\ "chat" \in {s.op, t.op}
                                      /\ {s.op, t.op} \subseteq {"chat", "message"}
              THEN met \cup {PairOf(t.box)} ELSE met

\* The answer reaches the client if it still waits for it.
Answer(t) ==
    /\ Done(t)
    /\ screen' = IF /\ screen[t.box[1]] = <<"wait", t.box[2]>>
                    /\ requests[t.box[1]] = t.id + 1
                 THEN [screen EXCEPT ![t.box[1]] =
                          IF t.op = "chat" /\ t.step = "reply"
                          THEN <<"chat", t.box[2]>> ELSE <<"menu", Unknown>>]
                 ELSE screen
    /\ UNCHANGED <<requests, words, faults>>

\* Without an answer.
GoOn(t, step) == Goto(t, step) /\ UNCHANGED clients

\* The pool drops a task that throws; nobody answers.
Throw(t) == Done(t) /\ UNCHANGED clients

\* One hset of "0" on a record.
Grant(b) == frie' = [frie EXCEPT ![b] = 0]

----------------------------------------------------------------------------
(***************************************************************************)
(* ADD: handleData::addAll for "frie:".                                    *)
(***************************************************************************)

AddIsAccount(t) ==
    /\ At(t, {"add"}, "begin")
    /\ IF t.box[2] \in Users THEN GoOn(t, "mine") ELSE Answer(t)
    /\ Note(t)
    /\ UNCHANGED <<redis, storeMtx, consent>>

\* isfriend both ways, the second only if the first holds.
AddIsFriend(t) ==
    /\ \/ At(t, {"add"}, "mine") /\ GoOn(t, IF IsFriend(t.box) THEN "theirs"
                                            ELSE "look")
       \/ /\ At(t, {"add"}, "theirs")
          /\ IF IsFriend(Swap(t.box)) THEN Answer(t) ELSE GoOn(t, "look")
    /\ Note(t)
    /\ UNCHANGED <<redis, storeMtx, consent>>

\* lookmess: has the other asked already?
AddLook(t) ==
    /\ At(t, {"add"}, "look")
    /\ GoOn(t, IF t.box \in mess THEN "other" ELSE "push")
    /\ Note(t)
    /\ UNCHANGED <<redis, storeMtx, consent>>

\* waitHandleMeg: the request goes to the other's list.
AddPush(t) ==
    /\ At(t, {"add"}, "push")
    /\ mess' = mess \cup {Swap(t.box)}
    /\ Answer(t)
    /\ Note(t)
    /\ UNCHANGED <<frie, blak, offl, hist, storeMtx, consent>>

(***************************************************************************)
(* VERIFY: redisCmd::verifyUser for "addfriend".                           *)
(***************************************************************************)

\* Mutant: any request will do.
VerifyFindAny(t) ==
    /\ At(t, {"yes", "no"}, "begin")
    /\ IF t.box[2] \in Users
       THEN GoOn(t, IF t.op = "yes" THEN "own" ELSE "lrem")
       ELSE Answer(t)
    /\ Note(t)
    /\ UNCHANGED <<redis, storeMtx, consent>>

\* Mutant: a request that is not there goes without an answer.
VerifyFindSilent(t) ==
    /\ At(t, {"yes", "no"}, "begin")
    /\ IF t.box \in mess
       THEN GoOn(t, IF t.op = "yes" THEN "own" ELSE "lrem")
       ELSE Throw(t)
    /\ Note(t)
    /\ UNCHANGED <<redis, storeMtx, consent>>

VerifyFind(t) ==
    /\ At(t, {"yes", "no"}, "begin")
    /\ IF t.box \in mess
       THEN GoOn(t, IF t.op = "yes" THEN "own" ELSE "lrem")
       ELSE Answer(t)
    /\ Note(t)
    /\ UNCHANGED <<redis, storeMtx, consent>>

\* The two records: lookmess writes the other's first, verifyUser one's own.
GrantOwn(t) ==
    /\ At(t, {"add", "yes"}, "own")
    /\ Grant(t.box)
    /\ GoOn(t, IF t.op = "add" THEN "lrem" ELSE "other")
    /\ Note(t)
    /\ UNCHANGED <<mess, blak, offl, hist, storeMtx, consent>>

\* Mutant: only the first record is written.
GrantOtherNot(t) ==
    /\ At(t, {"add", "yes"}, "other")
    /\ GoOn(t, IF t.op = "add" THEN "own" ELSE "lrem")
    /\ Note(t)
    /\ UNCHANGED <<redis, storeMtx, consent>>

GrantOther(t) ==
    /\ At(t, {"add", "yes"}, "other")
    /\ Grant(Swap(t.box))
    /\ GoOn(t, IF t.op = "add" THEN "own" ELSE "lrem")
    /\ Note(t)
    /\ UNCHANGED <<mess, blak, offl, hist, storeMtx, consent>>

\* Mutant: the request stays in the list.
LremNot(t) ==
    /\ At(t, {"add", "yes", "no"}, "lrem")
    /\ Answer(t)
    /\ Note(t)
    /\ UNCHANGED <<redis, storeMtx, consent>>

\* lrem with count 0 takes all equal requests out of the list.
Lrem(t) ==
    /\ At(t, {"add", "yes", "no"}, "lrem")
    /\ mess' = mess \ {t.box}
    /\ Answer(t)
    /\ Note(t)
    /\ UNCHANGED <<frie, blak, offl, hist, storeMtx, consent>>

----------------------------------------------------------------------------
(***************************************************************************)
(* DELFRIEND: handleData::deleteEnd, redisCmd::delFriend.                  *)
(***************************************************************************)
DeleteCheck(t) ==
    /\ At(t, {"delete"}, "begin")
    /\ IF IsFriend(t.box) THEN GoOn(t, "hist") ELSE Answer(t)
    /\ Note(t)
    /\ UNCHANGED <<redis, storeMtx, consent>>

DeleteHistory(t) ==
    /\ At(t, {"delete"}, "hist")
    /\ hist' = hist \ {PairOf(t.box)}
    /\ GoOn(t, "count1")
    /\ Note(t)
    /\ UNCHANGED <<frie, mess, blak, offl, storeMtx, consent>>

\* The counters of both sides; the messages below one's own are deleted with
\* the next commit.  stoi of an absent counter throws.
DeleteCount(t) ==
    /\ \/ /\ At(t, {"delete"}, "count1")
          /\ IF IsFriend(t.box)
             THEN /\ Replace(t, [t EXCEPT !.step = "count2", !.n = frie[t.box]])
                  /\ UNCHANGED clients
             ELSE Throw(t)
          /\ UNCHANGED offl
       \/ /\ At(t, {"delete"}, "count2")
          /\ offl' = offl \ {o \in Unread(t.box) : o[3] < t.n}
          /\ IF IsFriend(Swap(t.box))
             THEN /\ Replace(t, [t EXCEPT !.step = "records",
                                          !.n = frie[Swap(t.box)]])
                  /\ UNCHANGED clients
             ELSE Throw(t)
    /\ Note(t)
    /\ UNCHANGED <<frie, mess, blak, hist, storeMtx, consent>>

\* What either asked before no longer counts, unless it is still to come.
Parted(t) == consent' = consent \ ({t.box, Swap(t.box)} \
                 {s.box : s \in {r \in tasks : r.op \in {"add", "yes"}}})

Unfriended(t) == [frie EXCEPT ![t.box] = None, ![Swap(t.box)] = None]

\* Mutant: the messages the other has not read stay.
DeleteKeepsUnread(t) ==
    /\ At(t, {"delete"}, "records")
    /\ frie' = Unfriended(t)
    /\ Parted(t)
    /\ Answer(t)
    /\ Note(t)
    /\ UNCHANGED <<mess, blak, offl, hist, storeMtx>>

\* The other's messages and both records, with one commit.
DeleteRecords(t) ==
    /\ At(t, {"delete"}, "records")
    /\ frie' = Unfriended(t)
    /\ offl' = offl \ {o \in Unread(Swap(t.box)) : o[3] < t.n}
    /\ Parted(t)
    /\ Answer(t)
    /\ Note(t)
    /\ UNCHANGED <<mess, blak, hist, storeMtx>>

(***************************************************************************)
(* BLACK: handleData::balckName.  Friendship is tested one way; taking a   *)
(* name off the list tests the list.                                       *)
(***************************************************************************)
BlackCheck(t) ==
    /\ At(t, {"black", "unblack"}, "begin")
    /\ IF IF t.op = "black" THEN IsFriend(t.box) ELSE t.box \in blak
       THEN GoOn(t, "write") ELSE Answer(t)
    /\ Note(t)
    /\ UNCHANGED <<redis, storeMtx, consent>>

BlackWrite(t) ==
    /\ At(t, {"black", "unblack"}, "write")
    /\ blak' = IF t.op = "black" THEN blak \cup {t.box} ELSE blak \ {t.box}
    /\ Answer(t)
    /\ Note(t)
    /\ UNCHANGED <<frie, mess, offl, hist, storeMtx, consent>>

----------------------------------------------------------------------------
(***************************************************************************)
(* CHAT: the friend test of sendOfflineMeg, the counter, its reset, and the*)
(* messages below it one by one.  The reset writes the record although the *)
(* friend may be gone; as_string of a message that is absent throws.       *)
(***************************************************************************)
ChatCheck(t) ==
    /\ At(t, {"chat"}, "begin")
    /\ IF IsFriend(t.box) THEN GoOn(t, "take") ELSE Answer(t)
    /\ Note(t)
    /\ UNCHANGED <<redis, storeMtx, consent>>

\* getRedisCount reads twice: an absent counter is 0, one that has gone
\* between the reads throws.
ChatTake(t) ==
    /\ \/ At(t, {"chat"}, "take") /\ GoOn(t, IF IsFriend(t.box) THEN "stoi"
                                             ELSE "reset")
       \/ /\ At(t, {"chat"}, "stoi")
          /\ IF IsFriend(t.box)
             THEN /\ Replace(t, [t EXCEPT !.step = "reset", !.n = frie[t.box]])
                  /\ UNCHANGED clients
             ELSE Throw(t)
    /\ Note(t)
    /\ UNCHANGED <<redis, storeMtx, consent>>

ChatReset(t) ==
    /\ At(t, {"chat"}, "reset")
    /\ Grant(t.box)
    /\ GoOn(t, IF t.n = 0 THEN "own" ELSE "fetch")
    /\ Note(t)
    /\ UNCHANGED <<mess, blak, offl, hist, storeMtx, consent>>

Message(b, i) == <<b[1], b[2], i>>

ChatFetch(t) ==
    /\ At(t, {"chat"}, "fetch")
    /\ IF Message(t.box, t.i) \in offl THEN GoOn(t, "push") ELSE Throw(t)
    /\ Note(t)
    /\ UNCHANGED <<redis, storeMtx, consent>>

ChatPush(t) ==
    /\ At(t, {"chat"}, "push")
    /\ hist' = hist \cup {PairOf(t.box)}
    /\ GoOn(t, "hdel")
    /\ Note(t)
    /\ UNCHANGED <<frie, mess, blak, offl, storeMtx, consent>>

ChatHdel(t) ==
    /\ At(t, {"chat"}, "hdel")
    /\ offl' = offl \ {Message(t.box, t.i)}
    /\ Replace(t, [t EXCEPT !.i = t.i + 1,
                            !.step = IF t.i + 1 = t.n THEN "own" ELSE "fetch"])
    /\ Note(t)
    /\ UNCHANGED <<frie, mess, blak, hist, clients, storeMtx, consent>>

\* sendHisOffineMeg: the counter of the other's box, and its messages, which
\* stay.
ChatOwn(t) ==
    /\ \/ At(t, {"chat"}, "own") /\ GoOn(t, IF IsFriend(Swap(t.box))
                                            THEN "ownstoi" ELSE "reply")
       \/ /\ At(t, {"chat"}, "ownstoi")
          /\ IF IsFriend(Swap(t.box))
             THEN LET n == frie[Swap(t.box)] IN
                  /\ Replace(t, [t EXCEPT !.n = n, !.i = 0, !.step =
                                    IF n = 0 THEN "reply" ELSE "ownread"])
                  /\ UNCHANGED clients
             ELSE Throw(t)
    /\ Note(t)
    /\ UNCHANGED <<redis, storeMtx, consent>>

ChatOwnRead(t) ==
    /\ At(t, {"chat"}, "ownread")
    /\ IF Message(Swap(t.box), t.i) \in offl
       THEN /\ Replace(t, [t EXCEPT !.i = t.i + 1, !.step =
                              IF t.i + 1 = t.n THEN "reply" ELSE "ownread"])
            /\ UNCHANGED clients
       ELSE Throw(t)
    /\ Note(t)
    /\ UNCHANGED <<redis, storeMtx, consent>>

ChatReply(t) ==
    /\ At(t, {"chat"}, "reply")
    /\ Answer(t)
    /\ Note(t)
    /\ UNCHANGED <<redis, storeMtx, consent>>

(***************************************************************************)
(* MESSAGE: refused by the blacklist, else filed as read (storeReadMeg) or *)
(* stored (storeMessages).                                                 *)
(***************************************************************************)
MessageBlack(t) ==
    /\ At(t, {"message"}, "begin")
    /\ IF t.box \in blak THEN Throw(t)
       ELSE \E step \in {"read", "lock"} : GoOn(t, step)
    /\ Note(t)
    /\ UNCHANGED <<redis, storeMtx, consent>>

MessageRead(t) ==
    /\ At(t, {"message"}, "read")
    /\ hist' = hist \cup {PairOf(t.box)}
    /\ Throw(t)
    /\ Note(t)
    /\ UNCHANGED <<frie, mess, blak, offl, storeMtx, consent>>

\* getRedisCount reads the counter under storeMtx: an absent one counts 0 ...
StoreCount(t) ==
    /\ At(t, {"message"}, "lock")
    /\ storeMtx = None
    /\ storeMtx' = <<t.box[2], t.id>>
    /\ GoOn(t, IF IsFriend(t.box) THEN "stoi" ELSE "offl")
    /\ Note(t)
    /\ UNCHANGED <<redis, consent>>

\* ... one that is there is read once more, and as_string of one that has
\* gone since throws ...
StoreStoi(t) ==
    /\ At(t, {"message"}, "stoi")
    /\ IF IsFriend(t.box)
       THEN /\ Replace(t, [t EXCEPT !.step = "offl", !.n = frie[t.box]])
            /\ UNCHANGED <<clients, storeMtx>>
       ELSE Throw(t) /\ storeMtx' = None
    /\ Note(t)
    /\ UNCHANGED <<redis, consent>>

\* ... then the message and the next count are written.
StoreOffl(t) ==
    /\ At(t, {"message"}, "offl")
    /\ offl' = offl \cup {<<t.box[1], t.box[2], t.n>>}
    /\ GoOn(t, "incr")
    /\ Note(t)
    /\ UNCHANGED <<frie, mess, blak, hist, storeMtx, consent>>

StoreIncr(t) ==
    /\ At(t, {"message"}, "incr")
    /\ frie' = [frie EXCEPT ![t.box] = t.n + 1]
    /\ storeMtx' = None
    /\ Throw(t)
    /\ Note(t)
    /\ UNCHANGED <<mess, blak, offl, hist, consent>>

----------------------------------------------------------------------------
ClientStep(u) ==
    \/ \E v \in Names : addFriend(u, v)
    \/ \E v \in Users : handleCmd(u, v) \/ managerFriend(u, v) \/ seeFriend(u, v)
    \/ Say(u) \/ Leave(u) \/ Drop(u)

TaskStep(t) ==
    \/ AddIsAccount(t) \/ AddIsFriend(t) \/ AddLook(t) \/ AddPush(t)
    \/ VerifyFind(t) \/ GrantOwn(t) \/ GrantOther(t) \/ Lrem(t)
    \/ DeleteCheck(t) \/ DeleteHistory(t) \/ DeleteCount(t)
    \/ DeleteRecords(t)
    \/ BlackCheck(t) \/ BlackWrite(t)
    \/ ChatCheck(t) \/ ChatTake(t) \/ ChatReset(t) \/ ChatFetch(t)
    \/ ChatPush(t) \/ ChatHdel(t) \/ ChatOwn(t) \/ ChatOwnRead(t)
    \/ ChatReply(t)
    \/ MessageBlack(t) \/ MessageRead(t)
    \/ StoreCount(t) \/ StoreStoi(t) \/ StoreOffl(t) \/ StoreIncr(t)

Next ==
    \/ \E u \in Users : ClientStep(u)
    \/ \E t \in tasks : TaskStep(t)
    \/ Restart

\* Redis answers, so the tasks that handle requests of u go on.
Serve(u) == \E t \in tasks : t.op # "message" /\ t.box[1] = u /\ TaskStep(t)
Spec == Init /\ [][Next]_vars /\ \A u \in Users : WF_vars(Serve(u))

----------------------------------------------------------------------------
Settled(b) == \A t \in tasks : PairOf(t.box) # PairOf(b)
Undisturbed(b) == Settled(b) /\ PairOf(b) \notin torn

\* Friendship is mutual at rest: the handlers write its two records in two
\* redis calls, and requests, answers, CHATs and messages may overlap each
\* other in any way (crossing requests included), as long as no DELFRIEND
\* overlaps them and no restart cuts one off.
FriendshipIsMutual ==
    \A b \in Boxes : Undisturbed(b) => (IsFriend(b) <=> IsFriend(Swap(b)))

\* A request ends with the friendship it asks for: between friends none is
\* pending, so none can later undo a DELFRIEND, unless requests or answers
\* of the two overlapped.  Chats and messages may overlap in any way.
NoRequestBetweenFriends ==
    \A b \in Boxes : Undisturbed(b) /\ PairOf(b) \notin crossed =>
        ~(IsFriend(b) /\ b \in mess)

\* Friends have both asked or accepted since either last deleted the other.
FriendsAgreed ==
    \A b \in Boxes : Undisturbed(b) /\ PairOf(b) \notin crossed =>
        (IsFriend(b) => b \in consent /\ Swap(b) \in consent)

\* DELFRIEND leaves nothing of the friendship: between users that are not
\* friends there is no unread message and no history, unless a counter was
\* reset while a message was being counted (by a CHAT, or by the second of
\* two crossing acceptances) and no longer covers what is stored.
DeletedLeavesNothing ==
    \A b \in Boxes :
        Undisturbed(b) /\ PairOf(b) \notin crossed \cup met /\ ~IsFriend(b) =>
            Unread(b) = {} /\ PairOf(b) \notin hist

\* u waits for an answer about a friend of whom none of that happened.
Waits(u) ==
    \E v \in Names : screen[u] = <<"wait", v>> /\ {u, v} \notin torn \cup met

\* A client that waits is answered, whatever name it gave, unless a handler
\* threw: over a friendship that is half deleted, or because a CHAT of the two
\* that overlapped a message or a CHAT left its counter and messages at odds.
AnsweredUnlessOverlapped == \A u \in Users : Waits(u) ~> ~Waits(u)

----------------------------------------------------------------------------
\* README.md:20: users that are not friends cannot chat.  Only a message sent
\* between friends is filed.
StrangersSilent ==
    \A t \in tasks : t.op = "message" /\ t.step \in {"read", "offl"} =>
        t.friends
============================================================================
