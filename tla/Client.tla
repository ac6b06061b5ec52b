------------------------------- MODULE Client -------------------------------
(***************************************************************************)
(* The client program: the logon thread, the ui thread of who is logged in,*)
(* the pool tasks that handle answers, and the thread that prints a chat.  *)
(*                                                                         *)
(* A screen sends a request, stores into the thread's status word the value*)
(* it waits with, and then reads the word in a loop until an answer has    *)
(* stored the value the screen goes on with.  The sends, the stores and    *)
(* the reads are not synchronised with the tasks that store the answers,   *)
(* and those run in any order (client.cc posts each batch of messages to   *)
(* a pool), so an answer may be handled before the screen's own store      *)
(* ("early"), after the screen has moved on ("stray") or before an earlier *)
(* part of the same answer ("reordered").                                  *)
(*                                                                         *)
(* A screen is a set of rows: having read `on` (or anything, Prompt), it   *)
(* stores `pre`, sends the requests `ask`, then in a step of its own       *)
(* stores `post`, and goes to the screen `to`.                             *)
(***************************************************************************)
EXTENDS Connector, Sequences, SequencesExt

CONSTANTS MaxInFlight,   \* bound: requests without their whole answer
          MaxRequests    \* bound: requests sent and messages that arrive

ASSUME ClientAssumption == {"ftp", "chat"} \subseteq Servers

Threads == {"logon", "ui"}
Keep == "keep"         \* nothing is stored
Prompt == "prompt"     \* asks the user without reading the word

VARIABLES
    word,       \* Type::currentState_ ("logon") and currentUserState_ ("ui")
    scr,        \* the screen of each thread
    seen,       \* the word the screen has read and acts on, or "none"
    post,       \* the store the thread has still to make, or Keep
    inflight,   \* requests: of whom, what may be left of the answer, and
                \* whether the thread still waits for it
    budget,     \* what is left of MaxRequests
    uiStart,
    chat,       \* the open chat's screen, or "none"
    reader,     \* where recvThread of the open chat is
    chatting,
    reminder,   \* messageReminder and gmessageReminder, by chat screen
    cached,     \* groupMegManager_ holds a message of the open group
    pushing,    \* a task has pushed a message and not yet set the reminder
    missed,     \* history: threads whose last notification found them
                \* between the test of the condition and the sleep
    disturbed,  \* history: threads an answer came early, late, out of
                \* order or refusing for, since their menu
    deleted     \* history: the account was deleted, which notifies nobody

clientVars == <<word, scr, seen, post, inflight, budget, uiStart, chat,
                reader, chatting, reminder, cached, pushing, missed, disturbed, deleted>>
vars == <<conVars, clientVars>>

\* A table of screens or of answers: the entries under each name.
at(name, entries) == {name} \X entries
Table(rows) == [name \in {r[1] : r \in rows} |->
                   {r[2] : r \in {p \in rows : p[1] = name}}]

-----------------------------------------------------------------------------
(* What the server answers: the stores of the parts of each possible answer.*)

\* "info" is the INFORMATION message, "email" the one that names the address.
AccountAnswers ==
    at("login", {<<"UEXECUTE", "info">>, <<"EXECUTE">>}) \cup
    at("register", {<<"EXECUTE">>}) \cup
    at("code", {<<"RETURNS">>, <<"WAIT">>}) \cup
    at("email", {<<"email">>, <<"RETURNS">>}) \cup
    at("verify", {<<"EXECUTE">>, <<"RETURNS">>}) \cup
    at("test", {<<"RETURNS">>, <<"EXECUTE">>}) \cup
    at("revise", {<<"UEXECUTE">>}) \cup
    at("delete", {<<"EXECUTE">>})

AddAnswers == at("add", {<<"UEXECUTE">>})

ViewAnswers ==
    at("messdata", {<<"URETURN">>}) \cup
    at("answer", {<<"UWAIT">>}) \cup
    at("see", {<<"URETURN">>})

ChatAnswers ==
    at("chat", {<<"UCHAT">>, <<"URETURN">>}) \cup
    at("cmd", {<<"USAT">>}) \cup
    at("offmeg", {<<"UEXECUTE">>, <<"UEXECUTE", "UEXECUTE">>})

MessageAnswers == at("message", {<<>>, <<"URETURN">>})

RemovalAnswers ==
    at("delfriend", {<<"URETURN">>}) \cup
    at("black", {<<"URETURN">>}) \cup
    at("unblack", {<<"USAT">>})

GroupAnswers ==
    at("creategroup", {<<"UEXECUTE">>}) \cup
    at("delgroup", {<<"UWAIT">>, <<"URETURN">>}) \cup
    at("delgroup1", {<<"URETURN">>}) \cup
    at("seegroup", {<<"URETURN">>}) \cup
    at("gchat", {<<"UCHAT">>, <<"URETURN">>}) \cup
    at("gmessage", {<<>>, <<"USAT">>})

FileAnswers ==
    at("list", {<<"URETURN">>, <<"UWAIT", "URETURN">>}) \cup
    at("look", {<<"URETURN">>, <<"USAT">>}) \cup
    at("history", {<<"USAT">>})

Answers ==
    Table(AccountAnswers \cup AddAnswers \cup ViewAnswers \cup ChatAnswers \cup
          MessageAnswers \cup RemovalAnswers \cup GroupAnswers \cup FileAnswers)

-----------------------------------------------------------------------------
(* The screens.                                                             *)

row(on, pre, ask, then, to) ==
    [on |-> on, pre |-> pre, ask |-> ask, post |-> then, to |-> to]

\* Mutant: the word is not stored before the request.
logonMenuNoWait ==
    at("logon", {row("EXECUTE", Keep, <<"login">>, Keep, "test"),
                 row("EXECUTE", "WAIT", <<>>, Keep, "Register"),
                 row("EXECUTE", "WAIT", <<"email">>, Keep, "getPassword"),
                 row("EXECUTE", Keep, <<>>, Keep, "test")})

logonMenu ==
    at("logon", {row("EXECUTE", "WAIT", <<"login">>, Keep, "test"),
                 row("EXECUTE", "WAIT", <<>>, Keep, "Register"),
                 row("EXECUTE", "WAIT", <<"email">>, Keep, "getPassword"),
                 row("EXECUTE", Keep, <<>>, Keep, "test")})

Register ==
    at("Register", {row("WAIT", Keep, <<>>, Keep, "Register"),
                    row("WAIT", Keep, <<"code">>, "EXECUTE", "Register"),
                    row("WAIT", "EXECUTE", <<>>, Keep, "test"),
                    row("RETURNS", Keep, <<"register">>, Keep, "test")})

getPassword ==
    at("getPassword", {row("EXECUTE", Keep, <<"verify">>, "WAIT", "getPassword"),
                       row("EXECUTE", Keep, <<"test">>, "WAIT", "getPassword"),
                       row("RETURNS", "EXECUTE", <<>>, Keep, "test")})

\* updataMessage, then the menu's prompt; "logout" and "delete" are actions.
uiMenu ==
    at("ui", {row("UEXECUTE", Keep, <<"offmeg">>, Keep, "selectFunc")}) \cup
    at("selectFunc", {row(Prompt, "USAT", <<>>, Keep, "seeFriend"),
                      row(Prompt, Keep, <<>>, Keep, "addFriend"),
                      row(Prompt, Keep, <<>>, Keep, "managerFriend"),
                      row(Prompt, Keep, <<>>, Keep, "joinGroup"),
                      row(Prompt, Keep, <<>>, Keep, "myGroup"),
                      row(Prompt, "UWAIT", <<>>, Keep, "managerGroup"),
                      row(Prompt, "UWAIT", <<>>, Keep, "viewInformation"),
                      row(Prompt, Keep, <<>>, Keep, "myinformation"),
                      row(Prompt, Keep, <<>>, Keep, "logout"),
                      row(Prompt, Keep, <<>>, Keep, "delete"),
                      row(Prompt, Keep, <<>>, Keep, "ui")})

myinformation ==
    at("myinformation", {row(Prompt, "UWAIT", <<"revise">>, Keep, "ui"),
                         row(Prompt, "UEXECUTE", <<>>, Keep, "ui"),
                         row(Prompt, "UWAIT", <<>>, Keep, "myinformation")})

\* "openChat" and "quitChat" are actions: recvThread starts and is joined.
seeFriend ==
    at("seeFriend", {row("USAT", Keep, <<"see">>, "UWAIT", "seeFriend"),
                     row("URETURN", "UEXECUTE", <<>>, Keep, "ui"),
                     row("URETURN", Keep, <<"chat">>, "UWAIT", "seeFriend"),
                     row("UCHAT", Keep, <<>>, Keep, "openChat")}) \cup
    at("chat", {row(Prompt, Keep, <<"message">>, Keep, "chat"),
                row(Prompt, "USAT", <<>>, Keep, "quitChat"),
                row(Prompt, Keep, <<>>, Keep, "files")})

\* Mutant: the answer that there is no such file is not waited for.
fileSystemFound(menu, listed, looked, then, back) ==
    at(menu, {row(Prompt, "UWAIT", <<"list">>, Keep, listed),
              row(Prompt, "UWAIT", <<"look">>, Keep, looked),
              row(Prompt, then, <<>>, Keep, back)}) \cup
    at(listed, {row("URETURN", Keep, <<>>, Keep, menu)}) \cup
    at(looked, {row("URETURN", Keep, <<>>, Keep, menu)})

\* The file menu of a chat; back with the store the caller makes.
fileSystem(menu, listed, looked, then, back) ==
    at(menu, {row(Prompt, "UWAIT", <<"list">>, Keep, listed),
              row(Prompt, "UWAIT", <<"look">>, Keep, looked),
              row(Prompt, then, <<>>, Keep, back)}) \cup
    at(listed, {row("URETURN", Keep, <<>>, Keep, menu)}) \cup
    at(looked, {row("URETURN", Keep, <<>>, Keep, menu),
                row("USAT", Keep, <<>>, Keep, menu)})

addFriend ==
    at("addFriend", {row("UEXECUTE", Keep, <<>>, Keep, "ui"),
                     row("UEXECUTE", Keep, <<"add">>, "UWAIT", "addFriend")})

\* To ask to be let in, or to invite a friend.
joinGroup ==
    at("joinGroup", {row("UEXECUTE", Keep, <<>>, Keep, "ui"),
                     row("UEXECUTE", Keep, <<"add">>, "UWAIT", "joinGroup")})

viewInformation ==
    at("viewInformation", {row("UWAIT", Keep, <<"messdata", "messdata">>, "USAT",
                               "viewInformation"),
                           row("URETURN", "UEXECUTE", <<>>, Keep, "ui")})

\* A command it can parse is sent, another one changes nothing.
handleCmd ==
    at("viewInformation", {row("URETURN", Keep, <<"answer">>, "USAT", "viewInformation"),
                           row("URETURN", Keep, <<>>, Keep, "viewInformation")})

\* Deleting and blocking take the same steps.
managerFriend ==
    at("managerFriend", {row(Prompt, Keep, <<"see">>, "UWAIT", "chosenFriend"),
                         row(Prompt, Keep, <<"see">>, Keep, "blackList"),
                         row(Prompt, "UEXECUTE", <<>>, Keep, "ui")}) \cup
    at("chosenFriend", {row("URETURN", Keep, <<>>, Keep, "managerFriend"),
                        row("URETURN", Keep, <<"delfriend">>, "UEXECUTE", "chosenFriend")}) \cup
    at("blackList", {row("USAT", Keep, <<"see">>, "UWAIT", "blackList"),
                     row("URETURN", Keep, <<>>, Keep, "managerFriend"),
                     row("URETURN", Keep, <<"unblack">>, "UWAIT", "blackList")})

managerGroup ==
    at("managerGroup", {row(Prompt, "UEXECUTE", <<>>, Keep, "ui"),
                        row(Prompt, Keep, <<"creategroup">>, "UWAIT", "managerGroup"),
                        row(Prompt, Keep, <<"delgroup">>, Keep, "leaveGroup"),
                        row(Prompt, "UWAIT", <<>>, Keep, "managerGroup")}) \cup
    at("leaveGroup", {row("URETURN", Keep, <<"delgroup1">>, "UWAIT", "managerGroup"),
                      row("URETURN", "UWAIT", <<>>, Keep, "managerGroup")})

myGroup ==
    at("myGroup", {row("UEXECUTE", "UEXECUTE", <<>>, Keep, "ui"),
                   row("UEXECUTE", Keep, <<"seegroup">>, Keep, "groupList"),
                   row("UEXECUTE", "URETURN", <<>>, Keep, "groupKinds")}) \cup
    at("groupList", {row("URETURN", "UEXECUTE", <<>>, Keep, "myGroup"),
                     row("URETURN", Keep, <<"gchat">>, "UWAIT", "groupList"),
                     row("UCHAT", Keep, <<>>, Keep, "openGchat")})

ownGroups ==
    at("groupKinds", {row("URETURN", "UWAIT", <<>>, Keep, "groupKind")}) \cup
    at("groupKind", {row(Prompt, "UEXECUTE", <<>>, Keep, "myGroup"),
                     row(Prompt, Keep, <<"seegroup">>, Keep, "groupKinds"),
                     row(Prompt, "URETURN", <<>>, Keep, "groupKinds")})

groupChat ==
    at("gchat", {row("USAT", "URETURN", <<>>, Keep, "quitGchat"),
                 row("USAT", Keep, <<"gmessage">>, Keep, "gchat"),
                 row("USAT", "UWAIT", <<"cmd">>, Keep, "gchat"),
                 row("USAT", "UWAIT", <<"history">>, Keep, "gchat"),
                 row("USAT", "UWAIT", <<"list">>, Keep, "members"),
                 row("USAT", "UWAIT", <<>>, Keep, "gfiles"),
                 row("USAT", "UWAIT", <<>>, "USAT", "gchat")}) \cup
    at("members", {row("URETURN", "USAT", <<>>, Keep, "gchat")})

Screens ==
    Table(logonMenu \cup Register \cup getPassword \cup uiMenu \cup myinformation \cup
          seeFriend \cup addFriend \cup joinGroup \cup viewInformation \cup
          handleCmd \cup managerFriend \cup managerGroup \cup myGroup \cup ownGroups \cup
          groupChat \cup
          fileSystem("files", "fileList", "fileLook", Keep, "chat") \cup
          fileSystem("gfiles", "gfileList", "gfileLook", "USAT", "gchat"))

-----------------------------------------------------------------------------
ChatScreens == {"chat", "gchat"}

\* The client is started.
FreshInit ==
    /\ ConInit
    /\ scr = [t \in Threads |-> "off"]
    /\ word = [logon |-> "WAIT", ui |-> "UWAIT"]

\* A user is logged in and has what the screen waits for; the logon thread
\* sleeps.
ScreenInit ==
    /\ ConRest
    /\ \E s \in {<<"ui", "UEXECUTE">>, <<"seeFriend", "URETURN">>,
                 <<"openChat", "UCHAT">>, <<"viewInformation", "URETURN">>,
                 <<"managerFriend", "URETURN">>, <<"managerGroup", "UWAIT">>,
                 <<"groupList", "URETURN">>, <<"openGchat", "UCHAT">>} :
        /\ scr = [logon |-> "asleep", ui |-> s[1]]
        /\ word = [logon |-> "WAIT", ui |-> s[2]]

Init ==
    /\ FreshInit \/ ScreenInit
    /\ budget = MaxRequests
    /\ seen = [t \in Threads |-> "none"]
    /\ post = [t \in Threads |-> Keep]
    /\ inflight = <<>>
    /\ uiStart = FALSE
    /\ chat = "none" /\ reader = "none" /\ chatting = FALSE
    /\ reminder = [c \in ChatScreens |-> FALSE]
    /\ cached = FALSE /\ pushing = {}
    /\ missed = {}
    /\ disturbed = {} /\ deleted = FALSE

chatVars == <<chat, reader, chatting, reminder, cached, pushing>>
history == <<disturbed, deleted>>

Up == connection_["chat"] = "up"

MayAsk(n) == n <= budget /\ Len(inflight) + n <= MaxInFlight

\* The requests are sent if there is a connection; whatever was asked before
\* is no longer waited for.
Send(t, kinds) ==
    [k \in DOMAIN inflight |->
        IF inflight[k].who = t THEN [inflight[k] EXCEPT !.own = FALSE]
                               ELSE inflight[k]]
    \o [k \in 1..(IF Up THEN Len(kinds) ELSE 0) |->
           [who |-> t, left |-> Answers[kinds[k]], own |-> TRUE]]

-----------------------------------------------------------------------------
(* The connection and the logon thread.                                     *)

\* The connection callback of client.cc starts the logon thread.
Connections ==
    /\ ConNext
    /\ scr["logon"] \in {"off", "logon"}
    /\ IF ~Up /\ connection_'["chat"] = "up"
       THEN /\ scr' = [scr EXCEPT !["logon"] = "logon"]
            /\ word' = [word EXCEPT !["logon"] = "EXECUTE"]
            /\ uiStart' = TRUE
            /\ UNCHANGED <<seen, post, inflight, budget, chatVars, missed, history>>
       ELSE UNCHANGED clientVars

LogonGoes(from, to) ==
    /\ running
    /\ scr["logon"] = from
    /\ scr' = [scr EXCEPT !["logon"] = to]
    /\ missed' = IF from = "test" THEN missed \ {"logon"} ELSE missed
    /\ UNCHANGED <<conVars, word, seen, post, inflight, budget, uiStart, chatVars, history>>

\* The menu is not shown: straight to the wait.
skipMenu ==
    /\ seen["logon"] = "none" /\ word["logon"] # "EXECUTE"
    /\ LogonGoes("logon", "test")

MayGoOn == word["logon"] = "EXECUTE" \/ uiStart

\* g_ui_cv.wait: the test under g_ui_mtx, then the sleep; it may wake for
\* no reason.
testLogon == LogonGoes("test", IF MayGoOn THEN "logon" ELSE "tested")

sleepLogon == LogonGoes("tested", "asleep")

wakeLogon == scr["ui"] = "off" /\ LogonGoes("asleep", "test")

exitSystem ==
    /\ running
    /\ scr["logon"] = "logon" /\ seen["logon"] = "EXECUTE"
    /\ running' = FALSE
    /\ UNCHANGED <<clientVars, conState, channel_, connection_, started>>

-----------------------------------------------------------------------------
(* A screen reads its word, acts, and makes the store it has left.          *)

look(t) ==
    /\ running
    /\ scr[t] \in DOMAIN Screens
    /\ seen[t] = "none" /\ post[t] = Keep
    /\ \A s \in Servers : channel_[s] = "null"
    /\ \E r \in Screens[scr[t]] :
        /\ r.on \in {word[t], Prompt}
        /\ seen' = [seen EXCEPT ![t] = r.on]
    /\ disturbed' = IF /\ inflight = <<>> /\ scr[t] = t
                       /\ t = "logon" => scr["ui"] = "off"
                    THEN disturbed \ {t} ELSE disturbed
    /\ UNCHANGED deleted
    /\ UNCHANGED <<conVars, word, scr, post, inflight, budget, uiStart, chatVars, missed>>

choose(t) ==
    /\ running
    /\ seen[t] # "none"
    /\ \E r \in Screens[scr[t]] :
        /\ r.on = seen[t]
        /\ MayAsk(Len(r.ask))
        /\ budget' = budget - Len(r.ask)
        /\ word' = IF r.pre = Keep THEN word ELSE [word EXCEPT ![t] = r.pre]
        /\ inflight' = IF r.pre = Keep /\ r.ask = <<>> THEN inflight
                       ELSE Send(t, r.ask)
        /\ post' = [post EXCEPT ![t] = r.post]
        /\ scr' = [scr EXCEPT ![t] = r.to]
    /\ seen' = [seen EXCEPT ![t] = "none"]
    /\ UNCHANGED <<conVars, uiStart, chatVars, missed, history>>

updataState(t) ==
    /\ running
    /\ post[t] # Keep
    /\ word' = [word EXCEPT ![t] = post[t]]
    /\ post' = [post EXCEPT ![t] = Keep]
    /\ UNCHANGED <<conVars, scr, seen, inflight, budget, uiStart, chatVars, missed, history>>

-----------------------------------------------------------------------------
(* Answers, handled by tasks of the pool.                                   *)

WordOf(item) ==
    IF item \in {"WAIT", "EXECUTE", "RETURNS", "email"} THEN "logon" ELSE "ui"

Stored(item) == IF item = "email" THEN "EXECUTE" ELSE item

\* Storing part i of answer s to request r disturbs the thread: it comes
\* before the store the thread has still to make, or after the thread has
\* moved on (if it changes the word), or before an earlier part, or it is the
\* answer to delgroup that the screen does not wait for.
Disturbs(r, s, i) ==
    LET t == WordOf(s[i])
        own == t = r.who /\ r.own
    IN  \/ own /\ post[t] # Keep
        \/ own /\ i > 1
        \/ own /\ s[i] = "UWAIT" /\ scr[t] = "leaveGroup"
        \/ ~own /\ word[t] # Stored(s[i])
                /\ (t = r.who \/ scr[t] \notin {"off", "start"})

\* The message that names the address is answered with the request for a
\* code, and INFORMATION starts the ui thread (bound: one at a time).
recviveMeg(k, s, i) ==
    LET r == inflight[k]
        item == s[i]
        rest == RemoveAt(s, i)
        left == IF rest = <<>> THEN RemoveAt(inflight, k)
                ELSE [inflight EXCEPT ![k].left = {rest}]
    IN  /\ running
        /\ inflight' = IF item = "email" /\ Up
                       THEN Append(left, [r EXCEPT !.left = Answers["verify"]])
                       ELSE left
        /\ IF item = "info"
           THEN /\ scr["ui"] = "off"
                /\ scr' = [scr EXCEPT !["ui"] = "start"]
                /\ UNCHANGED <<word, disturbed>>
           ELSE /\ word' = [word EXCEPT ![WordOf(item)] = Stored(item)]
                /\ disturbed' = IF Disturbs(r, s, i)
                                THEN disturbed \cup {WordOf(item)} ELSE disturbed
                /\ UNCHANGED scr
        /\ UNCHANGED <<conVars, seen, post, budget, uiStart, chatVars, missed, deleted>>

\* The server has nothing to answer.
unanswered(k) ==
    /\ running
    /\ <<>> \in inflight[k].left
    /\ inflight' = RemoveAt(inflight, k)
    /\ UNCHANGED <<conVars, word, scr, seen, post, budget, uiStart, chatVars,
                   missed, history>>

handleAnswers ==
    \E k \in DOMAIN inflight :
        \/ unanswered(k)
        \/ \E s \in inflight[k].left : \E i \in DOMAIN s : recviveMeg(k, s, i)

-----------------------------------------------------------------------------
(* The ui thread's beginning and its two ends.                              *)

uiBegins ==
    /\ running
    /\ scr["ui"] = "start"
    /\ scr' = [scr EXCEPT !["ui"] = "ui"]
    /\ uiStart' = FALSE
    /\ deleted' = FALSE
    /\ UNCHANGED <<conVars, word, seen, post, inflight, budget, chatVars, missed, disturbed>>

\* g_ui_cv is notified without its mutex.
logout ==
    /\ running
    /\ scr["ui"] = "logout"
    /\ uiStart' = TRUE
    /\ word' = [word EXCEPT !["logon"] = "EXECUTE"]
    /\ scr' = [scr EXCEPT !["ui"] = "off",
                          !["logon"] = IF @ = "asleep" THEN "test" ELSE @]
    /\ missed' = IF scr["logon"] = "tested" THEN missed \cup {"logon"} ELSE missed
    /\ inflight' = Send("ui", <<>>)
    /\ UNCHANGED <<conVars, seen, post, budget, chatVars, history>>

\* Nobody is notified, and uiStart stays FALSE.
deleteUser ==
    /\ running
    /\ scr["ui"] = "delete"
    /\ MayAsk(1)
    /\ budget' = budget - 1
    /\ scr' = [scr EXCEPT !["ui"] = "off"]
    /\ inflight' = Send("ui", <<"delete">>)
    /\ deleted' = TRUE
    /\ UNCHANGED <<conVars, word, seen, post, uiStart, chatVars, missed, disturbed>>

-----------------------------------------------------------------------------
(* An open chat and its recvThread.                                         *)

chatUnchanged == <<conVars, seen, post, inflight, uiStart, history>>

openChat(c) ==
    /\ running
    /\ scr["ui"] = (IF c = "chat" THEN "openChat" ELSE "openGchat")
    /\ scr' = [scr EXCEPT !["ui"] = c]
    /\ chat' = c /\ chatting' = TRUE /\ reader' = "fetch"
    /\ word' = IF c = "gchat" THEN [word EXCEPT !["ui"] = "USAT"] ELSE word
    /\ UNCHANGED <<reminder, cached, pushing, missed, budget, chatUnchanged>>

\* Mutant: the flag is stored and nobody is notified.
notifyReaderNot == UNCHANGED <<reader, missed>>

\* The condition variable is notified without the mutex the reader tests under.
notifyReader ==
    /\ reader' = IF reader = "asleep" THEN "test" ELSE reader
    /\ missed' = IF reader = "tested" THEN missed \cup {"ui"} ELSE missed

Quitting == scr["ui"] \in {"quitChat", "quitGchat"}

quitChat ==
    /\ running
    /\ Quitting /\ chatting
    /\ chatting' = FALSE
    /\ notifyReader
    /\ UNCHANGED <<word, scr, chat, reminder, cached, pushing, budget, chatUnchanged>>

joinReader ==
    /\ running
    /\ Quitting /\ reader = "done"
    /\ scr' = [scr EXCEPT !["ui"] = IF chat = "chat" THEN "seeFriend" ELSE "groupList"]
    /\ chat' = "none" /\ reader' = "none"
    /\ UNCHANGED <<word, chatting, reminder, cached, pushing, missed, budget, chatUnchanged>>

ReaderGoes(from) ==
    /\ running
    /\ reader = from
    /\ UNCHANGED <<word, scr, chat, chatting, pushing, budget, chatUnchanged>>

fetchMessages ==
    /\ ReaderGoes("fetch")
    /\ reader' = IF chatting THEN "test" ELSE "done"
    /\ cached' = (cached /\ ~(chatting /\ chat = "gchat"))
    /\ UNCHANGED <<reminder, missed>>

testReader ==
    /\ ReaderGoes("test")
    /\ reader' = IF reminder[chat] \/ ~chatting THEN "awake" ELSE "tested"
    /\ missed' = missed \ {"ui"}
    /\ UNCHANGED <<reminder, cached>>

sleepReader ==
    /\ ReaderGoes("tested")
    /\ reader' = "asleep"
    /\ UNCHANGED <<reminder, cached, missed>>

wakeReader ==
    /\ ReaderGoes("asleep")
    /\ reader' = "test"
    /\ UNCHANGED <<reminder, cached, missed>>

resetReminder ==
    /\ ReaderGoes("awake")
    /\ reader' = IF chatting THEN "fetch" ELSE "done"
    /\ reminder' = [reminder EXCEPT ![chat] = @ /\ ~chatting]
    /\ UNCHANGED <<cached, missed>>

\* A message for a chat: of the open friend it is printed at once (chatName),
\* otherwise pushed.  Bounds: while a reader runs, one at a time.
pushMessage(c) ==
    /\ running
    /\ reader # "none" /\ pushing = {} /\ budget > 0
    /\ budget' = budget - 1
    /\ pushing' = {c}
    /\ cached' \in {cached, cached \/ c = "gchat"}
    /\ UNCHANGED <<word, scr, chat, reader, chatting, reminder, missed, chatUnchanged>>

remind(c) ==
    /\ running
    /\ c \in pushing
    /\ pushing' = {}
    /\ reminder' = [reminder EXCEPT ![c] = TRUE]
    /\ IF c = chat THEN notifyReader ELSE UNCHANGED <<reader, missed>>
    /\ UNCHANGED <<word, scr, chat, chatting, cached, budget, chatUnchanged>>

-----------------------------------------------------------------------------
LogonNext ==
    Connections \/ skipMenu \/ testLogon \/ sleepLogon \/ wakeLogon \/ exitSystem

ScreenNext == \E t \in Threads : look(t) \/ choose(t) \/ updataState(t)

UiNext == uiBegins \/ logout \/ deleteUser \/ quitChat \/ joinReader

ReaderNext ==
    fetchMessages \/ testReader \/ sleepReader \/ wakeReader \/ resetReminder

ChatNext == \E c \in ChatScreens : openChat(c) \/ pushMessage(c) \/ remind(c)

Next == LogonNext \/ ScreenNext \/ handleAnswers \/ UiNext \/ ReaderNext \/ ChatNext

Spec == Init /\ [][Next]_vars

-----------------------------------------------------------------------------
(* Properties.                                                              *)

Waits(t) ==
    /\ running
    /\ scr[t] \in DOMAIN Screens
    /\ seen[t] = "none" /\ post[t] = Keep
    /\ \A r \in Screens[scr[t]] : r.on \notin {word[t], Prompt}
    /\ t = "logon" => scr["ui"] = "off"

\* A screen that reads a word it does not go on with has an answer coming,
\* unless the connection is lost or an answer came early, late, out of order
\* or refused the request: no screen waits for what was never asked, or for
\* a value its request is never answered with (the loops on getUserState in
\* UserUi.cc and on getState in logOn.h).
WaitIsAnswered ==
    \A t \in Threads :
        Waits(t) /\ Up =>
            \/ \E k \in DOMAIN inflight :
                   \/ inflight[k].who = t
                   \/ \E s \in inflight[k].left : \E i \in DOMAIN s : WordOf(s[i]) = t
            \/ t \in disturbed

\* The logon thread shows a menu or a form only while no ui thread runs, so
\* that one thread reads the terminal, unless a late answer has told it to
\* (logOn.h:42 tests the word, UserUi.cc:24 sets uiStart).
OneMenu ==
    seen["logon"] # "none" => scr["ui"] = "off" \/ "logon" \in disturbed

LogonWakes ==
    scr["logon"] = "asleep" /\ MayGoOn => "logon" \in missed \cup disturbed \/ deleted

ReaderWakes ==
    /\ reader = "asleep" /\ (~chatting \/ reminder[chat]) => "ui" \in missed
    /\ reader = "asleep" /\ chat = "gchat" /\ cached
          => reminder["gchat"] \/ pushing # {}

\* Nobody sleeps with what it waits for already true, unless the one
\* notification came between the test and the sleep (UserUi.cc:75, 267, 698;
\* handleMeg.h:106) or the account was deleted, which notifies nobody.  And
\* the reader of a group chat does not sleep over a message it could show.
NoLostWakeup == LogonWakes /\ ReaderWakes

\* The connector's state, its channel and the client's connection agree: the
\* asserts of Connector.cc:27, 96 and 145 and of TcpClient.cc:70.
ChannelMatchesState ==
    \A s \in Servers :
        /\ channel_[s] = "writing" <=> conState[s] = "kConnecting"
        /\ connection_[s] = "up" => conState[s] = "kConnected"

============================================================================
