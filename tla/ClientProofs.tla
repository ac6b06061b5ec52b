---------------------------- MODULE ClientProofs ----------------------------
(***************************************************************************)
(* For any servers and any bounds on the requests: the client's connectors *)
(* agree with their channels and connections whatever the screens do; the  *)
(* logon thread shows no menu beside the ui thread's, unless an answer     *)
(* disturbed it; the reader of a chat and the logon thread sleep through   *)
(* nothing but a notification that comes between test and sleep; and no    *)
(* undisturbed screen waits for an answer that is not coming.              *)
(***************************************************************************)
EXTENDS Client, TLAPS, SequenceTheorems

ConTypes ==
    /\ conState \in [Servers -> {"kDisconnected", "kConnecting", "kConnected"}]
    /\ channel_ \in [Servers -> {"null", "writing", "disabled"}]
    /\ connection_ \in [Servers -> {"null", "up"}]

\* Before connect is called a connector is as its constructor left it.
UntouchedBefore ==
    \A s \in Servers \ started :
        /\ conState[s] = "kDisconnected"
        /\ channel_[s] = "null"
        /\ connection_[s] = "null"

\* Whether a channel may be opened over an existing connection is decided by
\* `started`, so that the agreement needs UntouchedBefore to be inductive.
ConInv == ConTypes /\ UntouchedBefore /\ ChannelMatchesState

\* A callback or functor of a connector or its TcpClient preserves ConInv.
LEMMA ConNextInv ==
    ASSUME ConInv, ConNext
    PROVE  ConInv'
<1>1. PICK s \in Servers :
          connect(s) \/ handleWrite(s) \/ handleError(s)
          \/ resetChannel(s) \/ removeConnection(s)
  BY DEF ConNext
<1>2. CASE connect(s)
  BY <1>2, ZenonT(40) DEF connect, connecting, retry, giveUp, ConInv, ConTypes,
     UntouchedBefore, ChannelMatchesState
<1>3. CASE handleWrite(s)
  BY <1>3, ZenonT(40) DEF handleWrite, removeAndResetChannel, newConnection, retry, ConInv,
     ConTypes, UntouchedBefore, ChannelMatchesState
<1>4. CASE handleError(s)
  BY <1>4 DEF handleError, removeAndResetChannel, retry, ConInv, ConTypes,
     UntouchedBefore, ChannelMatchesState
<1>5. CASE resetChannel(s)
  BY <1>5 DEF resetChannel, ConInv, ConTypes, UntouchedBefore, ChannelMatchesState
<1>6. CASE removeConnection(s)
  BY <1>6 DEF removeConnection, ConInv, ConTypes, UntouchedBefore, ChannelMatchesState
<1>7. QED
  BY <1>1, <1>2, <1>3, <1>4, <1>5, <1>6

\* The steps of the screens, the answers and the chat leave the connectors be.
LEMMA OnlyConnections ==
    ASSUME Next
    PROVE  ConNext \/ UNCHANGED <<conState, channel_, connection_, started>>
<1>1. CASE LogonNext
  BY <1>1 DEF LogonNext, Connections, skipMenu, testLogon, sleepLogon, wakeLogon,
     LogonGoes, exitSystem, conVars
<1>2. CASE ScreenNext
  BY <1>2 DEF ScreenNext, look, choose, updataState, conVars
<1>3. CASE handleAnswers
  BY <1>3, ZenonT(40) DEF handleAnswers, unanswered, recviveMeg, conVars
<1>4. CASE UiNext
  BY <1>4, ZenonT(40) DEF UiNext, uiBegins, logout, deleteUser, quitChat, joinReader,
     chatUnchanged, conVars
<1>5. CASE ReaderNext
  BY <1>5 DEF ReaderNext, fetchMessages, testReader, sleepReader, wakeReader,
     resetReminder, ReaderGoes, chatUnchanged, conVars
<1>6. CASE ChatNext
  BY <1>6 DEF ChatNext, openChat, pushMessage, remind, chatUnchanged, conVars
<1>7. QED
  BY <1>1, <1>2, <1>3, <1>4, <1>5, <1>6 DEF Next

\* The asserts of Connector.cc and TcpClient.cc hold: the channel is there
\* while the state is kConnecting, and a connection only in kConnected.
THEOREM ConnectorsAgree == Spec => []ChannelMatchesState
<1>1. Init => ConInv
  BY DEF Init, FreshInit, ScreenInit, ConInit, ConRest, ConInv, ConTypes,
     UntouchedBefore, ChannelMatchesState
<1>2. ConInv /\ [Next]_vars => ConInv'
  <2> SUFFICES ASSUME ConInv, [Next]_vars PROVE ConInv'
    OBVIOUS
  <2>1. CASE ConNext
    BY <2>1, ConNextInv
  <2>2. CASE UNCHANGED <<conState, channel_, connection_, started>>
    BY <2>2 DEF ConInv, ConTypes, UntouchedBefore, ChannelMatchesState
  <2>3. CASE UNCHANGED vars
    BY <2>2, <2>3 DEF vars, conVars
  <2>4. QED
    BY <2>1, <2>2, <2>3, OnlyConnections
<1>3. ConInv => ChannelMatchesState
  BY DEF ConInv
<1>4. QED
  BY <1>1, <1>2, <1>3, PTL DEF Spec

-----------------------------------------------------------------------------

ChatTypes ==
    /\ reminder \in [ChatScreens -> BOOLEAN]
    /\ pushing \in {{}, {"chat"}, {"gchat"}}
    /\ reader # "none" => chat \in ChatScreens

\* Between the test of the condition and the end of the sleep, what the
\* reader waits for comes with a notification, which it misses only before
\* the sleep.
TestedMeansFalse ==
    reader \in {"tested", "asleep"} /\ (~chatting \/ reminder[chat]) => "ui" \in missed

\* A message of the open group that was not there when the reader fetched
\* has set its reminder, or its task is about to.
CachedIsAnnounced ==
    reader \in {"test", "tested", "asleep"} /\ chat = "gchat" /\ cached
        => reminder["gchat"] \/ "gchat" \in pushing

ReaderInv == ChatTypes /\ TestedMeansFalse /\ CachedIsAnnounced

\* What does not touch the chat preserves ReaderInv.
LEMMA ReaderUnchanged ==
    ASSUME ReaderInv, UNCHANGED chatVars, "ui" \in missed => "ui" \in missed'
    PROVE  ReaderInv'
BY DEF ReaderInv, ChatTypes, TestedMeansFalse, CachedIsAnnounced, chatVars

\* The reader's own steps preserve ReaderInv.
LEMMA ReaderNextInv ==
    ASSUME ReaderInv, ReaderNext
    PROVE  ReaderInv'
<1> USE DEF ReaderInv, ChatTypes, TestedMeansFalse, CachedIsAnnounced, ReaderGoes
<1>1. CASE fetchMessages
  BY <1>1 DEF fetchMessages
<1>2. CASE testReader
  BY <1>2 DEF testReader
<1>3. CASE sleepReader
  BY <1>3 DEF sleepReader
<1>4. CASE wakeReader
  BY <1>4 DEF wakeReader
<1>5. CASE resetReminder
  BY <1>5 DEF resetReminder, ChatScreens
<1>6. QED
  BY <1>1, <1>2, <1>3, <1>4, <1>5 DEF ReaderNext

\* Opening a chat, a message that arrives and its reminder preserve ReaderInv.
LEMMA ChatNextInv ==
    ASSUME ReaderInv, ChatNext
    PROVE  ReaderInv'
<1> USE DEF ReaderInv, ChatTypes, TestedMeansFalse, CachedIsAnnounced, ChatScreens
<1>1. PICK c \in ChatScreens : openChat(c) \/ pushMessage(c) \/ remind(c)
  BY DEF ChatNext
<1>2. CASE openChat(c)
  BY <1>2 DEF openChat
<1>3. CASE pushMessage(c)
  BY <1>3 DEF pushMessage
<1>4. CASE remind(c)
  BY <1>4 DEF remind, notifyReader
<1>5. QED
  BY <1>1, <1>2, <1>3, <1>4

\* Every other step preserves ReaderInv: quitting notifies the reader, and
\* the logon thread takes only its own name out of `missed`.
LEMMA OtherNextInv ==
    ASSUME ReaderInv, LogonNext \/ ScreenNext \/ handleAnswers \/ UiNext
    PROVE  ReaderInv'
<1>1. CASE LogonNext
  BY <1>1, ReaderUnchanged DEF LogonNext, Connections, skipMenu, testLogon, sleepLogon,
     wakeLogon, LogonGoes, exitSystem, clientVars, chatVars
<1>2. CASE ScreenNext
  BY <1>2, ReaderUnchanged DEF ScreenNext, look, choose, updataState
<1>3. CASE handleAnswers
  BY <1>3, ReaderUnchanged DEF handleAnswers, unanswered, recviveMeg
<1>4. CASE UiNext
  <2>1. CASE uiBegins \/ logout \/ deleteUser
    BY <2>1, ReaderUnchanged DEF uiBegins, logout, deleteUser
  <2>2. CASE quitChat
    BY <2>2 DEF quitChat, notifyReader, ReaderInv, ChatTypes, TestedMeansFalse,
       CachedIsAnnounced
  <2>3. CASE joinReader
    BY <2>3 DEF joinReader, ReaderInv, ChatTypes, TestedMeansFalse, CachedIsAnnounced
  <2>4. QED
    BY <1>4, <2>1, <2>2, <2>3 DEF UiNext
<1>5. QED
  BY <1>1, <1>2, <1>3, <1>4

\* The reader of a chat does not sleep while the user has left, or a message
\* has come, unless it missed the one notification; and never over a message
\* of the open group that nobody will tell it of (the reader half of
\* NoLostWakeup).
THEOREM ReaderIsWoken == Spec => []ReaderWakes
<1>1. Init => ReaderInv
  BY DEF Init, ReaderInv, ChatTypes, TestedMeansFalse, CachedIsAnnounced, ChatScreens
<1>2. ReaderInv /\ [Next]_vars => ReaderInv'
  <2> SUFFICES ASSUME ReaderInv, [Next]_vars PROVE ReaderInv'
    OBVIOUS
  <2>1. CASE Next
    BY <2>1, ReaderNextInv, ChatNextInv, OtherNextInv DEF Next
  <2>2. CASE UNCHANGED vars
    BY <2>2, ReaderUnchanged DEF vars, clientVars, chatVars
  <2>3. QED
    BY <2>1, <2>2
<1>3. ReaderInv => ReaderWakes
  BY DEF ReaderInv, TestedMeansFalse, CachedIsAnnounced, ReaderWakes
<1>4. QED
  BY <1>1, <1>2, <1>3, PTL DEF Spec

-----------------------------------------------------------------------------
\* Where the two threads can be; the prompts of the logon thread, and what is
\* asked there.
LogonForms == {"logon", "Register", "getPassword"}
LogonWaits == {"logon", "test", "tested", "asleep"}
LogonPlaces == LogonForms \cup LogonWaits \cup {"off"}
UiForms == {"ui", "selectFunc", "myinformation", "seeFriend", "chat", "addFriend",
            "joinGroup", "viewInformation", "managerFriend", "chosenFriend",
            "blackList", "managerGroup", "leaveGroup", "myGroup", "groupList",
            "groupKinds", "groupKind", "gchat", "members", "files", "fileList",
            "fileLook", "gfiles", "gfileList", "gfileLook"}
UiPlaces == UiForms \cup {"off", "start", "logout", "delete", "openChat", "openGchat",
                          "quitChat", "quitGchat"}
LogonKinds == {"login", "register", "code", "email", "verify", "test"}
UiKinds == {"revise", "delete", "add", "messdata", "answer", "see", "chat", "cmd",
            "offmeg", "message", "delfriend", "black", "unblack", "creategroup",
            "delgroup", "delgroup1", "seegroup", "gchat", "gmessage", "list", "look",
            "history"}

\* What a word may be, and what the parts of an answer store: the address
\* comes alone.
Words == {"WAIT", "EXECUTE", "RETURNS", "UWAIT", "UEXECUTE", "URETURN", "UCHAT", "USAT"}
Items == Words \cup {"email", "info"}
Parts == {s \in Seq(Items) : \A i \in 1 .. Len(s) : s[i] = "email" => Len(s) = 1}
Entry == [who : Threads, left : SUBSET Parts, own : BOOLEAN]

\* An answer that may still start a ui thread is that to a login.
NoInfo(e) == \A s \in e.left : \A i \in 1 .. Len(s) : s[i] # "info"
LoginLeft(e) == \/ e.left = {<<"UEXECUTE", "info">>, <<"EXECUTE">>}
                \/ e.left = {<<"info">>}
OwnLogon(e) == e.who = "logon" /\ e.own

LogonTypes(S, W, N, P, Q) ==
    /\ S \in [Threads -> LogonPlaces \cup UiPlaces]
    /\ S["logon"] \in LogonPlaces /\ S["ui"] \in UiPlaces
    /\ W \in [Threads -> Words] /\ P \in [Threads -> Words \cup {Keep}]
    /\ N \in [Threads -> Words \cup {Prompt, "none"}]
    /\ \A t \in Threads : N[t] # "none" => S[t] \in DOMAIN Screens
    /\ Q \in Seq(Entry)

Asked(Q) ==
    /\ \A k \in 1 .. Len(Q) : NoInfo(Q[k]) \/ (Q[k].who = "logon" /\ LoginLeft(Q[k]))
    /\ \A j, k \in 1 .. Len(Q) : OwnLogon(Q[j]) /\ OwnLogon(Q[k]) => j = k

\* The logon thread has sent its request and waits.
Waiting(S, W, N, P) ==
    /\ W["logon"] = "WAIT" /\ S["logon"] \in LogonWaits
    /\ N["logon"] = "none" /\ P["logon"] = Keep

\* While a ui thread runs, or may be started, the logon thread waits; nothing
\* that is still to come lets it go on, or starts another ui thread.
Quiet(S, W, N, P, Q) ==
    /\ (S["ui"] # "off" \/ \E k \in 1 .. Len(Q) : ~NoInfo(Q[k])) => Waiting(S, W, N, P)
    /\ \A k \in 1 .. Len(Q) : ~NoInfo(Q[k]) => Q[k].own /\ S["ui"] = "off"
    /\ S["ui"] # "off" =>
          \A k \in 1 .. Len(Q) : OwnLogon(Q[k]) => Q[k].left = {<<"UEXECUTE">>}

\* Without a ui thread uiStart is set, unless the last one deleted its account;
\* and the logon thread goes to sleep over it only if it missed the notification.
Starting(S, U, M, D) ==
    /\ S["ui"] = "off" /\ S["logon"] # "off" => U \/ D
    /\ S["logon"] \in {"tested", "asleep"} /\ U => "logon" \in M

\* Until the chat server's connection is up nothing has been shown or asked.
BeforeConnection ==
    "chat" \notin started \/ channel_["chat"] = "writing" =>
        scr["logon"] = "off" /\ scr["ui"] = "off" /\ inflight = <<>>

LogonInv ==
    /\ ConInv
    /\ LogonTypes(scr, word, seen, post, inflight)
    /\ Asked(inflight)
    /\ "logon" \notin disturbed => Quiet(scr, word, seen, post, inflight)
    /\ Starting(scr, uiStart, missed, deleted)
    /\ BeforeConnection

-----------------------------------------------------------------------------
(* The tables.                                                              *)

\* What a table of pairs has under a name.
LEMMA InTable ==
    ASSUME NEW R, \A p \in R : p = <<p[1], p[2]>>
    PROVE  /\ DOMAIN Table(R) = {p[1] : p \in R}
           /\ \A name \in DOMAIN Table(R) : \A e \in Table(R)[name] : <<name, e>> \in R
           /\ \A name, e : <<name, e>> \in R => /\ name \in DOMAIN Table(R)
                                                /\ e \in Table(R)[name]
<1>1. DOMAIN Table(R) = {p[1] : p \in R}
  BY DEF Table
<1>2. ASSUME NEW name \in DOMAIN Table(R), NEW e \in Table(R)[name]
      PROVE  <<name, e>> \in R
  <2>1. Table(R)[name] = {r[2] : r \in {p \in R : p[1] = name}}
    BY DEF Table
  <2>2. PICK p \in R : p[1] = name /\ e = p[2]
    BY <2>1, <1>2
  <2>3. QED
    BY <2>2
<1>3. ASSUME NEW name, NEW e, <<name, e>> \in R
      PROVE  name \in DOMAIN Table(R) /\ e \in Table(R)[name]
  <2>1. <<name, e>>[1] = name /\ <<name, e>>[2] = e
    OBVIOUS
  <2>2. name \in DOMAIN Table(R)
    BY <1>1, <1>3, <2>1
  <2>3. Table(R)[name] = {r[2] : r \in {p \in R : p[1] = name}}
    BY <2>2 DEF Table
  <2>4. QED
    BY <1>3, <2>1, <2>2, <2>3
<1>4. QED
  BY <1>1, <1>2, <1>3

\* An answer to a request of a kind: only that to the login has INFORMATION.
Quietly(e) == e \in Parts /\ \A i \in 1 .. Len(e) : e[i] # "info"
Answer(kind, e) ==
    /\ kind \in LogonKinds \cup UiKinds
    /\ e \in Parts
    /\ IF kind = "login" THEN e \in {<<"UEXECUTE", "info">>, <<"EXECUTE">>} ELSE Quietly(e)

AnswerRows == AccountAnswers \cup AddAnswers \cup ViewAnswers \cup ChatAnswers \cup
              MessageAnswers \cup RemovalAnswers \cup GroupAnswers \cup FileAnswers

\* Short tuples are sequences.
LEMMA ShortTuples ==
    /\ \A S : \A x \in S : <<x>> \in Seq(S) /\ Len(<<x>>) = 1 /\ <<x>>[1] = x
    /\ \A S : \A x, y \in S : /\ <<x, y>> \in Seq(S) /\ Len(<<x, y>>) = 2
                              /\ <<x, y>>[1] = x /\ <<x, y>>[2] = y
<1>1. \A S : \A x \in S : <<x>> \in Seq(S) /\ Len(<<x>>) = 1 /\ <<x>>[1] = x
  OBVIOUS
<1>2. \A S : \A x, y \in S : /\ <<x, y>> \in Seq(S) /\ Len(<<x, y>>) = 2
                             /\ <<x, y>>[1] = x /\ <<x, y>>[2] = y
  OBVIOUS
<1>3. QED
  BY <1>1, <1>2

\* Short answers are answers.
LEMMA ShortAnswers ==
    /\ Quietly(<<>>)
    /\ \A x \in Items \ {"info"} : Quietly(<<x>>)
    /\ \A x, y \in Items \ {"info", "email"} : Quietly(<<x, y>>)
    /\ <<"UEXECUTE", "info">> \in Parts
<1>1. ASSUME NEW x \in Items PROVE <<x>> \in Seq(Items) /\ Len(<<x>>) = 1 /\ <<x>>[1] = x
  BY ShortTuples
<1>2. ASSUME NEW x \in Items, NEW y \in Items
      PROVE  /\ <<x, y>> \in Seq(Items) /\ Len(<<x, y>>) = 2
             /\ <<x, y>>[1] = x /\ <<x, y>>[2] = y
  BY ShortTuples
<1>3. Quietly(<<>>)
  BY DEF Quietly, Parts
<1>4. ASSUME NEW x \in Items \ {"info"} PROVE Quietly(<<x>>)
  <2> DEFINE s == <<x>>
  <2>1. s \in Seq(Items) /\ Len(s) = 1 /\ s[1] = x
    BY <1>1
  <2> HIDE DEF s
  <2>2. \A i \in 1 .. Len(s) : i = 1
    BY <2>1
  <2>3. Quietly(s)
    BY <2>1, <2>2 DEF Quietly, Parts
  <2>4. QED
    BY <2>3 DEF s
<1>5. ASSUME NEW x \in Items \ {"email"}, NEW y \in Items \ {"email"}
      PROVE  <<x, y>> \in Parts
  <2> DEFINE s == <<x, y>>
  <2>1. s \in Seq(Items) /\ Len(s) = 2 /\ s[1] = x /\ s[2] = y
    BY <1>2
  <2> HIDE DEF s
  <2>2. \A i \in 1 .. Len(s) : i = 1 \/ i = 2
    BY <2>1
  <2>3. s \in Parts
    BY <2>1, <2>2 DEF Parts
  <2>4. QED
    BY <2>3 DEF s
<1>6. ASSUME NEW x \in Items \ {"info", "email"}, NEW y \in Items \ {"info", "email"}
      PROVE  Quietly(<<x, y>>)
  <2> DEFINE s == <<x, y>>
  <2>1. s \in Parts /\ Len(s) = 2 /\ s[1] = x /\ s[2] = y
    BY <1>2, <1>5
  <2> HIDE DEF s
  <2>2. \A i \in 1 .. Len(s) : i = 1 \/ i = 2
    BY <2>1
  <2>3. Quietly(s)
    BY <2>1, <2>2 DEF Quietly
  <2>4. QED
    BY <2>3 DEF s
<1>7. "UEXECUTE" \in Items \ {"email"} /\ "info" \in Items \ {"email"}
  BY DEF Items, Words
<1>8. <<"UEXECUTE", "info">> \in Parts
  BY <1>5, <1>7
<1>9. \A x \in Items \ {"info"} : Quietly(<<x>>)
  BY <1>4
<1>10. \A x, y \in Items \ {"info", "email"} : Quietly(<<x, y>>)
  BY <1>6
<1>11. QED
  BY <1>3, <1>8, <1>9, <1>10

\* Every row of the table is an answer to its kind.
LEMMA AnswersAreRows == \A p \in AnswerRows : p = <<p[1], p[2]>> /\ Answer(p[1], p[2])
<1> DEFINE Row(p) == p = <<p[1], p[2]>> /\ Answer(p[1], p[2])
           Kinds == (LogonKinds \cup UiKinds) \ {"login"}
<1>1. ASSUME NEW kind \in Kinds, NEW e, Quietly(e)
      PROVE  Row(<<kind, e>>)
  BY <1>1 DEF Answer, Quietly
<1>2. \A e \in {<<"UEXECUTE", "info">>, <<"EXECUTE">>} : Row(<<"login", e>>)
  <2>1. "EXECUTE" \in Items \ {"info"}
    BY DEF Items, Words
  <2>2. Quietly(<<"EXECUTE">>) /\ <<"UEXECUTE", "info">> \in Parts
    BY <2>1, ShortAnswers
  <2>3. QED
    BY <2>2 DEF Answer, LogonKinds, Quietly
<1> HIDE DEF Row
<1>3. \A p \in AccountAnswers : Row(p)
  <2>1. \A x \in {"EXECUTE", "RETURNS", "WAIT", "email", "UEXECUTE"} : Quietly(<<x>>)
    BY ShortAnswers DEF Items, Words
  <2>2. QED
    BY <1>1, <1>2, <2>1 DEF AccountAnswers, at, LogonKinds, UiKinds
<1>4. \A p \in AddAnswers \cup ViewAnswers \cup ChatAnswers : Row(p)
  <2>1. \A x \in {"UEXECUTE", "URETURN", "UWAIT", "UCHAT", "USAT"} : Quietly(<<x>>)
    BY ShortAnswers DEF Items, Words
  <2>2. Quietly(<<"UEXECUTE", "UEXECUTE">>)
    BY ShortAnswers DEF Items, Words
  <2>3. QED
    BY <1>1, <2>1, <2>2 DEF AddAnswers, ViewAnswers, ChatAnswers, at, LogonKinds, UiKinds
<1>5. \A p \in MessageAnswers \cup RemovalAnswers : Row(p)
  <2>1. \A x \in {"URETURN", "USAT"} : Quietly(<<x>>)
    BY ShortAnswers DEF Items, Words
  <2>2. Quietly(<<>>)
    BY ShortAnswers
  <2>3. QED
    BY <1>1, <2>1, <2>2 DEF MessageAnswers, RemovalAnswers, at, LogonKinds, UiKinds
<1>6. \A p \in GroupAnswers \cup FileAnswers : Row(p)
  <2>1. \A x \in {"UEXECUTE", "UWAIT", "URETURN", "UCHAT", "USAT"} : Quietly(<<x>>)
    BY ShortAnswers DEF Items, Words
  <2>2. Quietly(<<>>) /\ Quietly(<<"UWAIT", "URETURN">>)
    BY ShortAnswers DEF Items, Words
  <2>3. QED
    BY <1>1, <2>1, <2>2 DEF GroupAnswers, FileAnswers, at, LogonKinds, UiKinds
<1>7. QED
  BY <1>3, <1>4, <1>5, <1>6 DEF AnswerRows, Row

\* Every kind has an entry in the table of answers.
LEMMA KindsAnswered == LogonKinds \cup UiKinds \subseteq {p[1] : p \in AnswerRows}
<1> DEFINE Named(kind) == \E e : <<kind, e>> \in AnswerRows
<1>1. \A kind \in {"login", "register", "code", "email", "verify", "test", "revise", "delete"} :
          \E e : <<kind, e>> \in AccountAnswers
  BY DEF AccountAnswers, at
<1>2. \A kind \in {"add", "messdata", "answer", "see", "chat", "cmd", "offmeg", "message"} :
          \E e : <<kind, e>> \in AddAnswers \cup ViewAnswers \cup ChatAnswers \cup MessageAnswers
  BY DEF AddAnswers, ViewAnswers, ChatAnswers, MessageAnswers, at
<1>3. \A kind \in {"delfriend", "black", "unblack", "creategroup", "delgroup", "delgroup1"} :
          \E e : <<kind, e>> \in RemovalAnswers \cup GroupAnswers
  BY DEF RemovalAnswers, GroupAnswers, at
<1>4. \A kind \in {"seegroup", "gchat", "gmessage", "list", "look", "history"} :
          \E e : <<kind, e>> \in GroupAnswers \cup FileAnswers
  BY DEF GroupAnswers, FileAnswers, at
<1>5. \A kind \in LogonKinds \cup UiKinds : Named(kind)
  <2>1. \A kind \in {"login", "register", "code", "email", "verify", "test", "revise", "delete"} :
            Named(kind)
    BY <1>1 DEF AnswerRows
  <2>2. \A kind \in {"add", "messdata", "answer", "see", "chat", "cmd", "offmeg", "message"} :
            Named(kind)
    BY <1>2 DEF AnswerRows
  <2>3. \A kind \in {"delfriend", "black", "unblack", "creategroup", "delgroup", "delgroup1"} :
            Named(kind)
    BY <1>3 DEF AnswerRows
  <2>4. \A kind \in {"seegroup", "gchat", "gmessage", "list", "look", "history"} : Named(kind)
    BY <1>4 DEF AnswerRows
  <2> HIDE DEF Named
  <2>5. QED
    BY <2>1, <2>2, <2>3, <2>4 DEF LogonKinds, UiKinds
<1>6. ASSUME NEW kind \in LogonKinds \cup UiKinds
      PROVE  kind \in {p[1] : p \in AnswerRows}
  <2>1. PICK e : <<kind, e>> \in AnswerRows
    BY <1>5
  <2>2. <<kind, e>>[1] = kind
    OBVIOUS
  <2>3. QED
    BY <2>1, <2>2
<1>7. QED
  BY <1>6

\* What may be left of the answer to a request just sent.
LEMMA AnswersTo ==
    /\ \A kind \in LogonKinds \cup UiKinds : Answers[kind] \in SUBSET Parts
    /\ \A kind \in (LogonKinds \cup UiKinds) \ {"login"} :
          \A e \in Answers[kind] : Quietly(e)
    /\ Answers["login"] = {<<"UEXECUTE", "info">>, <<"EXECUTE">>}
<1>1. Answers = Table(AnswerRows)
  BY DEF Answers, AnswerRows
<1>2. \A p \in AnswerRows : p = <<p[1], p[2]>>
  BY AnswersAreRows
<1>3. LogonKinds \cup UiKinds \subseteq DOMAIN Answers
  <2>1. DOMAIN Table(AnswerRows) = {p[1] : p \in AnswerRows}
    BY <1>2, InTable, Zenon
  <2>2. QED
    BY <1>1, <2>1, KindsAnswered, Zenon
<1>4. ASSUME NEW kind \in LogonKinds \cup UiKinds, NEW e \in Answers[kind]
      PROVE  Answer(kind, e)
  <2>1. <<kind, e>> \in AnswerRows
    BY <1>1, <1>2, <1>3, InTable
  <2>2. <<kind, e>>[1] = kind /\ <<kind, e>>[2] = e
    OBVIOUS
  <2>3. QED
    BY <2>1, <2>2, AnswersAreRows
<1>5. \A e \in {<<"UEXECUTE", "info">>, <<"EXECUTE">>} : e \in Answers["login"]
  <2>1. \A e \in {<<"UEXECUTE", "info">>, <<"EXECUTE">>} : <<"login", e>> \in AnswerRows
    BY DEF AnswerRows, AccountAnswers, at
  <2>2. QED
    BY <1>1, <1>2, <2>1, InTable
<1>6. \A e \in Answers["login"] : e \in {<<"UEXECUTE", "info">>, <<"EXECUTE">>}
  BY <1>4 DEF Answer, LogonKinds
<1>7. QED
  BY <1>4, <1>5, <1>6 DEF Answer

\* What a screen asks at once; the rows of the screens of either thread.
Requests(kinds) == {<<>>} \cup {<<j>> : j \in kinds} \cup {<<j, k>> : j, k \in kinds}
Row(kinds, r) ==
    /\ r.on \in Words \cup {Prompt}
    /\ r.pre \in Words \cup {Keep} /\ r.post \in Words \cup {Keep}
    /\ r.ask \in Requests(kinds)

LogonRow(name, r) ==
    /\ Row(LogonKinds, r)
    /\ r.to \in LogonForms \cup {"test"}
    /\ r.ask # <<>> => \E kind \in LogonKinds : r.ask = <<kind>>
    /\ name = "logon" => r.on = "EXECUTE"
    /\ r.ask = <<"login">> => r.pre = "WAIT" /\ r.post = Keep /\ r.to = "test"

UiRow(r) == Row(UiKinds, r) /\ r.to \in UiPlaces \ {"off", "start"}

ScreenRows ==
    logonMenu \cup Register \cup getPassword \cup uiMenu \cup myinformation \cup
    seeFriend \cup addFriend \cup joinGroup \cup viewInformation \cup
    handleCmd \cup managerFriend \cup managerGroup \cup myGroup \cup ownGroups \cup
    groupChat \cup
    fileSystem("files", "fileList", "fileLook", Keep, "chat") \cup
    fileSystem("gfiles", "gfileList", "gfileLook", "USAT", "gchat")

\* Every row of the screens is one of the thread whose screen it is.
LEMMA ScreensAreRows ==
    \A p \in ScreenRows :
        /\ p = <<p[1], p[2]>>
        /\ \/ p[1] \in LogonForms /\ LogonRow(p[1], p[2])
           \/ p[1] \in UiForms /\ UiRow(p[2])
<1> DEFINE Fits(p) == /\ p = <<p[1], p[2]>>
                      /\ \/ p[1] \in LogonForms /\ LogonRow(p[1], p[2])
                         \/ p[1] \in UiForms /\ UiRow(p[2])
<1>1. /\ <<>> \in Requests(LogonKinds) /\ <<>> \in Requests(UiKinds)
      /\ \A kind \in LogonKinds : <<kind>> \in Requests(LogonKinds)
      /\ \A kind \in UiKinds : <<kind>> \in Requests(UiKinds)
      /\ <<"messdata", "messdata">> \in Requests(UiKinds)
  BY DEF Requests, UiKinds
<1>2. ASSUME NEW p \in logonMenu PROVE Fits(p)
  BY <1>1 DEF logonMenu, at, row, Row, LogonRow, LogonForms, LogonKinds, Words
<1>3. ASSUME NEW p \in Register PROVE Fits(p)
  BY <1>1 DEF Register, at, row, Row, LogonRow, LogonForms, LogonKinds, Words
<1>4. ASSUME NEW p \in getPassword PROVE Fits(p)
  BY <1>1 DEF getPassword, at, row, Row, LogonRow, LogonForms, LogonKinds, Words
<1>5. ASSUME NEW p \in uiMenu PROVE Fits(p)
  BY <1>1 DEF uiMenu, at, row, Row, UiRow, UiForms, UiPlaces, UiKinds, Words
<1>6. ASSUME NEW p \in myinformation \cup seeFriend PROVE Fits(p)
  BY <1>1 DEF myinformation, seeFriend, at, row, Row, UiRow, UiForms, UiPlaces, UiKinds, Words
<1>7. ASSUME NEW p \in addFriend \cup joinGroup PROVE Fits(p)
  BY <1>1 DEF addFriend, joinGroup, at, row, Row, UiRow, UiForms, UiPlaces, UiKinds, Words
<1>8. ASSUME NEW p \in viewInformation \cup handleCmd PROVE Fits(p)
  BY <1>1 DEF viewInformation, handleCmd, at, row, Row, UiRow, UiForms, UiPlaces, UiKinds, Words
<1>9. ASSUME NEW p \in managerFriend PROVE Fits(p)
  BY <1>1 DEF managerFriend, at, row, Row, UiRow, UiForms, UiPlaces, UiKinds, Words
<1>10. ASSUME NEW p \in managerGroup PROVE Fits(p)
  BY <1>1 DEF managerGroup, at, row, Row, UiRow, UiForms, UiPlaces, UiKinds, Words
<1>11. ASSUME NEW p \in myGroup \cup ownGroups PROVE Fits(p)
  BY <1>1 DEF myGroup, ownGroups, at, row, Row, UiRow, UiForms, UiPlaces, UiKinds, Words
<1>12. ASSUME NEW p \in groupChat PROVE Fits(p)
  BY <1>1 DEF groupChat, at, row, Row, UiRow, UiForms, UiPlaces, UiKinds, Words
<1>13. ASSUME NEW p \in fileSystem("files", "fileList", "fileLook", Keep, "chat") PROVE Fits(p)
  <2>1. CASE p \in at("files", {row(Prompt, "UWAIT", <<"list">>, Keep, "fileList"),
                            row(Prompt, "UWAIT", <<"look">>, Keep, "fileLook"),
                            row(Prompt, Keep, <<>>, Keep, "chat")})
    BY <1>1, <2>1 DEF at, row, Row, UiRow, UiForms, UiPlaces, UiKinds, Words
  <2>2. CASE p \in at("fileList", {row("URETURN", Keep, <<>>, Keep, "files")})
    BY <1>1, <2>2 DEF at, row, Row, UiRow, UiForms, UiPlaces, UiKinds, Words
  <2>3. CASE p \in at("fileLook", {row("URETURN", Keep, <<>>, Keep, "files"),
                            row("USAT", Keep, <<>>, Keep, "files")})
    BY <1>1, <2>3 DEF at, row, Row, UiRow, UiForms, UiPlaces, UiKinds, Words
  <2> HIDE DEF Fits
  <2>4. QED
    BY <1>13, <2>1, <2>2, <2>3 DEF fileSystem
<1>14. ASSUME NEW p \in fileSystem("gfiles", "gfileList", "gfileLook", "USAT", "gchat") PROVE Fits(p)
  <2>1. CASE p \in at("gfiles", {row(Prompt, "UWAIT", <<"list">>, Keep, "gfileList"),
                            row(Prompt, "UWAIT", <<"look">>, Keep, "gfileLook"),
                            row(Prompt, "USAT", <<>>, Keep, "gchat")})
    BY <1>1, <2>1 DEF at, row, Row, UiRow, UiForms, UiPlaces, UiKinds, Words
  <2>2. CASE p \in at("gfileList", {row("URETURN", Keep, <<>>, Keep, "gfiles")})
    BY <1>1, <2>2 DEF at, row, Row, UiRow, UiForms, UiPlaces, UiKinds, Words
  <2>3. CASE p \in at("gfileLook", {row("URETURN", Keep, <<>>, Keep, "gfiles"),
                            row("USAT", Keep, <<>>, Keep, "gfiles")})
    BY <1>1, <2>3 DEF at, row, Row, UiRow, UiForms, UiPlaces, UiKinds, Words
  <2> HIDE DEF Fits
  <2>4. QED
    BY <1>14, <2>1, <2>2, <2>3 DEF fileSystem
<1> HIDE DEF Fits
<1>15. \A p \in ScreenRows : Fits(p)
  BY <1>2, <1>3, <1>4, <1>5, <1>6, <1>7, <1>8, <1>9, <1>10, <1>11, <1>12, <1>13, <1>14
     DEF ScreenRows
<1>16. QED
  BY <1>15 DEF Fits

\* The rows of a thread's screen.
LEMMA RowsOf ==
    /\ \A name \in LogonPlaces \cap DOMAIN Screens :
          name \in LogonForms /\ \A r \in Screens[name] : LogonRow(name, r)
    /\ \A name \in UiPlaces \cap DOMAIN Screens :
          name \in UiForms /\ \A r \in Screens[name] : UiRow(r)
<1>1. Screens = Table(ScreenRows)
  BY DEF Screens, ScreenRows
<1>2. \A p \in ScreenRows : p = <<p[1], p[2]>>
  BY ScreensAreRows
<1>3. ASSUME NEW name \in DOMAIN Screens
      PROVE  \E r : <<name, r>> \in ScreenRows
  <2> DEFINE rows == ScreenRows
  <2>0. \A p \in rows : p = <<p[1], p[2]>>
    BY <1>2
  <2> HIDE DEF rows
  <2>4. DOMAIN Table(rows) = {p[1] : p \in rows}
    BY <2>0, InTable
  <2>1. PICK p \in ScreenRows : name = p[1]
    BY <1>1, <2>4 DEF rows
  <2>2. <<p[1], p[2]>> \in ScreenRows
    BY <1>2
  <2>3. QED
    BY <2>1, <2>2
<1>4. ASSUME NEW name, NEW r, <<name, r>> \in ScreenRows
      PROVE  \/ name \in LogonForms /\ LogonRow(name, r)
             \/ name \in UiForms /\ UiRow(r)
  <2>1. <<name, r>>[1] = name /\ <<name, r>>[2] = r
    OBVIOUS
  <2>2. QED
    BY <1>4, <2>1, ScreensAreRows
<1>5. ASSUME NEW name \in DOMAIN Screens, NEW r \in Screens[name]
      PROVE  <<name, r>> \in ScreenRows
  BY <1>1, <1>2, InTable
<1>6. LogonPlaces \cap UiForms = {} /\ UiPlaces \cap LogonForms = {}
  BY DEF LogonPlaces, LogonForms, LogonWaits, UiPlaces, UiForms
<1>7. QED
  BY <1>3, <1>4, <1>5, <1>6

\* What a screen asks at once is a sequence of kinds.
LEMMA RequestsAreSeqs ==
    ASSUME NEW kinds, NEW ask \in Requests(kinds)
    PROVE  ask \in Seq(kinds)
<1>1. CASE ask = <<>>
  BY <1>1
<1>2. ASSUME NEW j \in kinds, ask = <<j>> PROVE ask \in Seq(kinds)
  BY <1>2, ShortTuples
<1>3. ASSUME NEW j \in kinds, NEW k \in kinds, ask = <<j, k>> PROVE ask \in Seq(kinds)
  BY <1>3, ShortTuples
<1>4. QED
  BY <1>1, <1>2, <1>3 DEF Requests

\* A function on the first numbers is a sequence.
LEMMA FunctionIsSeq ==
    ASSUME NEW S, NEW n \in Nat, NEW f \in [1 .. n -> S]
    PROVE  f \in Seq(S) /\ Len(f) = n
<1>1. f \in Seq(S)
  BY SeqDef
<1>2. DOMAIN f = 1 .. n
  OBVIOUS
<1>3. QED
  BY <1>1, <1>2

\* The requests under way after a thread has sent: those that were, of which
\* it waits for its own no longer, and the new ones if there is a connection.
SentIs(Q, t, kinds) ==
    /\ Q \in Seq(Entry)
    /\ Len(Q) >= Len(inflight) /\ Len(Q) <= Len(inflight) + Len(kinds)
    /\ Up => Len(Q) = Len(inflight) + Len(kinds)
    /\ \A k \in 1 .. Len(inflight) :
          /\ Q[k].who = inflight[k].who /\ Q[k].left = inflight[k].left
          /\ Q[k].own = (inflight[k].own /\ inflight[k].who # t)
    /\ \A k \in 1 .. Len(Q) : k > Len(inflight) =>
          /\ Up
          /\ k - Len(inflight) \in 1 .. Len(kinds)
          /\ Q[k].who = t /\ Q[k].left = Answers[kinds[k - Len(inflight)]]
          /\ Q[k].own = TRUE

\* That is what Send gives.
LEMMA Sent ==
    ASSUME NEW t \in Threads, NEW kinds \in Seq(LogonKinds \cup UiKinds),
           inflight \in Seq(Entry)
    PROVE  SentIs(Send(t, kinds), t, kinds)
<1> DEFINE n == IF Up THEN Len(kinds) ELSE 0
           old(k) == IF inflight[k].who = t THEN [inflight[k] EXCEPT !.own = FALSE]
                     ELSE inflight[k]
           new(k) == [who |-> t, left |-> Answers[kinds[k]], own |-> TRUE]
           a == [k \in 1 .. Len(inflight) |-> old(k)]
           b == [k \in 1 .. n |-> new(k)]
<1>1. n \in Nat /\ n <= Len(kinds) /\ (n > 0 => Up)
  OBVIOUS
<1>2. ASSUME NEW k \in 1 .. Len(inflight)
      PROVE  /\ old(k) \in Entry
             /\ old(k).who = inflight[k].who /\ old(k).left = inflight[k].left
             /\ old(k).own = (inflight[k].own /\ inflight[k].who # t)
  <2>1. inflight[k] \in Entry
    OBVIOUS
  <2>2. QED
    BY <2>1 DEF Entry
<1>3. ASSUME NEW k \in 1 .. n
      PROVE  /\ new(k) \in Entry
             /\ new(k).who = t /\ new(k).left = Answers[kinds[k]] /\ new(k).own = TRUE
  <2>1. kinds[k] \in LogonKinds \cup UiKinds
    BY <1>1
  <2>2. Answers[kinds[k]] \in SUBSET Parts
    BY <2>1, AnswersTo
  <2>3. QED
    BY <2>2 DEF Entry
<1> HIDE DEF n, old, new
<1>4. a \in Seq(Entry) /\ Len(a) = Len(inflight)
      /\ \A k \in 1 .. Len(inflight) : a[k] = old(k)
  <2>1. a \in [1 .. Len(inflight) -> Entry]
    BY <1>2
  <2>2. QED
    BY <2>1, FunctionIsSeq
<1>5. b \in Seq(Entry) /\ Len(b) = n /\ \A k \in 1 .. n : b[k] = new(k)
  <2>1. b \in [1 .. n -> Entry]
    BY <1>3
  <2>2. QED
    BY <1>1, <2>1, FunctionIsSeq
<1>6. Send(t, kinds) = a \o b
  <2>1. DOMAIN inflight = 1 .. Len(inflight)
    OBVIOUS
  <2>2. QED
    BY <2>1 DEF Send, n, old, new
<1> HIDE DEF a, b
<1>7. a \o b \in Seq(Entry) /\ Len(a \o b) = Len(inflight) + n
  <2>1. a \in Seq(Entry) /\ b \in Seq(Entry)
    BY <1>4, <1>5
  <2>2. a \o b \in Seq(Entry) /\ Len(a \o b) = Len(a) + Len(b)
    BY <2>1, ConcatProperties
  <2>3. QED
    BY <2>2, <1>4, <1>5
<1>8. \A k \in 1 .. Len(inflight) : (a \o b)[k] = old(k)
  BY <1>1, <1>4, <1>5, ConcatProperties
<1>9. ASSUME NEW k \in 1 .. Len(inflight) + n, k > Len(inflight)
      PROVE  k - Len(inflight) \in 1 .. n /\ (a \o b)[k] = new(k - Len(inflight))
  <2>1. k - Len(inflight) \in 1 .. n
    BY <1>1, <1>9
  <2>2. (a \o b)[k] = b[k - Len(inflight)]
    BY <1>1, <1>4, <1>5, <1>9, ConcatProperties
  <2>3. QED
    BY <2>1, <2>2, <1>5
<1>10. ASSUME NEW k \in 1 .. Len(inflight) + n, k > Len(inflight)
       PROVE  /\ Up
              /\ k - Len(inflight) \in 1 .. Len(kinds)
              /\ (a \o b)[k].who = t
              /\ (a \o b)[k].left = Answers[kinds[k - Len(inflight)]]
              /\ (a \o b)[k].own = TRUE
  <2>1. k - Len(inflight) \in 1 .. n /\ (a \o b)[k] = new(k - Len(inflight))
    BY <1>9, <1>10
  <2>2. Up /\ k - Len(inflight) \in 1 .. Len(kinds)
    BY <1>1, <2>1
  <2>3. QED
    BY <1>3, <2>1, <2>2, Zenon
<1>11. /\ Len(a \o b) >= Len(inflight) /\ Len(a \o b) <= Len(inflight) + Len(kinds)
       /\ Up => Len(a \o b) = Len(inflight) + Len(kinds)
  <2>1. Up => n = Len(kinds)
    BY DEF n
  <2>2. QED
    BY <1>1, <1>7, <2>1
<1>12. ASSUME NEW k \in 1 .. Len(inflight)
       PROVE  /\ (a \o b)[k].who = inflight[k].who
              /\ (a \o b)[k].left = inflight[k].left
              /\ (a \o b)[k].own = (inflight[k].own /\ inflight[k].who # t)
  BY <1>2, <1>8
<1>13. \A k \in 1 .. Len(a \o b) : k \in 1 .. Len(inflight) + n
  BY <1>7
<1>14. \A k \in 1 .. Len(a \o b) : k > Len(inflight) =>
             /\ Up
             /\ k - Len(inflight) \in 1 .. Len(kinds)
             /\ (a \o b)[k].who = t
             /\ (a \o b)[k].left = Answers[kinds[k - Len(inflight)]]
             /\ (a \o b)[k].own = TRUE
  BY <1>10, <1>13
<1>15. SentIs(a \o b, t, kinds)
  <2>1. a \o b \in Seq(Entry)
    BY <1>7
  <2>2. QED
    BY <2>1, <1>11, <1>12, <1>14, Zenon DEF SentIs
<1>16. QED
  BY <1>6, <1>15

\* What is left of a sequence when an element is taken out.
LEMMA RemoveAtIs ==
    ASSUME NEW S, NEW s \in Seq(S), NEW i \in 1 .. Len(s)
    PROVE  /\ RemoveAt(s, i) \in Seq(S)
           /\ Len(RemoveAt(s, i)) = Len(s) - 1
           /\ \A j \in 1 .. Len(s) - 1 : /\ j < i => RemoveAt(s, i)[j] = s[j]
                                         /\ j >= i => RemoveAt(s, i)[j] = s[j + 1]
<1> DEFINE a == SubSeq(s, 1, i - 1)
           b == SubSeq(s, i + 1, Len(s))
<1>1. a \in Seq(S) /\ Len(a) = i - 1 /\ \A j \in 1 .. i - 1 : a[j] = s[j]
  OBVIOUS
<1>2. b \in Seq(S) /\ Len(b) = Len(s) - i /\ \A j \in 1 .. Len(s) - i : b[j] = s[i + j]
  OBVIOUS
<1>3. RemoveAt(s, i) = a \o b
  BY DEF RemoveAt
<1> HIDE DEF a, b
<1>4. a \o b \in Seq(S) /\ Len(a \o b) = Len(s) - 1
  <2>1. a \in Seq(S) /\ b \in Seq(S)
    BY <1>1, <1>2
  <2>2. a \o b \in Seq(S) /\ Len(a \o b) = Len(a) + Len(b)
    BY <2>1, ConcatProperties
  <2>3. QED
    BY <2>2, <1>1, <1>2
<1>5. ASSUME NEW j \in 1 .. Len(s) - 1
      PROVE  (j < i => (a \o b)[j] = s[j]) /\ (j >= i => (a \o b)[j] = s[j + 1])
  <2>1. (a \o b)[j] = IF j <= Len(a) THEN a[j] ELSE b[j - Len(a)]
    BY <1>1, <1>2, ConcatProperties
  <2>2. ASSUME j >= i PROVE j - (i - 1) \in 1 .. Len(s) - i /\ i + (j - (i - 1)) = j + 1
    BY <2>2
  <2>3. QED
    BY <2>1, <2>2, <1>1, <1>2
<1>6. QED
  BY <1>3, <1>4, <1>5

\* What is left of a short answer: nothing of one part, the other part of two.
LEMMA RestOfShort ==
    /\ \A S : \A r \in Seq(S) : Len(r) = 0 => r = <<>>
    /\ \A S : \A x, y \in S :
          RemoveAt(<<x, y>>, 1) = <<y>> /\ RemoveAt(<<x, y>>, 2) = <<x>>
<1>1. ASSUME NEW S, NEW r \in Seq(S), Len(r) = 0 PROVE r = <<>>
  BY <1>1
<1>2. ASSUME NEW S, NEW r \in Seq(S), Len(r) = 1 PROVE r = <<r[1]>>
  BY <1>2
<1>3. ASSUME NEW S, NEW x \in S, NEW y \in S
      PROVE  RemoveAt(<<x, y>>, 1) = <<y>> /\ RemoveAt(<<x, y>>, 2) = <<x>>
  <2> DEFINE s == <<x, y>>
  <2>1. s \in Seq(S) /\ Len(s) = 2 /\ s[1] = x /\ s[2] = y
    OBVIOUS
  <2> HIDE DEF s
  <2>2. ASSUME NEW i \in {1, 2}
        PROVE  /\ RemoveAt(s, i) \in Seq(S) /\ Len(RemoveAt(s, i)) = 1
               /\ RemoveAt(s, i)[1] = (IF i = 1 THEN y ELSE x)
    <3>1. i \in 1 .. Len(s) /\ 1 \in 1 .. Len(s) - 1 /\ Len(s) - 1 = 1
      BY <2>1
    <3>2. RemoveAt(s, i) \in Seq(S) /\ Len(RemoveAt(s, i)) = 1
      BY <3>1, <2>1, RemoveAtIs
    <3>3. /\ 1 < i => RemoveAt(s, i)[1] = s[1]
          /\ 1 >= i => RemoveAt(s, i)[1] = s[1 + 1]
      BY <3>1, <2>1, RemoveAtIs
    <3>4. QED
      BY <3>1, <3>2, <3>3, <2>1
  <2>3. ASSUME NEW i \in {1, 2} PROVE RemoveAt(s, i) = <<RemoveAt(s, i)[1]>>
    BY <2>2, <1>2
  <2>4. QED
    BY <2>2, <2>3 DEF s
<1>4. QED
  BY <1>1, <1>3

-----------------------------------------------------------------------------
(* One lemma for each kind of step.                                         *)

\* The client is started, or the screens of a user who is logged in.
LEMMA LogonInit == Init => LogonInv
<1> SUFFICES ASSUME Init PROVE LogonInv
  OBVIOUS
<1>1. ConInv
  BY DEF Init, FreshInit, ScreenInit, ConInit, ConRest, ConInv, ConTypes,
     UntouchedBefore, ChannelMatchesState
<1>2. inflight = <<>> /\ Len(inflight) = 0 /\ inflight \in Seq(Entry)
  BY DEF Init
<1>3. Asked(inflight)
  BY <1>2 DEF Asked
<1>4. CASE FreshInit
  <2>1. LogonTypes(scr, word, seen, post, inflight)
    BY <1>2, <1>4 DEF Init, FreshInit, LogonTypes, Threads, LogonPlaces, UiPlaces, Words
  <2>2. Quiet(scr, word, seen, post, inflight)
    BY <1>2, <1>4 DEF FreshInit, Quiet, Threads
  <2>3. Starting(scr, uiStart, missed, deleted)
    BY <1>4 DEF FreshInit, Starting, Threads
  <2>4. BeforeConnection
    BY <1>2, <1>4 DEF FreshInit, BeforeConnection, Threads
  <2>5. QED
    BY <1>1, <1>3, <2>1, <2>2, <2>3, <2>4 DEF LogonInv
<1>5. CASE ScreenInit
  <2>1. /\ scr["logon"] = "asleep" /\ word["logon"] = "WAIT"
        /\ scr["ui"] \in UiPlaces \ {"off"} /\ scr["ui"] \in UiPlaces
        /\ word["ui"] \in Words
        /\ scr \in [Threads -> {scr["logon"], scr["ui"]}]
        /\ word \in [Threads -> {word["logon"], word["ui"]}]
    BY <1>5 DEF ScreenInit, Threads, UiPlaces, UiForms, Words
  <2>2. LogonTypes(scr, word, seen, post, inflight)
    BY <1>2, <2>1 DEF Init, LogonTypes, Threads, LogonPlaces, LogonWaits, Words
  <2>3. Quiet(scr, word, seen, post, inflight)
    BY <1>2, <2>1 DEF Init, Quiet, Waiting, LogonWaits, Threads
  <2>4. Starting(scr, uiStart, missed, deleted)
    BY <2>1 DEF Init, Starting
  <2>5. BeforeConnection
    BY <1>5, ClientAssumption DEF ScreenInit, ConRest, BeforeConnection
  <2>6. QED
    BY <1>1, <1>3, <2>2, <2>3, <2>4, <2>5 DEF LogonInv
<1>6. QED
  BY <1>4, <1>5 DEF Init

\* A step that changes nothing but the ui thread's screen, word and store, and
\* does not start or end the thread.
LEMMA UiOnly ==
    ASSUME LogonInv,
           UNCHANGED <<conVars, seen, inflight, uiStart, history>>,
           scr' \in [Threads -> LogonPlaces \cup UiPlaces],
           scr'["logon"] = scr["logon"], scr'["ui"] \in UiPlaces,
           scr'["ui"] = "off" <=> scr["ui"] = "off",
           scr'["ui"] = scr["ui"] \/ seen["ui"] = "none",
           word' \in [Threads -> Words], word'["logon"] = word["logon"],
           post' \in [Threads -> Words \cup {Keep}], post'["logon"] = post["logon"],
           "logon" \in missed <=> "logon" \in missed'
    PROVE  LogonInv'
<1> USE DEF Threads
<1>1. ConInv'
  BY DEF LogonInv, ConInv, ConTypes, UntouchedBefore, ChannelMatchesState, conVars
<1>2. LogonTypes(scr', word', seen', post', inflight')
  BY DEF LogonInv, LogonTypes
<1>3. Asked(inflight')
  BY DEF LogonInv
<1>4. ASSUME "logon" \notin disturbed'
      PROVE  Quiet(scr', word', seen', post', inflight')
  <2>1. Quiet(scr, word, seen, post, inflight)
    BY <1>4 DEF LogonInv, history
  <2>2. Waiting(scr, word, seen, post) => Waiting(scr', word', seen', post')
    BY DEF Waiting
  <2>3. QED
    BY <2>1, <2>2 DEF Quiet
<1>5. Starting(scr', uiStart', missed', deleted')
  BY DEF LogonInv, Starting, history
<1>6. BeforeConnection'
  BY DEF LogonInv, BeforeConnection, conVars
<1>7. QED
  BY <1>1, <1>2, <1>3, <1>4, <1>5, <1>6 DEF LogonInv

\* The chat, its reader and the messages that arrive leave the logon thread be.
LEMMA ChatLogon ==
    ASSUME LogonInv, ChatNext \/ ReaderNext \/ quitChat \/ joinReader
    PROVE  LogonInv'
<1> USE DEF chatUnchanged, Threads
<1>1. /\ scr \in [Threads -> LogonPlaces \cup UiPlaces] /\ scr["ui"] \in UiPlaces
      /\ scr["logon"] \in LogonPlaces
      /\ word \in [Threads -> Words] /\ post \in [Threads -> Words \cup {Keep}]
      /\ seen["ui"] # "none" => scr["ui"] \in UiForms
  BY RowsOf DEF LogonInv, LogonTypes
<1>2. ASSUME NEW c \in ChatScreens, openChat(c)
      PROVE  LogonInv'
  <2>1. seen["ui"] = "none" /\ scr["ui"] # "off"
    BY <1>1, <1>2 DEF openChat, UiForms, ChatScreens
  <2>2. scr' = [scr EXCEPT !["ui"] = c] /\ c \in UiPlaces \ {"off"}
    BY <1>2 DEF openChat, UiPlaces, UiForms, ChatScreens
  <2>3. word' \in [Threads -> Words] /\ word'["logon"] = word["logon"]
    BY <1>1, <1>2 DEF openChat, Words
  <2>4. QED
    BY <1>1, <1>2, <2>1, <2>2, <2>3, UiOnly DEF openChat
<1>3. ASSUME NEW c \in ChatScreens, pushMessage(c) \/ remind(c)
      PROVE  LogonInv'
  BY <1>1, <1>3, UiOnly DEF pushMessage, remind, notifyReader
<1>4. CASE ReaderNext
  BY <1>1, <1>4, UiOnly DEF ReaderNext, fetchMessages, testReader, sleepReader,
     wakeReader, resetReminder, ReaderGoes
<1>5. CASE quitChat
  BY <1>1, <1>5, UiOnly DEF quitChat, notifyReader
<1>6. CASE joinReader
  <2>1. seen["ui"] = "none" /\ scr["ui"] # "off"
    BY <1>1, <1>6 DEF joinReader, Quitting, UiForms
  <2> DEFINE to == IF chat = "chat" THEN "seeFriend" ELSE "groupList"
  <2>2. scr' = [scr EXCEPT !["ui"] = to] /\ to \in UiPlaces \ {"off"}
    BY <1>6 DEF joinReader, UiPlaces, UiForms
  <2> HIDE DEF to
  <2>3. QED
    BY <1>1, <1>6, <2>1, <2>2, UiOnly DEF joinReader
<1>7. QED
  BY <1>2, <1>3, <1>4, <1>5, <1>6 DEF ChatNext

\* A thread makes the store it has left: the logon thread has none while it
\* waits.
LEMMA StoreLogon ==
    ASSUME LogonInv, NEW t \in Threads, updataState(t)
    PROVE  LogonInv'
<1> USE DEF Threads
<1>1. /\ scr \in [Threads -> LogonPlaces \cup UiPlaces] /\ scr["ui"] \in UiPlaces
      /\ word \in [Threads -> Words] /\ post \in [Threads -> Words \cup {Keep}]
  BY DEF LogonInv, LogonTypes
<1>2. word' = [word EXCEPT ![t] = post[t]] /\ post' = [post EXCEPT ![t] = Keep]
      /\ post[t] # Keep /\ post[t] \in Words
  BY <1>1 DEF updataState
<1>3. CASE t = "ui"
  BY <1>1, <1>2, <1>3, UiOnly DEF updataState
<1>4. CASE t = "logon"
  <2>1. ~Waiting(scr, word, seen, post)
    BY <1>2, <1>4 DEF Waiting
  <2>2. UNCHANGED <<conVars, scr, seen, inflight, uiStart, missed, history>>
    BY DEF updataState
  <2>3. ConInv' /\ Asked(inflight') /\ Starting(scr', uiStart', missed', deleted')
        /\ BeforeConnection'
    BY <2>2 DEF LogonInv, ConInv, ConTypes, UntouchedBefore, ChannelMatchesState, conVars,
       history, BeforeConnection
  <2>4. LogonTypes(scr', word', seen', post', inflight')
    BY <1>2, <2>2 DEF LogonInv, LogonTypes
  <2>5. ASSUME "logon" \notin disturbed'
        PROVE  Quiet(scr', word', seen', post', inflight')
    <3>1. Quiet(scr, word, seen, post, inflight)
      BY <2>2, <2>5 DEF LogonInv, history
    <3>2. QED
      BY <2>1, <2>2, <3>1 DEF Quiet
  <2>6. QED
    BY <2>3, <2>4, <2>5 DEF LogonInv
<1>5. QED
  BY <1>3, <1>4

\* The logon thread moves between its menu and its sleep.
LEMMA GoesLogon ==
    ASSUME LogonInv, skipMenu \/ testLogon \/ sleepLogon \/ wakeLogon
    PROVE  LogonInv'
<1> USE DEF Threads
<1>1. PICK from \in LogonWaits, to \in LogonWaits :
          /\ LogonGoes(from, to)
          /\ to \in {"tested", "asleep"} /\ uiStart => from = "tested"
          /\ from = "logon" => seen["logon"] = "none"
          /\ from = "test" => to \notin {"tested", "asleep"} \/ ~uiStart
  BY DEF skipMenu, testLogon, sleepLogon, wakeLogon, MayGoOn, LogonWaits
<1>2. UNCHANGED <<conVars, word, seen, post, inflight, uiStart, history>>
      /\ scr["logon"] = from /\ scr' = [scr EXCEPT !["logon"] = to]
  BY <1>1 DEF LogonGoes
<1>3. scr \in [Threads -> LogonPlaces \cup UiPlaces] /\ LogonWaits \subseteq LogonPlaces
      /\ "off" \notin LogonWaits
  BY DEF LogonInv, LogonTypes, LogonPlaces, LogonWaits
<1>4. scr'["logon"] = to /\ scr'["ui"] = scr["ui"]
      /\ scr' \in [Threads -> LogonPlaces \cup UiPlaces]
  BY <1>2, <1>3
<1>5. seen["logon"] = "none"
  <2>1. seen["logon"] # "none" => scr["logon"] \in LogonForms
    BY RowsOf DEF LogonInv, LogonTypes
  <2>2. QED
    BY <1>1, <1>2, <2>1 DEF LogonForms, LogonWaits
<1>6. ConInv' /\ Asked(inflight') /\ BeforeConnection'
  BY <1>2, <1>3, <1>4 DEF LogonInv, ConInv, ConTypes, UntouchedBefore, ChannelMatchesState,
     conVars, BeforeConnection
<1>7. LogonTypes(scr', word', seen', post', inflight')
  BY <1>1, <1>2, <1>3, <1>4, <1>5 DEF LogonInv, LogonTypes
<1>8. ASSUME "logon" \notin disturbed'
      PROVE  Quiet(scr', word', seen', post', inflight')
  <2>1. Quiet(scr, word, seen, post, inflight)
    BY <1>2, <1>8 DEF LogonInv, history
  <2>2. Waiting(scr, word, seen, post) => Waiting(scr', word', seen', post')
    BY <1>1, <1>2, <1>4 DEF Waiting
  <2>3. QED
    BY <1>2, <1>4, <2>1, <2>2 DEF Quiet
<1>9. Starting(scr', uiStart', missed', deleted')
  BY <1>1, <1>2, <1>3, <1>4 DEF LogonInv, Starting, LogonGoes, history
<1>10. QED
  BY <1>6, <1>7, <1>8, <1>9 DEF LogonInv

\* The connection to the chat server starts the logon thread; nothing has been
\* asked before.
LEMMA ConnectionLogon ==
    ASSUME LogonInv, Connections
    PROVE  LogonInv'
<1> USE DEF Threads
<1>1. ConInv'
  BY ConNextInv DEF LogonInv, Connections
<1>2. /\ "chat" \notin started' => "chat" \notin started
      /\ channel_'["chat"] = "writing" =>
            channel_["chat"] = "writing" \/ "chat" \notin started
  BY ClientAssumption DEF Connections, ConNext, connect, connecting, retry, giveUp,
     handleWrite, handleError, removeAndResetChannel, newConnection, resetChannel,
     removeConnection, LogonInv, ConInv, ConTypes
<1>3. CASE UNCHANGED clientVars
  <2>1. BeforeConnection'
    BY <1>2, <1>3 DEF LogonInv, BeforeConnection, clientVars
  <2>2. QED
    BY <1>1, <1>3, <2>1 DEF LogonInv, clientVars
<1>4. CASE ~Up /\ connection_'["chat"] = "up"
  <2>1. /\ channel_["chat"] = "writing"
        /\ channel_'["chat"] # "writing" /\ "chat" \in started'
    BY <1>4, ClientAssumption DEF Up, Connections, ConNext, connect, connecting, retry,
       giveUp, handleWrite, handleError, removeAndResetChannel, newConnection,
       resetChannel, removeConnection, LogonInv, ConInv, ConTypes
  <2>2. scr["logon"] = "off" /\ scr["ui"] = "off" /\ inflight = <<>>
    BY <2>1 DEF LogonInv, BeforeConnection
  <2>3. /\ scr' = [scr EXCEPT !["logon"] = "logon"]
        /\ word' = [word EXCEPT !["logon"] = "EXECUTE"]
        /\ uiStart' = TRUE
        /\ UNCHANGED <<seen, post, inflight, missed, disturbed, deleted>>
    BY <1>4 DEF Connections, history
  <2>4. scr \in [Threads -> LogonPlaces \cup UiPlaces] /\ word \in [Threads -> Words]
    BY DEF LogonInv, LogonTypes
  <2>5. seen["logon"] = "none"
    BY <2>2, RowsOf DEF LogonInv, LogonTypes, LogonForms
  <2>6. scr'["logon"] = "logon" /\ scr'["ui"] = "off"
    BY <2>2, <2>3, <2>4
  <2>7. LogonTypes(scr', word', seen', post', inflight')
    BY <2>3, <2>4, <2>5, <2>6 DEF LogonInv, LogonTypes, LogonPlaces, LogonWaits, Words
  <2>8. Asked(inflight') /\ Quiet(scr', word', seen', post', inflight')
    <3>1. Len(inflight') = 0
      BY <2>2, <2>3
    <3>2. QED
      BY <2>6, <3>1 DEF Asked, Quiet
  <2>9. Starting(scr', uiStart', missed', deleted')
    BY <2>3, <2>6 DEF Starting
  <2>10. BeforeConnection'
    BY <2>1 DEF BeforeConnection
  <2>11. QED
    BY <1>1, <2>7, <2>8, <2>9, <2>10 DEF LogonInv
<1>5. QED
  BY <1>3, <1>4 DEF Connections

\* A screen reads its word: while the logon thread waits its menu reads
\* nothing it goes on with.
LEMMA LookLogon ==
    ASSUME LogonInv, NEW t \in Threads, look(t)
    PROVE  LogonInv'
<1> USE DEF Threads
<1>1. UNCHANGED <<conVars, word, scr, post, inflight, uiStart, missed, deleted>>
  BY DEF look
<1>2. scr[t] \in DOMAIN Screens /\ seen[t] = "none"
  BY DEF look
<1>3. PICK r \in Screens[scr[t]] :
          r.on \in {word[t], Prompt} /\ seen' = [seen EXCEPT ![t] = r.on]
  BY DEF look
<1>4. /\ scr["logon"] \in LogonPlaces /\ scr["ui"] \in UiPlaces
      /\ seen \in [Threads -> Words \cup {Prompt, "none"}]
  BY DEF LogonInv, LogonTypes
<1>5. r.on \in Words \cup {Prompt} /\ (scr[t] = "logon" => r.on = "EXECUTE")
      /\ (t = "logon" => scr[t] \in LogonForms)
  BY <1>2, <1>3, <1>4, RowsOf DEF LogonRow, UiRow, Row, UiPlaces, UiForms
<1>6. ConInv' /\ Asked(inflight') /\ Starting(scr', uiStart', missed', deleted')
      /\ BeforeConnection'
  BY <1>1 DEF LogonInv, ConInv, ConTypes, UntouchedBefore, ChannelMatchesState, conVars,
     BeforeConnection
<1>7. LogonTypes(scr', word', seen', post', inflight')
  BY <1>1, <1>2, <1>3, <1>4, <1>5 DEF LogonInv, LogonTypes
<1>8. ASSUME "logon" \notin disturbed'
      PROVE  Quiet(scr', word', seen', post', inflight')
  <2>1. CASE inflight = <<>> /\ scr["ui"] = "off"
    <3>1. Len(inflight') = 0
      BY <1>1, <2>1
    <3>2. QED
      BY <1>1, <2>1, <3>1 DEF Quiet
  <2>2. CASE ~(inflight = <<>> /\ scr["ui"] = "off")
    <3>1. "logon" \notin disturbed
      BY <1>8, <2>2 DEF look
    <3>2. Quiet(scr, word, seen, post, inflight)
      BY <3>1 DEF LogonInv
    <3>3. Waiting(scr, word, seen, post) => Waiting(scr', word', seen', post')
      <4>1. Waiting(scr, word, seen, post) => t = "ui"
        BY <1>3, <1>5 DEF Waiting, LogonForms, LogonWaits, Prompt
      <4>2. QED
        BY <1>1, <1>3, <1>4, <4>1 DEF Waiting
    <3>4. QED
      BY <1>1, <3>2, <3>3 DEF Quiet
  <2>3. QED
    BY <2>1, <2>2
<1>9. QED
  BY <1>6, <1>7, <1>8 DEF LogonInv

\* Requests of which nothing new concerns the logon thread or starts a ui thread.
Leaves(Q) ==
    /\ Q \in Seq(Entry) /\ Asked(Q)
    /\ \A k \in 1 .. Len(Q) : ~NoInfo(Q[k]) =>
          k \in 1 .. Len(inflight) /\ ~NoInfo(inflight[k]) /\ Q[k].own = inflight[k].own
    /\ \A k \in 1 .. Len(Q) : OwnLogon(Q[k]) =>
          /\ k \in 1 .. Len(inflight) /\ OwnLogon(inflight[k])
          /\ Q[k].left = inflight[k].left

\* What the ui thread sends leaves the requests of the logon thread as they
\* were, and no answer to it starts a ui thread.
LEMMA SentByUi ==
    ASSUME inflight \in Seq(Entry), Asked(inflight), NEW kinds \in Seq(UiKinds),
           NEW Q, Q = Send("ui", kinds)
    PROVE  Leaves(Q)
<1>1. /\ kinds \in Seq(LogonKinds \cup UiKinds) /\ "ui" \in Threads
      /\ \A k \in 1 .. Len(kinds) : kinds[k] \in (LogonKinds \cup UiKinds) \ {"login"}
  <2>1. UiKinds \subseteq (LogonKinds \cup UiKinds) \ {"login"}
    BY DEF UiKinds, LogonKinds
  <2>2. \A k \in 1 .. Len(kinds) : kinds[k] \in UiKinds
    OBVIOUS
  <2>3. kinds \in Seq(LogonKinds \cup UiKinds)
    BY SeqMonotonic
  <2>4. QED
    BY <2>1, <2>2, <2>3 DEF Threads
<1>2. /\ Q \in Seq(Entry) /\ Len(Q) >= Len(inflight)
      /\ \A k \in 1 .. Len(inflight) :
            /\ Q[k].who = inflight[k].who /\ Q[k].left = inflight[k].left
            /\ Q[k].own = (inflight[k].own /\ inflight[k].who # "ui")
      /\ \A k \in 1 .. Len(Q) : k > Len(inflight) =>
            /\ k - Len(inflight) \in 1 .. Len(kinds)
            /\ Q[k].who = "ui" /\ Q[k].left = Answers[kinds[k - Len(inflight)]]
  <2>1. SentIs(Q, "ui", kinds)
    BY <1>1, Sent
  <2>2. QED
    BY <2>1, Zenon DEF SentIs
<1>3. ASSUME NEW k \in 1 .. Len(Q)
      PROVE  \/ k \in 1 .. Len(inflight)
             \/ NoInfo(Q[k]) /\ ~OwnLogon(Q[k])
  <2>1. CASE k > Len(inflight)
    <3>1. Q[k].who = "ui" /\ Q[k].left = Answers[kinds[k - Len(inflight)]]
          /\ kinds[k - Len(inflight)] \in (LogonKinds \cup UiKinds) \ {"login"}
      BY <1>1, <1>2, <2>1
    <3>2. \A e \in Q[k].left : Quietly(e)
      BY <3>1, AnswersTo
    <3>3. QED
      BY <3>1, <3>2 DEF Quietly, NoInfo, OwnLogon
  <2>2. QED
    BY <2>1
<1>4. ASSUME NEW k \in 1 .. Len(inflight)
      PROVE  /\ NoInfo(Q[k]) <=> NoInfo(inflight[k])
             /\ LoginLeft(Q[k]) <=> LoginLeft(inflight[k])
             /\ OwnLogon(Q[k]) => OwnLogon(inflight[k])
             /\ Q[k].who = inflight[k].who /\ Q[k].left = inflight[k].left
             /\ Q[k].who = "logon" => Q[k].own = inflight[k].own
  <2>1. inflight[k] \in Entry
    OBVIOUS
  <2>2. Q[k].who = inflight[k].who /\ Q[k].left = inflight[k].left
        /\ Q[k].own = (inflight[k].own /\ inflight[k].who # "ui")
    BY <1>2
  <2>3. NoInfo(Q[k]) <=> NoInfo(inflight[k])
    BY <2>2 DEF NoInfo
  <2>4. LoginLeft(Q[k]) <=> LoginLeft(inflight[k])
    BY <2>2 DEF LoginLeft
  <2>5. Q[k].own => inflight[k].own
    BY <2>2
  <2>6. Q[k].who = "logon" => Q[k].own = inflight[k].own
    BY <2>1, <2>2 DEF Entry
  <2>7. QED
    BY <2>2, <2>3, <2>4, <2>5, <2>6 DEF OwnLogon
<1>5. ASSUME NEW k \in 1 .. Len(Q), ~NoInfo(Q[k])
      PROVE  /\ k \in 1 .. Len(inflight) /\ ~NoInfo(inflight[k])
             /\ Q[k].who = "logon" /\ LoginLeft(Q[k]) /\ Q[k].own = inflight[k].own
  <2>1. k \in 1 .. Len(inflight)
    BY <1>3, <1>5
  <2>2. ~NoInfo(inflight[k])
    BY <1>4, <1>5, <2>1
  <2>3. inflight[k].who = "logon" /\ LoginLeft(inflight[k])
    BY <2>1, <2>2 DEF Asked
  <2>4. QED
    BY <1>4, <2>1, <2>2, <2>3
<1>6. ASSUME NEW k \in 1 .. Len(Q), OwnLogon(Q[k])
      PROVE  /\ k \in 1 .. Len(inflight) /\ OwnLogon(inflight[k])
             /\ Q[k].left = inflight[k].left
  BY <1>3, <1>4, <1>6
<1>7. Asked(Q)
  <2>1. \A j, k \in 1 .. Len(Q) : OwnLogon(Q[j]) /\ OwnLogon(Q[k]) => j = k
    BY <1>6 DEF Asked
  <2>2. QED
    BY <1>5, <2>1 DEF Asked
<1>8. QED
  BY <1>2, <1>5, <1>6, <1>7 DEF Leaves

\* What the logon thread sends, at most one request, is all it waits for then.
LEMMA SentByLogon ==
    ASSUME inflight \in Seq(Entry), Asked(inflight),
           NEW kinds, kinds = <<>> \/ \E kind \in LogonKinds : kinds = <<kind>>,
           NEW Q, Q = Send("logon", kinds)
    PROVE  /\ Q \in Seq(Entry) /\ Asked(Q)
           /\ \A k \in 1 .. Len(Q) : ~NoInfo(Q[k]) =>
                 \/ k \in 1 .. Len(inflight) /\ ~NoInfo(inflight[k])
                 \/ kinds = <<"login">> /\ Q[k].own
<1>1. /\ kinds \in Seq(LogonKinds \cup UiKinds) /\ "logon" \in Threads
      /\ Len(kinds) <= 1
      /\ \A k \in 1 .. Len(kinds) : k = 1 /\ kinds[1] \in LogonKinds /\ kinds = <<kinds[1]>>
  <2>1. CASE kinds = <<>>
    BY <2>1 DEF Threads
  <2>2. ASSUME NEW kind \in LogonKinds, kinds = <<kind>>
        PROVE  kinds \in Seq(LogonKinds \cup UiKinds) /\ Len(kinds) = 1 /\ kinds[1] = kind
    BY <2>2, ShortTuples
  <2>3. ASSUME NEW kind \in LogonKinds, kinds = <<kind>>
        PROVE  \A k \in 1 .. Len(kinds) : k = 1 /\ kinds[1] \in LogonKinds /\ kinds = <<kinds[1]>>
    BY <2>2, <2>3
  <2>4. QED
    BY <2>1, <2>2, <2>3 DEF Threads
<1>2. /\ Q \in Seq(Entry) /\ Len(Q) >= Len(inflight)
      /\ Len(Q) <= Len(inflight) + Len(kinds)
      /\ \A k \in 1 .. Len(inflight) :
            /\ Q[k].who = inflight[k].who /\ Q[k].left = inflight[k].left
            /\ Q[k].own = (inflight[k].own /\ inflight[k].who # "logon")
      /\ \A k \in 1 .. Len(Q) : k > Len(inflight) =>
            /\ k - Len(inflight) \in 1 .. Len(kinds)
            /\ Q[k].who = "logon" /\ Q[k].left = Answers[kinds[k - Len(inflight)]]
            /\ Q[k].own = TRUE
  <2>1. SentIs(Q, "logon", kinds)
    BY <1>1, Sent
  <2>2. QED
    BY <2>1, Zenon DEF SentIs
<1>3. ASSUME NEW k \in 1 .. Len(Q), k > Len(inflight)
      PROVE  /\ k = Len(inflight) + 1 /\ Q[k].who = "logon" /\ Q[k].own = TRUE
             /\ ~NoInfo(Q[k]) => kinds = <<"login">> /\ LoginLeft(Q[k])
  <2>1. /\ k - Len(inflight) \in 1 .. Len(kinds)
        /\ Q[k].who = "logon" /\ Q[k].own = TRUE
        /\ Q[k].left = Answers[kinds[k - Len(inflight)]]
    BY <1>2, <1>3, Zenon
  <2>2. k = Len(inflight) + 1 /\ kinds[1] \in LogonKinds /\ kinds = <<kinds[1]>>
        /\ k - Len(inflight) = 1
    BY <1>1, <2>1
  <2>3. Q[k].left = Answers[kinds[1]]
    BY <2>1, <2>2
  <2>4. CASE kinds[1] = "login"
    <3>1. LoginLeft(Q[k])
      BY <2>3, <2>4, AnswersTo DEF LoginLeft
    <3>2. QED
      BY <2>1, <2>2, <2>4, <3>1
  <2>5. CASE kinds[1] # "login"
    <3>1. \A e \in Q[k].left : Quietly(e)
      BY <2>2, <2>3, <2>5, AnswersTo
    <3>2. NoInfo(Q[k])
      BY <3>1 DEF Quietly, NoInfo
    <3>3. QED
      BY <2>1, <2>2, <3>2
  <2>6. QED
    BY <2>4, <2>5
<1>4. ASSUME NEW k \in 1 .. Len(inflight)
      PROVE  /\ ~OwnLogon(Q[k])
             /\ ~NoInfo(Q[k]) => /\ ~NoInfo(inflight[k])
                                 /\ Q[k].who = "logon" /\ LoginLeft(Q[k])
  <2>1. Q[k].who = inflight[k].who /\ Q[k].left = inflight[k].left
        /\ Q[k].own = (inflight[k].own /\ inflight[k].who # "logon")
    BY <1>2
  <2>2. NoInfo(Q[k]) <=> NoInfo(inflight[k])
    BY <2>1 DEF NoInfo
  <2>3. LoginLeft(Q[k]) <=> LoginLeft(inflight[k])
    BY <2>1 DEF LoginLeft
  <2>4. ~OwnLogon(Q[k])
    BY <2>1 DEF OwnLogon
  <2>5. QED
    BY <2>1, <2>2, <2>3, <2>4 DEF Asked
<1>5. Asked(Q)
  <2>1. ASSUME NEW k \in 1 .. Len(Q), OwnLogon(Q[k]) PROVE k = Len(inflight) + 1
    <3>1. Len(inflight) \in Nat /\ k \in Nat /\ k >= 1
      OBVIOUS
    <3>2. k \notin 1 .. Len(inflight)
      BY <1>4, <2>1
    <3>3. k > Len(inflight)
      BY <3>1, <3>2
    <3>4. QED
      BY <1>3, <3>3
  <2>2. ASSUME NEW k \in 1 .. Len(Q)
        PROVE  NoInfo(Q[k]) \/ (Q[k].who = "logon" /\ LoginLeft(Q[k]))
    <3>1. k > Len(inflight) \/ k \in 1 .. Len(inflight)
      BY <1>2
    <3>2. QED
      BY <3>1, <1>3, <1>4
  <2>3. QED
    BY <2>1, <2>2 DEF Asked
<1>6. ASSUME NEW k \in 1 .. Len(Q), ~NoInfo(Q[k])
      PROVE  \/ k \in 1 .. Len(inflight) /\ ~NoInfo(inflight[k])
             \/ kinds = <<"login">> /\ Q[k].own
  <2>1. k > Len(inflight) \/ k \in 1 .. Len(inflight)
    BY <1>2
  <2>2. QED
    BY <2>1, <1>3, <1>4, <1>6
<1>7. QED
  BY <1>2, <1>5, <1>6

\* The ui thread goes on, sends and may end; once it has ended nothing is left
\* that starts another one.
LEMMA UiGoesOn ==
    ASSUME LogonInv, Leaves(inflight'), scr["ui"] # "off",
           UNCHANGED <<conVars, disturbed>>,
           LogonTypes(scr', word', seen', post', inflight'),
           scr'["ui"] # "off" /\ Waiting(scr, word, seen, post)
              => Waiting(scr', word', seen', post'),
           Starting(scr', uiStart', missed', deleted')
    PROVE  LogonInv'
<1>1. ConInv'
  BY DEF LogonInv, ConInv, ConTypes, UntouchedBefore, ChannelMatchesState, conVars
<1>2. Asked(inflight')
  BY DEF Leaves
<1>3. BeforeConnection'
  BY DEF LogonInv, BeforeConnection, conVars
<1>4. ASSUME "logon" \notin disturbed'
      PROVE  Quiet(scr', word', seen', post', inflight')
  <2>1. Quiet(scr, word, seen, post, inflight)
    BY <1>4 DEF LogonInv
  <2>2. \A k \in 1 .. Len(inflight) : NoInfo(inflight[k])
    BY <2>1 DEF Quiet
  <2>3. \A k \in 1 .. Len(inflight') : NoInfo(inflight'[k])
    BY <2>2 DEF Leaves
  <2>4. \A k \in 1 .. Len(inflight') : OwnLogon(inflight'[k]) =>
            inflight'[k].left = {<<"UEXECUTE">>}
    BY <2>1 DEF Leaves, Quiet
  <2>5. Waiting(scr, word, seen, post)
    BY <2>1 DEF Quiet
  <2>6. QED
    BY <2>3, <2>4, <2>5 DEF Quiet
<1>5. QED
  BY <1>1, <1>2, <1>3, <1>4 DEF LogonInv

\* A screen of the ui thread acts.
LEMMA UiChooses ==
    ASSUME LogonInv, choose("ui")
    PROVE  LogonInv'
<1> USE DEF Threads
<1>1. LogonTypes(scr, word, seen, post, inflight) /\ Asked(inflight)
      /\ inflight \in Seq(Entry)
  BY DEF LogonInv, LogonTypes
<1>2. scr["ui"] \in UiPlaces \cap DOMAIN Screens
  BY <1>1 DEF choose, LogonTypes
<1>3. PICK r \in Screens[scr["ui"]] :
          /\ word' = IF r.pre = Keep THEN word ELSE [word EXCEPT !["ui"] = r.pre]
          /\ inflight' = IF r.pre = Keep /\ r.ask = <<>> THEN inflight
                         ELSE Send("ui", r.ask)
          /\ post' = [post EXCEPT !["ui"] = r.post]
          /\ scr' = [scr EXCEPT !["ui"] = r.to]
  BY DEF choose
<1>4. UiRow(r) /\ scr["ui"] \in UiForms
  BY <1>2, RowsOf
<1>5. UNCHANGED <<conVars, uiStart, missed, disturbed, deleted>>
      /\ seen' = [seen EXCEPT !["ui"] = "none"]
  BY DEF choose, history
<1>6. Leaves(inflight')
  <2>1. r.ask \in Seq(UiKinds)
    BY <1>4, RequestsAreSeqs DEF UiRow, Row
  <2>2. Leaves(Send("ui", r.ask))
    BY <1>1, <2>1, SentByUi
  <2>3. Leaves(inflight)
    BY <1>1 DEF Leaves
  <2>4. inflight' = inflight \/ inflight' = Send("ui", r.ask)
    BY <1>3
  <2>5. QED
    BY <2>2, <2>3, <2>4
<1>7. /\ scr' \in [Threads -> LogonPlaces \cup UiPlaces]
      /\ scr'["logon"] = scr["logon"] /\ scr'["ui"] = r.to
      /\ r.to \in UiPlaces \ {"off"} /\ scr["ui"] # "off"
  BY <1>1, <1>3, <1>4 DEF LogonTypes, UiRow, UiForms
<1>8. /\ word' \in [Threads -> Words] /\ word'["logon"] = word["logon"]
      /\ post' \in [Threads -> Words \cup {Keep}] /\ post'["logon"] = post["logon"]
      /\ seen' \in [Threads -> Words \cup {Prompt, "none"}]
      /\ seen'["logon"] = seen["logon"] /\ seen'["ui"] = "none"
  BY <1>1, <1>3, <1>4, <1>5 DEF LogonTypes, UiRow, Row
<1>9. LogonTypes(scr', word', seen', post', inflight')
  BY <1>1, <1>6, <1>7, <1>8 DEF LogonTypes, Leaves
<1>10. Waiting(scr, word, seen, post) => Waiting(scr', word', seen', post')
  BY <1>7, <1>8 DEF Waiting
<1>11. Starting(scr', uiStart', missed', deleted')
  BY <1>5, <1>7 DEF LogonInv, Starting
<1>12. QED
  BY <1>5, <1>6, <1>7, <1>9, <1>10, <1>11, UiGoesOn

\* A screen of the logon thread acts: it was shown while no ui thread ran, and
\* what it asks to log in it waits for.
LEMMA LogonChooses ==
    ASSUME LogonInv, choose("logon")
    PROVE  LogonInv'
<1> USE DEF Threads
<1>1. LogonTypes(scr, word, seen, post, inflight) /\ Asked(inflight)
      /\ inflight \in Seq(Entry)
  BY DEF LogonInv, LogonTypes
<1>2. scr["logon"] \in LogonPlaces \cap DOMAIN Screens /\ seen["logon"] # "none"
  BY <1>1 DEF choose, LogonTypes
<1>3. PICK r \in Screens[scr["logon"]] :
          /\ word' = IF r.pre = Keep THEN word ELSE [word EXCEPT !["logon"] = r.pre]
          /\ inflight' = IF r.pre = Keep /\ r.ask = <<>> THEN inflight
                         ELSE Send("logon", r.ask)
          /\ post' = [post EXCEPT !["logon"] = r.post]
          /\ scr' = [scr EXCEPT !["logon"] = r.to]
  BY DEF choose
<1>4. LogonRow(scr["logon"], r) /\ scr["logon"] \in LogonForms
  BY <1>2, RowsOf
<1>5. UNCHANGED <<conVars, uiStart, missed, disturbed, deleted>>
      /\ seen' = [seen EXCEPT !["logon"] = "none"]
  BY DEF choose, history
<1>6. /\ inflight' \in Seq(Entry) /\ Asked(inflight')
      /\ \A k \in 1 .. Len(inflight') : ~NoInfo(inflight'[k]) =>
            \/ k \in 1 .. Len(inflight) /\ ~NoInfo(inflight[k])
            \/ r.ask = <<"login">> /\ inflight'[k].own
  <2>1. CASE inflight' = inflight
    BY <1>1, <2>1
  <2>2. CASE inflight' = Send("logon", r.ask)
    <3>1. r.ask = <<>> \/ \E kind \in LogonKinds : r.ask = <<kind>>
      BY <1>4 DEF LogonRow
    <3>2. QED
      BY <1>1, <2>2, <3>1, SentByLogon
  <2>3. QED
    BY <1>3, <2>1, <2>2
<1>7. /\ scr' \in [Threads -> LogonPlaces \cup UiPlaces]
      /\ scr'["logon"] = r.to /\ scr'["ui"] = scr["ui"]
      /\ r.to \in LogonPlaces /\ r.to \notin {"off", "tested", "asleep"}
      /\ scr["logon"] # "off"
  BY <1>1, <1>3, <1>4 DEF LogonTypes, LogonRow, LogonPlaces, LogonForms, LogonWaits
<1>8. /\ word' \in [Threads -> Words]
      /\ post' \in [Threads -> Words \cup {Keep}] /\ post'["logon"] = r.post
      /\ seen' \in [Threads -> Words \cup {Prompt, "none"}]
      /\ seen'["logon"] = "none" /\ seen'["ui"] = seen["ui"]
      /\ r.pre # Keep => word'["logon"] = r.pre
  BY <1>1, <1>3, <1>4, <1>5 DEF LogonTypes, LogonRow, Row
<1>9. LogonTypes(scr', word', seen', post', inflight')
  BY <1>1, <1>6, <1>7, <1>8 DEF LogonTypes
<1>10. ConInv' /\ BeforeConnection'
  BY <1>5, <1>7 DEF LogonInv, ConInv, ConTypes, UntouchedBefore, ChannelMatchesState,
     conVars, BeforeConnection
<1>11. Starting(scr', uiStart', missed', deleted')
  BY <1>5, <1>7 DEF LogonInv, Starting
<1>12. ASSUME "logon" \notin disturbed'
       PROVE  Quiet(scr', word', seen', post', inflight')
  <2>1. Quiet(scr, word, seen, post, inflight) /\ ~Waiting(scr, word, seen, post)
    BY <1>2, <1>5, <1>12 DEF LogonInv, Waiting
  <2>2. scr["ui"] = "off" /\ \A k \in 1 .. Len(inflight) : NoInfo(inflight[k])
    BY <2>1 DEF Quiet
  <2>3. \A k \in 1 .. Len(inflight') : ~NoInfo(inflight'[k]) =>
            r.ask = <<"login">> /\ inflight'[k].own
    BY <1>6, <2>2
  <2>4. r.ask = <<"login">> => Waiting(scr', word', seen', post')
    <3>1. r.ask = <<"login">> => r.pre = "WAIT" /\ r.post = Keep /\ r.to = "test"
      BY <1>4 DEF LogonRow
    <3>2. QED
      BY <1>7, <1>8, <3>1 DEF Waiting, LogonWaits, Keep
  <2>5. QED
    BY <1>7, <2>2, <2>3, <2>4 DEF Quiet
<1>13. QED
  BY <1>6, <1>9, <1>10, <1>11, <1>12 DEF LogonInv

\* The ui thread begins, logs out, or deletes its account; only then may the
\* logon thread, which the deletion does not notify, sleep on.
LEMMA UiEnds ==
    ASSUME LogonInv, uiBegins \/ logout \/ deleteUser
    PROVE  LogonInv'
<1> USE DEF Threads
<1>1. LogonTypes(scr, word, seen, post, inflight) /\ Asked(inflight)
      /\ inflight \in Seq(Entry)
  BY DEF LogonInv, LogonTypes
<1>2. Leaves(inflight)
  BY <1>1 DEF Leaves
<1>3. seen["ui"] # "none" => scr["ui"] \in UiForms
  BY <1>1, RowsOf DEF LogonTypes
<1>4. CASE uiBegins
  <2>1. scr["ui"] = "start" /\ scr' = [scr EXCEPT !["ui"] = "ui"] /\ uiStart' = FALSE
        /\ UNCHANGED <<conVars, word, seen, post, inflight, missed, disturbed>>
    BY <1>4 DEF uiBegins
  <2>2. /\ scr' \in [Threads -> LogonPlaces \cup UiPlaces]
        /\ scr'["ui"] = "ui" /\ scr'["logon"] = scr["logon"]
    BY <1>1, <2>1 DEF LogonTypes, UiPlaces, UiForms
  <2>3. LogonTypes(scr', word', seen', post', inflight')
    BY <1>1, <1>3, <2>1, <2>2 DEF LogonTypes, UiPlaces, UiForms
  <2>4. Waiting(scr, word, seen, post) => Waiting(scr', word', seen', post')
    BY <2>1, <2>2 DEF Waiting
  <2>5. Starting(scr', uiStart', missed', deleted')
    BY <2>1, <2>2 DEF Starting
  <2>6. QED
    BY <1>2, <2>1, <2>3, <2>4, <2>5, UiGoesOn
<1>5. CASE logout
  <2>1. /\ scr["ui"] = "logout" /\ uiStart' = TRUE
        /\ word' = [word EXCEPT !["logon"] = "EXECUTE"]
        /\ scr' = [scr EXCEPT !["ui"] = "off",
                              !["logon"] = IF @ = "asleep" THEN "test" ELSE @]
        /\ missed' = IF scr["logon"] = "tested" THEN missed \cup {"logon"} ELSE missed
        /\ inflight' = Send("ui", <<>>)
        /\ UNCHANGED <<conVars, seen, post, disturbed, deleted>>
    BY <1>5 DEF logout, history
  <2>2. /\ scr' \in [Threads -> LogonPlaces \cup UiPlaces]
        /\ scr'["ui"] = "off"
        /\ scr'["logon"] = IF scr["logon"] = "asleep" THEN "test" ELSE scr["logon"]
        /\ scr'["logon"] \in LogonPlaces
    BY <1>1, <2>1 DEF LogonTypes, UiPlaces, LogonPlaces, LogonWaits
  <2>3. seen["ui"] = "none"
    BY <1>3, <2>1 DEF UiForms
  <2>4. seen["logon"] # "none" => scr["logon"] \in LogonForms
    BY <1>1, RowsOf DEF LogonTypes
  <2>5. Leaves(inflight')
    <3>1. <<>> \in Seq(UiKinds)
      OBVIOUS
    <3>2. QED
      BY <1>1, <2>1, <3>1, SentByUi
  <2>6. LogonTypes(scr', word', seen', post', inflight')
    BY <1>1, <2>1, <2>2, <2>3, <2>4, <2>5 DEF LogonTypes, Leaves, UiPlaces, Words, LogonForms
  <2>7. Starting(scr', uiStart', missed', deleted')
    BY <2>1, <2>2 DEF Starting
  <2>8. QED
    BY <2>1, <2>2, <2>5, <2>6, <2>7, UiGoesOn
<1>6. CASE deleteUser
  <2>1. /\ scr["ui"] = "delete" /\ deleted' = TRUE
        /\ scr' = [scr EXCEPT !["ui"] = "off"]
        /\ inflight' = Send("ui", <<"delete">>)
        /\ UNCHANGED <<conVars, word, seen, post, uiStart, missed, disturbed>>
    BY <1>6 DEF deleteUser
  <2>2. /\ scr' \in [Threads -> LogonPlaces \cup UiPlaces]
        /\ scr'["ui"] = "off" /\ scr'["logon"] = scr["logon"]
    BY <1>1, <2>1 DEF LogonTypes, UiPlaces
  <2>3. seen["ui"] = "none"
    BY <1>3, <2>1 DEF UiForms
  <2>4. Leaves(inflight')
    <3>1. <<"delete">> \in Seq(UiKinds)
      BY ShortTuples DEF UiKinds
    <3>2. QED
      BY <1>1, <2>1, <3>1, SentByUi
  <2>5. LogonTypes(scr', word', seen', post', inflight')
    BY <1>1, <2>1, <2>2, <2>3, <2>4 DEF LogonTypes, Leaves, UiPlaces
  <2>6. Starting(scr', uiStart', missed', deleted')
    BY <2>1, <2>2 DEF LogonInv, Starting
  <2>7. QED
    BY <2>1, <2>2, <2>4, <2>5, <2>6, UiGoesOn
<1>7. QED
  BY <1>4, <1>5, <1>6

\* The requests under way when one is answered for good.
LEMMA Answered ==
    ASSUME inflight \in Seq(Entry), Asked(inflight), NEW k \in 1 .. Len(inflight),
           NEW Q, Q = RemoveAt(inflight, k)
    PROVE  /\ Q \in Seq(Entry) /\ Asked(Q) /\ Len(Q) = Len(inflight) - 1
           /\ \A j \in 1 .. Len(Q) : \E m \in 1 .. Len(inflight) : m # k /\ Q[j] = inflight[m]
<1>1. /\ Q \in Seq(Entry) /\ Len(Q) = Len(inflight) - 1
      /\ \A j \in 1 .. Len(inflight) - 1 : /\ j < k => Q[j] = inflight[j]
                                           /\ j >= k => Q[j] = inflight[j + 1]
  BY RemoveAtIs
<1> DEFINE was(j) == IF j < k THEN j ELSE j + 1
<1>2. ASSUME NEW j \in 1 .. Len(Q)
      PROVE  was(j) \in 1 .. Len(inflight) /\ was(j) # k /\ Q[j] = inflight[was(j)]
  <2>1. CASE j < k
    BY <1>1, <2>1
  <2>2. CASE j >= k
    BY <1>1, <2>2
  <2>3. QED
    BY <2>1, <2>2
<1>3. \A i, j \in 1 .. Len(Q) : was(i) = was(j) => i = j
  BY <1>1
<1> HIDE DEF was
<1>4. Asked(Q)
  <2>1. \A j \in 1 .. Len(Q) : NoInfo(Q[j]) \/ (Q[j].who = "logon" /\ LoginLeft(Q[j]))
    BY <1>2 DEF Asked
  <2>2. \A i, j \in 1 .. Len(Q) : OwnLogon(Q[i]) /\ OwnLogon(Q[j]) => i = j
    BY <1>2, <1>3 DEF Asked
  <2>3. QED
    BY <2>1, <2>2 DEF Asked
<1>5. QED
  BY <1>1, <1>2, <1>4

\* The server's answer to a login, one part of it handled.
LEMMA LoginAnswer ==
    ASSUME NEW e, LoginLeft(e), NEW s \in e.left, NEW i \in 1 .. Len(s)
    PROVE  \/ s[i] = "UEXECUTE" /\ RemoveAt(s, i) = <<"info">>
           \/ s[i] = "info" /\ RemoveAt(s, i) = <<"UEXECUTE">>
           \/ s[i] = "info" /\ RemoveAt(s, i) = <<>>
           \/ s[i] = "EXECUTE" /\ RemoveAt(s, i) = <<>>
<1>1. \/ s = <<"UEXECUTE", "info">> \/ s = <<"info">> \/ s = <<"EXECUTE">>
  BY DEF LoginLeft
<1>2. CASE s = <<"UEXECUTE", "info">>
  <2>1. Len(s) = 2 /\ s[1] = "UEXECUTE" /\ s[2] = "info"
    BY <1>2
  <2>2. RemoveAt(s, 1) = <<"info">> /\ RemoveAt(s, 2) = <<"UEXECUTE">>
    <3>1. "UEXECUTE" \in Items /\ "info" \in Items
      BY DEF Items, Words
    <3>2. /\ RemoveAt(<<"UEXECUTE", "info">>, 1) = <<"info">>
          /\ RemoveAt(<<"UEXECUTE", "info">>, 2) = <<"UEXECUTE">>
      BY <3>1, RestOfShort
    <3>3. QED
      BY <1>2, <3>2
  <2>3. i = 1 \/ i = 2
    BY <2>1
  <2>4. QED
    BY <2>1, <2>2, <2>3
<1>3. ASSUME NEW x \in {"info", "EXECUTE"}, s = <<x>>
      PROVE  s[i] = x /\ RemoveAt(s, i) = <<>>
  <2>1. s \in Seq(Items) /\ Len(s) = 1 /\ s[1] = x
    BY <1>3, ShortTuples DEF Items, Words
  <2>2. i = 1 /\ RemoveAt(s, i) \in Seq(Items) /\ Len(RemoveAt(s, i)) = 0
    BY <2>1, RemoveAtIs
  <2>3. QED
    BY <2>1, <2>2, RestOfShort
<1>4. QED
  BY <1>1, <1>2, <1>3

\* What is left of an answer is an answer.
LEMMA RestIsAnswer ==
    ASSUME NEW s \in Parts, NEW i \in 1 .. Len(s)
    PROVE  /\ RemoveAt(s, i) \in Parts
           /\ s[i] = "email" => RemoveAt(s, i) = <<>>
           /\ (\A j \in 1 .. Len(s) : s[j] # "info")
                 => \A j \in 1 .. Len(RemoveAt(s, i)) : RemoveAt(s, i)[j] # "info"
<1> DEFINE rest == RemoveAt(s, i)
<1>1. s \in Seq(Items) /\ \A j \in 1 .. Len(s) : s[j] = "email" => Len(s) = 1
  BY DEF Parts
<1>2. /\ rest \in Seq(Items) /\ Len(rest) = Len(s) - 1
      /\ \A j \in 1 .. Len(s) - 1 : /\ j < i => rest[j] = s[j]
                                    /\ j >= i => rest[j] = s[j + 1]
  BY <1>1, RemoveAtIs
<1> HIDE DEF rest
<1>3. ASSUME NEW j \in 1 .. Len(rest)
      PROVE  \E m \in 1 .. Len(s) : rest[j] = s[m] /\ Len(s) > 1
  <2>1. CASE j < i
    BY <1>1, <1>2, <2>1
  <2>2. CASE j >= i
    BY <1>1, <1>2, <2>2
  <2>3. QED
    BY <2>1, <2>2
<1>4. ASSUME NEW j \in 1 .. Len(rest)
      PROVE  rest[j] # "email"
  <2>1. PICK m \in 1 .. Len(s) : rest[j] = s[m] /\ Len(s) > 1
    BY <1>3
  <2>2. QED
    BY <1>1, <2>1
<1>5. rest \in Parts
  BY <1>2, <1>4 DEF Parts
<1>6. s[i] = "email" => rest = <<>>
  <2>1. s[i] = "email" => Len(rest) = 0
    BY <1>1, <1>2
  <2>2. QED
    BY <1>2, <2>1, RestOfShort
<1>7. (\A j \in 1 .. Len(s) : s[j] # "info") => \A j \in 1 .. Len(rest) : rest[j] # "info"
  BY <1>3
<1>8. QED
  BY <1>5, <1>6, <1>7 DEF rest

\* Requests that were under way, of the k-th only `rest` left.
Follows(Q, k, rest) ==
    /\ Q \in Seq(Entry) /\ Asked(Q)
    /\ \A j \in 1 .. Len(Q) :
          \/ \E m \in 1 .. Len(inflight) : m # k /\ Q[j] = inflight[m]
          \/ /\ rest # <<>> /\ Q[j].left = {rest}
             /\ Q[j].who = inflight[k].who /\ Q[j].own = inflight[k].own

\* A sequence with one element replaced.
LEMMA Replaced ==
    ASSUME NEW S, NEW q \in Seq(S), NEW k \in 1 .. Len(q), NEW e \in S,
           NEW Q, Q = [q EXCEPT ![k] = e]
    PROVE  /\ Q \in Seq(S) /\ Len(Q) = Len(q) /\ Q[k] = e
           /\ \A j \in 1 .. Len(q) : j # k => Q[j] = q[j]
<1>1. Q \in Seq(S) /\ Len(Q) = Len(q)
  BY ExceptSeq
<1>2. DOMAIN q = 1 .. Len(q)
  OBVIOUS
<1>3. Q[k] = e /\ \A j \in 1 .. Len(q) : j # k => Q[j] = q[j]
  BY <1>2
<1>4. QED
  BY <1>1, <1>3

\* The requests under way when the last part of an answer is handled.
LEMMA LastAnswered ==
    ASSUME inflight \in Seq(Entry), Asked(inflight), NEW k \in 1 .. Len(inflight),
           NEW rest
    PROVE  Follows(RemoveAt(inflight, k), k, rest)
<1> DEFINE Q == RemoveAt(inflight, k)
<1>1. /\ Q \in Seq(Entry) /\ Asked(Q)
      /\ \A j \in 1 .. Len(Q) : \E m \in 1 .. Len(inflight) : m # k /\ Q[j] = inflight[m]
  BY Answered
<1>2. QED
  BY <1>1, Zenon DEF Follows

\* The requests under way when a part of an answer is handled and more is left.
LEMMA PartAnswered ==
    ASSUME inflight \in Seq(Entry), Asked(inflight), NEW k \in 1 .. Len(inflight),
           NEW s \in inflight[k].left, NEW i \in 1 .. Len(s),
           RemoveAt(s, i) # <<>>, NEW e \in Entry, e.left = {RemoveAt(s, i)},
           e.who = inflight[k].who, e.own = inflight[k].own
    PROVE  Follows([inflight EXCEPT ![k] = e], k, RemoveAt(s, i))
<1> DEFINE rest == RemoveAt(s, i)
           Q == [inflight EXCEPT ![k] = e]
<1>1. inflight[k] \in Entry /\ s \in Parts
  <2>1. inflight[k] \in Entry
    OBVIOUS
  <2>2. QED
    BY <2>1 DEF Entry
<1>3. e.left = {rest} /\ e.who = inflight[k].who /\ e.own = inflight[k].own
  OBVIOUS
<1>4. /\ Q \in Seq(Entry) /\ Len(Q) = Len(inflight) /\ Q[k] = e
      /\ \A j \in 1 .. Len(inflight) : j # k => Q[j] = inflight[j]
  BY Replaced
<1> HIDE DEF Q
<1>5. NoInfo(e) \/ (e.who = "logon" /\ LoginLeft(e))
  <2>1. CASE NoInfo(inflight[k])
    <3>1. \A j \in 1 .. Len(rest) : rest[j] # "info"
      BY <1>1, <2>1, RestIsAnswer DEF NoInfo
    <3>2. QED
      BY <1>3, <3>1 DEF NoInfo
  <2>2. CASE inflight[k].who = "logon" /\ LoginLeft(inflight[k])
    <3>1. rest = <<"info">> \/ rest = <<"UEXECUTE">>
      BY <2>2, LoginAnswer
    <3>2. rest = <<"info">> => LoginLeft(e)
      BY <1>3 DEF LoginLeft
    <3>3. rest = <<"UEXECUTE">> => NoInfo(e)
      <4>1. Quietly(<<"UEXECUTE">>)
        BY ShortAnswers DEF Items, Words
      <4>2. QED
        BY <1>3, <4>1 DEF NoInfo, Quietly
    <3>4. QED
      BY <1>3, <2>2, <3>1, <3>2, <3>3
  <2>3. QED
    BY <2>1, <2>2 DEF Asked
<1>6. \A j \in 1 .. Len(Q) : OwnLogon(Q[j]) => OwnLogon(inflight[j])
  BY <1>3, <1>4 DEF OwnLogon
<1>7. Asked(Q)
  <2>1. \A j \in 1 .. Len(Q) : NoInfo(Q[j]) \/ (Q[j].who = "logon" /\ LoginLeft(Q[j]))
    BY <1>4, <1>5 DEF Asked
  <2>2. \A j, m \in 1 .. Len(Q) : OwnLogon(Q[j]) /\ OwnLogon(Q[m]) => j = m
    BY <1>4, <1>6 DEF Asked
  <2>3. QED
    BY <2>1, <2>2 DEF Asked
<1>8. rest # <<>>
  OBVIOUS
<1> HIDE DEF rest
<1>9. ASSUME NEW j \in 1 .. Len(Q)
      PROVE  \/ \E m \in 1 .. Len(inflight) : m # k /\ Q[j] = inflight[m]
             \/ /\ rest # <<>> /\ Q[j].left = {rest}
                /\ Q[j].who = inflight[k].who /\ Q[j].own = inflight[k].own
  BY <1>3, <1>4, <1>8
<1>10. Follows(Q, k, rest)
  BY <1>4, <1>7, <1>9 DEF Follows
<1>11. QED
  BY <1>10 DEF rest, Q

\* A request is under way as before, or one part less of its answer is left,
\* or it is the request for a code that follows the address.
Came(q, k, s, i) ==
    \/ \E m \in 1 .. Len(inflight) : m # k /\ q = inflight[m]
    \/ /\ RemoveAt(s, i) # <<>> /\ q.left = {RemoveAt(s, i)}
       /\ q.who = inflight[k].who /\ q.own = inflight[k].own
    \/ /\ s[i] = "email" /\ NoInfo(q)
       /\ q.who = inflight[k].who /\ q.own = inflight[k].own

\* The requests under way when part i of answer s to request k is handled.
LEMMA RequestsThen ==
    ASSUME inflight \in Seq(Entry), Asked(inflight), NEW k \in 1 .. Len(inflight),
           NEW s \in inflight[k].left, NEW i \in 1 .. Len(s), recviveMeg(k, s, i)
    PROVE  /\ inflight' \in Seq(Entry) /\ Asked(inflight')
           /\ \A j \in 1 .. Len(inflight') : Came(inflight'[j], k, s, i)
<1> DEFINE rest == RemoveAt(s, i)
           e == [inflight[k] EXCEPT !.left = {rest}]
           v == [inflight[k] EXCEPT !.left = Answers["verify"]]
           left == IF rest = <<>> THEN RemoveAt(inflight, k)
                   ELSE [inflight EXCEPT ![k] = e]
<1>1. inflight[k] \in Entry /\ s \in Parts
  <2>1. inflight[k] \in Entry
    OBVIOUS
  <2>2. QED
    BY <2>1 DEF Entry
<1>2. rest \in Parts /\ (s[i] = "email" => rest = <<>>)
  BY <1>1, RestIsAnswer
<1>3. e \in Entry /\ e.left = {rest} /\ e.who = inflight[k].who /\ e.own = inflight[k].own
  BY <1>1, <1>2 DEF Entry
<1>4. /\ v \in Entry /\ NoInfo(v)
      /\ v.who = inflight[k].who /\ v.own = inflight[k].own
  <2>1. /\ Answers["verify"] \in SUBSET Parts
        /\ \A a \in Answers["verify"] : Quietly(a)
    BY AnswersTo DEF LogonKinds
  <2>2. /\ v \in Entry /\ v.left = Answers["verify"]
        /\ v.who = inflight[k].who /\ v.own = inflight[k].own
    BY <1>1, <2>1 DEF Entry
  <2>3. QED
    BY <2>1, <2>2 DEF NoInfo, Quietly
<1>5. inflight' = (IF s[i] = "email" /\ Up THEN Append(left, v) ELSE left)
  BY DEF recviveMeg
<1> HIDE DEF e, v
<1>6. Follows(left, k, rest)
  <2>1. CASE rest = <<>>
    BY <2>1, LastAnswered
  <2>2. CASE rest # <<>>
    BY <2>2, <1>3, PartAnswered
  <2>3. QED
    BY <2>1, <2>2
<1> HIDE DEF left, rest
<1>7. ASSUME NEW j \in 1 .. Len(left)
      PROVE  Came(left[j], k, s, i)
  BY <1>6 DEF Follows, Came, rest
<1>8. CASE inflight' = left
  BY <1>6, <1>7, <1>8 DEF Follows
<1>9. CASE s[i] = "email" /\ inflight' = Append(left, v)
  <2>1. /\ left \in Seq(Entry) /\ Asked(left)
        /\ \A j \in 1 .. Len(left) : \E m \in 1 .. Len(inflight) : m # k /\ left[j] = inflight[m]
    BY <1>2, <1>6, <1>9 DEF Follows
  <2>2. /\ inflight' \in Seq(Entry) /\ Len(inflight') = Len(left) + 1
        /\ inflight'[Len(left) + 1] = v
        /\ \A j \in 1 .. Len(left) : inflight'[j] = left[j]
    BY <1>4, <1>9, <2>1
  <2>3. ASSUME NEW j \in 1 .. Len(inflight')
        PROVE  j \in 1 .. Len(left) \/ j = Len(left) + 1
    BY <2>1, <2>2
  <2>4. OwnLogon(v) => \A j \in 1 .. Len(left) : ~OwnLogon(left[j])
    <3>1. OwnLogon(v) => OwnLogon(inflight[k])
      BY <1>4 DEF OwnLogon
    <3>2. QED
      BY <2>1, <3>1 DEF Asked
  <2>5. \A j, m \in 1 .. Len(inflight') :
            OwnLogon(inflight'[j]) /\ OwnLogon(inflight'[m]) => j = m
    BY <2>1, <2>2, <2>3, <2>4 DEF Asked
  <2>6. \A j \in 1 .. Len(inflight') :
            NoInfo(inflight'[j]) \/ (inflight'[j].who = "logon" /\ LoginLeft(inflight'[j]))
    BY <1>4, <2>1, <2>2, <2>3 DEF Asked
  <2>7. \A j \in 1 .. Len(inflight') : Came(inflight'[j], k, s, i)
    <3>1. Came(v, k, s, i)
      BY <1>4, <1>9 DEF Came
    <3>2. QED
      BY <1>7, <2>2, <2>3, <3>1
  <2>8. QED
    BY <2>2, <2>5, <2>6, <2>7 DEF Asked
<1>10. QED
  BY <1>5, <1>8, <1>9

\* What a handled part leaves to come: nothing new that starts a ui thread, and
\* no other request the logon thread waits for.
LEMMA ToCome ==
    ASSUME inflight \in Seq(Entry), Asked(inflight), NEW k \in 1 .. Len(inflight),
           NEW s \in inflight[k].left, NEW i \in 1 .. Len(s), NEW q, Came(q, k, s, i)
    PROVE  /\ ~NoInfo(q) => \/ \E m \in 1 .. Len(inflight) :
                                  m # k /\ q = inflight[m] /\ ~NoInfo(inflight[m])
                            \/ /\ s[i] = "UEXECUTE" /\ ~NoInfo(inflight[k])
                               /\ q.own = inflight[k].own
           /\ OwnLogon(q) => \/ \E m \in 1 .. Len(inflight) :
                                   m # k /\ q = inflight[m] /\ OwnLogon(inflight[m])
                             \/ /\ OwnLogon(inflight[k])
                                /\ \/ q.left = {RemoveAt(s, i)} /\ RemoveAt(s, i) # <<>>
                                   \/ s[i] = "email"
<1> DEFINE rest == RemoveAt(s, i)
<1>1. CASE \E m \in 1 .. Len(inflight) : m # k /\ q = inflight[m]
  BY <1>1
<1>2. CASE /\ rest # <<>> /\ q.left = {rest}
           /\ q.who = inflight[k].who /\ q.own = inflight[k].own
  <2>1. inflight[k] \in Entry /\ s \in Parts
    <3>1. inflight[k] \in Entry
      OBVIOUS
    <3>2. QED
      BY <3>1 DEF Entry
  <2>2. ASSUME ~NoInfo(q) PROVE s[i] = "UEXECUTE" /\ ~NoInfo(inflight[k])
    <3>1. PICK j \in 1 .. Len(rest) : rest[j] = "info"
      BY <1>2, <2>2 DEF NoInfo
    <3>2. ~NoInfo(inflight[k])
      <4>1. \E m \in 1 .. Len(s) : s[m] = "info"
        BY <2>1, <3>1, RestIsAnswer
      <4>2. QED
        BY <4>1 DEF NoInfo
    <3>3. LoginLeft(inflight[k])
      BY <3>2 DEF Asked
    <3>4. rest # <<"UEXECUTE">>
      <4>1. Quietly(<<"UEXECUTE">>)
        BY ShortAnswers DEF Items, Words
      <4>2. QED
        BY <3>1, <4>1 DEF Quietly
    <3>5. QED
      BY <1>2, <3>2, <3>3, <3>4, LoginAnswer
  <2>3. OwnLogon(q) => OwnLogon(inflight[k])
    BY <1>2 DEF OwnLogon
  <2>4. QED
    BY <1>2, <2>2, <2>3
<1>3. CASE /\ s[i] = "email" /\ NoInfo(q)
           /\ q.who = inflight[k].who /\ q.own = inflight[k].own
  BY <1>3 DEF OwnLogon
<1>4. QED
  BY <1>1, <1>2, <1>3 DEF Came

\* A task handles one part of an answer.
LEMMA PartLogon ==
    ASSUME LogonInv, NEW k \in DOMAIN inflight, NEW s \in inflight[k].left,
           NEW i \in DOMAIN s, recviveMeg(k, s, i)
    PROVE  LogonInv'
<1> USE DEF Threads
<1> DEFINE item == s[i]
<1>1. LogonTypes(scr, word, seen, post, inflight) /\ Asked(inflight)
      /\ inflight \in Seq(Entry)
  BY DEF LogonInv, LogonTypes
<1>2. k \in 1 .. Len(inflight) /\ inflight[k] \in Entry
  BY <1>1
<1>3. s \in Parts /\ s \in Seq(Items)
  BY <1>2 DEF Entry, Parts
<1>4. i \in 1 .. Len(s) /\ item \in Items
  BY <1>3
<1>5. /\ inflight' \in Seq(Entry) /\ Asked(inflight')
      /\ \A j \in 1 .. Len(inflight') : Came(inflight'[j], k, s, i)
  BY <1>1, <1>2, <1>4, RequestsThen
<1>6. UNCHANGED <<conVars, seen, post, uiStart, missed, deleted>>
  BY DEF recviveMeg
<1>7. CASE item = "info"
  <2>1. scr["ui"] = "off" /\ scr' = [scr EXCEPT !["ui"] = "start"]
        /\ UNCHANGED <<word, disturbed>>
    BY <1>7 DEF recviveMeg
  <2>2. /\ scr' \in [Threads -> LogonPlaces \cup UiPlaces]
        /\ scr'["ui"] = "start" /\ scr'["logon"] = scr["logon"]
    BY <1>1, <2>1 DEF LogonTypes, UiPlaces
  <2>3. LogonTypes(scr', word', seen', post', inflight')
    <3>1. seen["ui"] = "none"
      BY <1>1, <2>1, RowsOf DEF LogonTypes, UiForms
    <3>2. QED
      BY <1>1, <1>5, <1>6, <2>1, <2>2, <3>1 DEF LogonTypes, UiPlaces
  <2>4. ConInv' /\ BeforeConnection' /\ Starting(scr', uiStart', missed', deleted')
    <3>1. inflight # <<>>
      BY <1>1, <1>2
    <3>2. QED
      BY <1>6, <2>2, <3>1 DEF LogonInv, ConInv, ConTypes, UntouchedBefore,
         ChannelMatchesState, conVars, BeforeConnection, Starting
  <2>5. ASSUME "logon" \notin disturbed'
        PROVE  Quiet(scr', word', seen', post', inflight')
    <3>1. Quiet(scr, word, seen, post, inflight)
      BY <2>1, <2>5 DEF LogonInv
    <3>2. ~NoInfo(inflight[k])
      BY <1>4, <1>7 DEF NoInfo
    <3>3. /\ inflight[k].own /\ inflight[k].who = "logon" /\ LoginLeft(inflight[k])
          /\ Waiting(scr, word, seen, post)
      BY <1>1, <1>2, <3>1, <3>2 DEF Quiet, Asked
    <3>4. Waiting(scr', word', seen', post')
      BY <1>6, <2>1, <2>2, <3>3 DEF Waiting
    <3>5. OwnLogon(inflight[k])
      BY <3>3 DEF OwnLogon
    <3>6. \A m \in 1 .. Len(inflight) : m # k => NoInfo(inflight[m]) /\ ~OwnLogon(inflight[m])
      BY <1>1, <1>2, <3>1, <3>5 DEF Quiet, Asked, OwnLogon
    <3>7. \A j \in 1 .. Len(inflight') : NoInfo(inflight'[j])
      BY <1>1, <1>2, <1>4, <1>5, <1>7, <3>6, ToCome
    <3>8. ASSUME NEW j \in 1 .. Len(inflight'), OwnLogon(inflight'[j])
          PROVE  inflight'[j].left = {<<"UEXECUTE">>}
      <4>1. inflight'[j].left = {RemoveAt(s, i)} /\ RemoveAt(s, i) # <<>>
        BY <1>1, <1>2, <1>4, <1>5, <1>7, <3>6, <3>8, ToCome
      <4>2. RemoveAt(s, i) = <<"UEXECUTE">>
        BY <1>4, <1>7, <3>3, <4>1, LoginAnswer
      <4>3. QED
        BY <4>1, <4>2
    <3>9. QED
      BY <3>4, <3>7, <3>8 DEF Quiet
  <2>6. QED
    BY <1>5, <2>3, <2>4, <2>5 DEF LogonInv
<1>8. CASE item # "info"
  <2>1. /\ word' = [word EXCEPT ![WordOf(item)] = Stored(item)] /\ scr' = scr
        /\ disturbed' = IF Disturbs(inflight[k], s, i)
                        THEN disturbed \cup {WordOf(item)} ELSE disturbed
    BY <1>8 DEF recviveMeg
  <2>2. WordOf(item) \in Threads /\ Stored(item) \in Words
    BY <1>4, <1>8 DEF WordOf, Stored, Items, Words
  <2>3. /\ word' \in [Threads -> Words] /\ word'[WordOf(item)] = Stored(item)
        /\ \A t \in Threads : t # WordOf(item) => word'[t] = word[t]
    BY <1>1, <2>1, <2>2 DEF LogonTypes
  <2>4. LogonTypes(scr', word', seen', post', inflight')
    BY <1>1, <1>5, <1>6, <2>1, <2>3 DEF LogonTypes
  <2>5. ConInv' /\ BeforeConnection' /\ Starting(scr', uiStart', missed', deleted')
    <3>1. inflight # <<>>
      BY <1>1, <1>2
    <3>2. QED
      BY <1>6, <2>1, <3>1 DEF LogonInv, ConInv, ConTypes, UntouchedBefore,
         ChannelMatchesState, conVars, BeforeConnection, Starting
  <2>6. ASSUME "logon" \notin disturbed'
        PROVE  Quiet(scr', word', seen', post', inflight')
    <3>1. Quiet(scr, word, seen, post, inflight)
      BY <2>1, <2>6 DEF LogonInv
    <3>2. WordOf(item) = "logon" => ~Disturbs(inflight[k], s, i)
      BY <2>1, <2>6
    <3>3. ASSUME NEW j \in 1 .. Len(inflight'), ~NoInfo(inflight'[j])
          PROVE  /\ inflight'[j].own /\ scr["ui"] = "off"
                 /\ Waiting(scr, word, seen, post)
                 /\ WordOf(item) = "logon" => ~OwnLogon(inflight[k])
      <4>1. CASE \E m \in 1 .. Len(inflight) :
                    m # k /\ inflight'[j] = inflight[m] /\ ~NoInfo(inflight[m])
        <5>1. PICK m \in 1 .. Len(inflight) :
                  m # k /\ inflight'[j] = inflight[m] /\ ~NoInfo(inflight[m])
          BY <4>1
        <5>2. inflight[m].own /\ scr["ui"] = "off" /\ Waiting(scr, word, seen, post)
          BY <3>1, <5>1 DEF Quiet
        <5>3. OwnLogon(inflight[m])
          BY <1>1, <5>1, <5>2 DEF Asked, OwnLogon
        <5>4. ~OwnLogon(inflight[k])
          BY <1>1, <1>2, <5>1, <5>3 DEF Asked
        <5>5. QED
          BY <5>1, <5>2, <5>4
      <4>2. CASE /\ item = "UEXECUTE" /\ ~NoInfo(inflight[k])
                 /\ inflight'[j].own = inflight[k].own
        <5>1. inflight[k].own /\ scr["ui"] = "off" /\ Waiting(scr, word, seen, post)
          BY <1>2, <3>1, <4>2 DEF Quiet
        <5>2. QED
          BY <4>2, <5>1 DEF WordOf
      <4>3. QED
        BY <1>1, <1>2, <1>4, <1>5, <3>3, <4>1, <4>2, ToCome
    <3>4. ASSUME NEW j \in 1 .. Len(inflight'), OwnLogon(inflight'[j]), scr["ui"] # "off"
          PROVE  inflight'[j].left = {<<"UEXECUTE">>}
      <4>1. CASE \E m \in 1 .. Len(inflight) :
                    m # k /\ inflight'[j] = inflight[m] /\ OwnLogon(inflight[m])
        BY <3>1, <3>4, <4>1 DEF Quiet
      <4>2. CASE OwnLogon(inflight[k])
        <5>1. s = <<"UEXECUTE">>
          BY <1>2, <3>1, <3>4, <4>2 DEF Quiet
        <5>2. Len(s) = 1 /\ item = "UEXECUTE"
          BY <1>4, <5>1
        <5>3. RemoveAt(s, i) \in Seq(Items) /\ Len(RemoveAt(s, i)) = Len(s) - 1
          BY <1>3, <1>4, RemoveAtIs
        <5>4. RemoveAt(s, i) = <<>>
          BY <5>2, <5>3, RestOfShort
        <5>5. \/ \E m \in 1 .. Len(inflight) :
                     m # k /\ inflight'[j] = inflight[m] /\ OwnLogon(inflight[m])
              \/ RemoveAt(s, i) # <<>> \/ item = "email"
          BY <1>1, <1>2, <1>4, <1>5, <3>4, ToCome
        <5>6. QED
          BY <4>1, <5>2, <5>4, <5>5
      <4>3. QED
        BY <1>1, <1>2, <1>4, <1>5, <3>4, <4>1, <4>2, ToCome
    <3>5. ASSUME scr["ui"] # "off" \/ \E j \in 1 .. Len(inflight') : ~NoInfo(inflight'[j])
          PROVE  Waiting(scr', word', seen', post')
      <4>1. Waiting(scr, word, seen, post)
        BY <3>1, <3>3, <3>5 DEF Quiet
      <4>2. word'["logon"] = word["logon"]
        <5>1. CASE WordOf(item) = "ui"
          BY <2>3, <5>1
        <5>2. CASE WordOf(item) = "logon"
          <6>1. ~OwnLogon(inflight[k])
            <7>1. CASE scr["ui"] # "off"
              <8>1. OwnLogon(inflight[k]) => s = <<"UEXECUTE">>
                BY <1>2, <3>1, <7>1 DEF Quiet
              <8>2. s = <<"UEXECUTE">> => item = "UEXECUTE"
                BY <1>4
              <8>3. QED
                BY <5>2, <8>1, <8>2 DEF WordOf
            <7>2. CASE \E j \in 1 .. Len(inflight') : ~NoInfo(inflight'[j])
              BY <3>3, <5>2, <7>2
            <7>3. QED
              BY <3>5, <7>1, <7>2
          <6>2. scr["logon"] \notin {"off", "start"}
            BY <4>1 DEF Waiting, LogonWaits
          <6>3. word["logon"] = Stored(item)
            BY <3>2, <5>2, <6>1, <6>2 DEF Disturbs, OwnLogon
          <6>4. QED
            BY <2>3, <5>2, <6>3
        <5>3. QED
          BY <2>2, <5>1, <5>2
      <4>3. QED
        BY <1>6, <2>1, <4>1, <4>2 DEF Waiting
    <3>6. QED
      BY <2>1, <3>3, <3>4, <3>5 DEF Quiet
  <2>7. QED
    BY <1>5, <2>4, <2>5, <2>6 DEF LogonInv
<1>9. QED
  BY <1>7, <1>8

\* The server has nothing to answer.
LEMMA NothingLogon ==
    ASSUME LogonInv, NEW k \in DOMAIN inflight, unanswered(k)
    PROVE  LogonInv'
<1>1. LogonTypes(scr, word, seen, post, inflight) /\ Asked(inflight)
      /\ inflight \in Seq(Entry)
  BY DEF LogonInv, LogonTypes
<1>2. k \in 1 .. Len(inflight)
  BY <1>1
<1>3. /\ inflight' = RemoveAt(inflight, k)
      /\ UNCHANGED <<conVars, word, scr, seen, post, uiStart, missed, disturbed, deleted>>
  BY DEF unanswered, history
<1>4. /\ inflight' \in Seq(Entry) /\ Asked(inflight')
      /\ \A j \in 1 .. Len(inflight') : \E m \in 1 .. Len(inflight) :
            m # k /\ inflight'[j] = inflight[m]
  <2>1. Follows(RemoveAt(inflight, k), k, <<>>)
    BY <1>1, <1>2, LastAnswered
  <2>2. Follows(inflight', k, <<>>)
    BY <1>3, <2>1
  <2>3. QED
    BY <2>2 DEF Follows
<1>5. inflight # <<>>
  BY <1>1, <1>2
<1>6. ConInv' /\ BeforeConnection' /\ Starting(scr', uiStart', missed', deleted')
  BY <1>3, <1>5 DEF LogonInv, ConInv, ConTypes, UntouchedBefore, ChannelMatchesState,
     conVars, BeforeConnection
<1>7. LogonTypes(scr', word', seen', post', inflight')
  BY <1>1, <1>3, <1>4 DEF LogonTypes
<1>8. ASSUME "logon" \notin disturbed'
      PROVE  Quiet(scr', word', seen', post', inflight')
  <2>1. Quiet(scr, word, seen, post, inflight)
    BY <1>3, <1>8 DEF LogonInv
  <2>2. QED
    BY <1>3, <1>4, <2>1 DEF Quiet
<1>9. QED
  BY <1>4, <1>6, <1>7, <1>8 DEF LogonInv

\* Every step of the client preserves LogonInv.
LEMMA LogonStep ==
    ASSUME LogonInv, [Next]_vars
    PROVE  LogonInv'
<1>1. CASE LogonNext
  <2>1. CASE Connections
    BY <2>1, ConnectionLogon
  <2>2. CASE skipMenu \/ testLogon \/ sleepLogon \/ wakeLogon
    BY <2>2, GoesLogon
  <2>3. CASE exitSystem
    BY <2>3 DEF exitSystem, clientVars, LogonInv, ConInv, ConTypes, UntouchedBefore,
       ChannelMatchesState, BeforeConnection
  <2>4. QED
    BY <1>1, <2>1, <2>2, <2>3 DEF LogonNext
<1>2. CASE ScreenNext
  <2>1. PICK t \in Threads : look(t) \/ choose(t) \/ updataState(t)
    BY <1>2 DEF ScreenNext
  <2>2. CASE choose(t)
    BY <2>2, UiChooses, LogonChooses DEF Threads
  <2>3. QED
    BY <2>1, <2>2, LookLogon, StoreLogon
<1>3. CASE handleAnswers
  <2>1. PICK k \in DOMAIN inflight :
            \/ unanswered(k)
            \/ \E s \in inflight[k].left : \E i \in DOMAIN s : recviveMeg(k, s, i)
    BY <1>3 DEF handleAnswers
  <2>2. QED
    BY <2>1, NothingLogon, PartLogon
<1>4. CASE UiNext
  BY <1>4, UiEnds, ChatLogon DEF UiNext
<1>5. CASE ReaderNext \/ ChatNext
  BY <1>5, ChatLogon
<1>6. CASE UNCHANGED vars
  BY <1>6 DEF vars, conVars, clientVars, LogonInv, ConInv, ConTypes, UntouchedBefore,
     ChannelMatchesState, BeforeConnection
<1>7. QED
  BY <1>1, <1>2, <1>3, <1>4, <1>5, <1>6 DEF Next

\* LogonInv holds throughout.
LEMMA LogonAlways == Spec => []LogonInv
<1>1. Init => LogonInv
  BY LogonInit
<1>2. LogonInv /\ [Next]_vars => LogonInv'
  BY LogonStep
<1>3. QED
  BY <1>1, <1>2, PTL DEF Spec

\* The logon thread shows a menu or a form only while no ui thread runs, unless
\* an answer disturbed it (logOn.h:42, UserUi.cc:24).
THEOREM OneMenuShown == Spec => []OneMenu
<1>1. LogonInv => OneMenu
  BY DEF LogonInv, Quiet, Waiting, OneMenu
<1>2. QED
  BY <1>1, LogonAlways, PTL

\* Neither the logon thread nor the reader of a chat sleeps with what it waits
\* for already true, unless it missed the one notification, or the account was
\* deleted, or an answer disturbed it (UserUi.cc:75, 267, 698; handleMeg.h:106).
THEOREM NobodySleepsOn == Spec => []NoLostWakeup
<1>1. LogonInv => LogonWakes
  <2> SUFFICES ASSUME LogonInv, scr["logon"] = "asleep", MayGoOn,
                      "logon" \notin missed, "logon" \notin disturbed
               PROVE  deleted
    BY DEF LogonWakes
  <2>1. ~uiStart
    BY DEF LogonInv, Starting
  <2>2. word["logon"] = "EXECUTE"
    BY <2>1 DEF MayGoOn
  <2>3. scr["ui"] = "off"
    BY <2>2 DEF LogonInv, Quiet, Waiting
  <2>4. QED
    BY <2>1, <2>3 DEF LogonInv, Starting
<1>2. LogonWakes /\ ReaderWakes => NoLostWakeup
  BY DEF NoLostWakeup
<1>3. QED
  BY <1>1, <1>2, LogonAlways, ReaderIsWoken, PTL

-----------------------------------------------------------------------------
(* What a screen waits for, and the answers that can still come.            *)

\* The words a place goes on with: those its rows read or, where the thread
\* only passes through, those the next screen goes on with.  A prompt goes on
\* with any, but selectFunc leads to screens that do not.
Prompts == {"myinformation", "chat", "managerFriend", "managerGroup", "groupKind",
            "files", "gfiles", "openChat"}
Goes(S) ==
    CASE S \in LogonWaits -> {"EXECUTE"}
      [] S = "Register" -> {"WAIT", "RETURNS"}
      [] S = "getPassword" -> {"EXECUTE", "RETURNS"}
      [] S \in {"ui", "selectFunc", "addFriend", "joinGroup", "myGroup", "logout",
                "delete"} -> {"UEXECUTE"}
      [] S = "seeFriend" -> {"USAT", "URETURN", "UCHAT"}
      [] S \in {"groupList", "openGchat"} -> {"URETURN", "UCHAT"}
      [] S = "viewInformation" -> {"UWAIT", "URETURN"}
      [] S \in {"chosenFriend", "leaveGroup", "groupKinds", "members", "fileList",
                "gfileList", "quitGchat"} -> {"URETURN"}
      [] S \in {"blackList", "fileLook", "gfileLook"} -> {"USAT", "URETURN"}
      [] S \in {"gchat", "quitChat"} -> {"USAT"}
      [] S \in Prompts -> Words
      [] OTHER -> {}

\* The places with a word to go on with only once nothing is to come any more,
\* and those where a thread may wait.
Strict == {"groupList", "fileList", "gfileList", "members", "openGchat", "quitGchat"}
Asks == (LogonForms \cup LogonWaits \cup UiForms) \ {"selectFunc"}

\* An answer suits a place: the place goes on with each part of it or, at a
\* strict one, with the last only.
Suits(S, s) ==
    IF S \in Strict
    THEN \E y \in Goes(S) : s = <<y>> \/ \E x \in Words \ Goes(S) : s = <<x, y>>
    ELSE \A i \in 1 .. Len(s) :
            IF s[i] = "email" THEN {"EXECUTE", "RETURNS"} \subseteq Goes(S)
            ELSE s[i] \in Goes(S) \/ (S = "leaveGroup" /\ s[i] = "UWAIT")

KindSuits(kind, S) == \A e \in Answers[kind] : Suits(S, e)

\* The word a thread is left with once it has made its store.
Will(w, p) == IF p = Keep THEN w ELSE p

\* A request whose every answer suits the screen that waits for it with word w.
Asking(kind, to, w) ==
    /\ to \notin Asks => w \in Goes(to)
    /\ to \in Strict => w \notin Goes(to)
    /\ \/ kind = "login" /\ to \in LogonWaits
       \/ /\ kind \in (LogonKinds \cup UiKinds) \ {"login", "delete"}
          /\ KindSuits(kind, to)
          /\ kind \in {"message", "gmessage"} => w \in Goes(to)

\* The chat a place belongs to.
ChatOf(S) ==
    IF S \in {"chat", "files", "fileList", "fileLook", "quitChat"} THEN "chat"
    ELSE IF S \in {"gchat", "members", "gfiles", "gfileList", "gfileLook", "quitGchat"}
         THEN "gchat" ELSE "none"

\* A row leads to a place that goes on with the word it leaves, or that its
\* requests are answered for.
RowGoesOn(S, r) ==
    /\ r.on \in Goes(S) \cup {Prompt}
    /\ r.on = Prompt => S = "selectFunc" \/ Goes(S) = Words
    /\ r.post # Keep => r.to \in (LogonForms \cup UiForms) \ {"logon"}
    /\ ChatOf(r.to) = ChatOf(S)
    /\ r.pre = Keep /\ r.ask = <<>> =>
          /\ Goes(S) \subseteq Goes(r.to) /\ r.post = Keep
          /\ S \in Strict \/ (r.to \notin Strict /\ S # "leaveGroup")
          /\ S \in LogonWaits => r.to \in LogonWaits
    /\ r.pre # Keep \/ r.ask # <<>> =>
          \A v \in Goes(S) :
             LET w == Will(IF r.pre = Keep THEN v ELSE r.pre, r.post)
             IN  \/ r.ask = <<>> /\ w \in Goes(r.to)
                 \/ \E kind \in LogonKinds \cup UiKinds :
                       \/ r.ask = <<kind>> /\ Asking(kind, r.to, w)
                       \/ /\ r.ask = <<kind, kind>> /\ r.to \notin Strict
                          /\ Asking(kind, r.to, w)

\* Goes, place by place.
LEMMA GoesOf ==
    /\ \A S \in LogonWaits : Goes(S) = {"EXECUTE"}
    /\ Goes("Register") = {"WAIT", "RETURNS"}
    /\ Goes("getPassword") = {"EXECUTE", "RETURNS"}
    /\ \A S \in {"ui", "selectFunc", "addFriend", "joinGroup", "myGroup", "logout",
                 "delete"} : Goes(S) = {"UEXECUTE"}
    /\ Goes("seeFriend") = {"USAT", "URETURN", "UCHAT"}
    /\ \A S \in {"groupList", "openGchat"} : Goes(S) = {"URETURN", "UCHAT"}
    /\ Goes("viewInformation") = {"UWAIT", "URETURN"}
    /\ \A S \in {"chosenFriend", "leaveGroup", "groupKinds", "members", "fileList",
                 "gfileList", "quitGchat"} : Goes(S) = {"URETURN"}
    /\ \A S \in {"blackList", "fileLook", "gfileLook"} : Goes(S) = {"USAT", "URETURN"}
    /\ \A S \in {"gchat", "quitChat"} : Goes(S) = {"USAT"}
    /\ \A S \in Prompts : Goes(S) = Words
    /\ \A S \in {"off", "start"} : Goes(S) = {}
BY DEF Goes, Prompts, LogonWaits

\* Every place goes on with words.
LEMMA GoesAreWords == \A S : Goes(S) \subseteq Words
BY DEF Goes, Words

\* Which short answers suit a place.
LEMMA ShortSuits ==
    ASSUME NEW S
    PROVE  /\ S \notin Strict => Suits(S, <<>>)
           /\ \A x \in Goes(S) : Suits(S, <<x>>)
           /\ S \notin Strict => \A x, y \in Goes(S) : Suits(S, <<x, y>>)
           /\ S \in Strict => \A x \in Words \ Goes(S), y \in Goes(S) : Suits(S, <<x, y>>)
           /\ S \notin Strict /\ {"EXECUTE", "RETURNS"} \subseteq Goes(S) => Suits(S, <<"email">>)
           /\ Suits("leaveGroup", <<"UWAIT">>)
<1>1. Goes(S) \subseteq Words /\ "email" \notin Words
  BY GoesAreWords DEF Words
<1>2. ASSUME NEW x PROVE Len(<<x>>) = 1 /\ <<x>>[1] = x
  OBVIOUS
<1>3. ASSUME NEW x, NEW y PROVE Len(<<x, y>>) = 2 /\ <<x, y>>[1] = x /\ <<x, y>>[2] = y
  OBVIOUS
<1>4. S \notin Strict => Suits(S, <<>>)
  BY DEF Suits
<1>5. ASSUME NEW x \in Goes(S) PROVE Suits(S, <<x>>)
  BY <1>1, <1>2 DEF Suits
<1>6. ASSUME S \notin Strict, NEW x \in Goes(S), NEW y \in Goes(S)
      PROVE  Suits(S, <<x, y>>)
  <2> DEFINE s == <<x, y>>
  <2>1. Len(s) = 2 /\ s[1] = x /\ s[2] = y
    BY <1>3
  <2> HIDE DEF s
  <2>2. \A i \in 1 .. Len(s) : i = 1 \/ i = 2
    BY <2>1
  <2>3. Suits(S, s)
    BY <1>1, <1>6, <2>1, <2>2 DEF Suits
  <2>4. QED
    BY <2>3 DEF s
<1>7. S \in Strict => \A x \in Words \ Goes(S), y \in Goes(S) : Suits(S, <<x, y>>)
  BY DEF Suits
<1>8. S \notin Strict /\ {"EXECUTE", "RETURNS"} \subseteq Goes(S) => Suits(S, <<"email">>)
  BY <1>2 DEF Suits
<1>9. Suits("leaveGroup", <<"UWAIT">>)
  BY <1>2 DEF Suits, Strict
<1>10. QED
  BY <1>4, <1>5, <1>6, <1>7, <1>8, <1>9

\* An answer to a request is a row of its kind.
LEMMA AnswerIsRow ==
    ASSUME NEW kind \in LogonKinds \cup UiKinds, NEW e \in Answers[kind]
    PROVE  <<kind, e>> \in AnswerRows
<1>1. Answers = Table(AnswerRows)
  BY DEF Answers, AnswerRows
<1>2. \A p \in AnswerRows : p = <<p[1], p[2]>>
  BY AnswersAreRows
<1>3. kind \in DOMAIN Answers
  <2>1. DOMAIN Table(AnswerRows) = {p[1] : p \in AnswerRows}
    BY <1>2, InTable, Zenon
  <2>2. QED
    BY <1>1, <2>1, KindsAnswered, Zenon
<1>4. QED
  BY <1>1, <1>2, <1>3, InTable

\* The answers of each kind.
AnswerOf(kind, e) ==
    /\ kind \in {"register", "delete"} => e = <<"EXECUTE">>
    /\ kind = "code" => e \in {<<"RETURNS">>, <<"WAIT">>}
    /\ kind = "email" => e \in {<<"email">>, <<"RETURNS">>}
    /\ kind \in {"verify", "test"} => e \in {<<"EXECUTE">>, <<"RETURNS">>}
    /\ kind \in {"revise", "add", "creategroup"} => e = <<"UEXECUTE">>
    /\ kind \in {"messdata", "see", "delfriend", "black", "delgroup1", "seegroup"} =>
          e = <<"URETURN">>
    /\ kind \in {"chat", "gchat"} => e \in {<<"UCHAT">>, <<"URETURN">>}
    /\ kind \in {"cmd", "unblack", "history"} => e = <<"USAT">>
    /\ kind = "answer" => e = <<"UWAIT">>
    /\ kind = "delgroup" => e \in {<<"UWAIT">>, <<"URETURN">>}
    /\ kind = "offmeg" => e \in {<<"UEXECUTE">>, <<"UEXECUTE", "UEXECUTE">>}
    /\ kind = "message" => e \in {<<>>, <<"URETURN">>}
    /\ kind = "gmessage" => e \in {<<>>, <<"USAT">>}
    /\ kind = "list" => e \in {<<"URETURN">>, <<"UWAIT", "URETURN">>}
    /\ kind = "look" => e \in {<<"URETURN">>, <<"USAT">>}

LEMMA KindAnswers ==
    /\ \A kind \in LogonKinds \cup UiKinds : \A e \in Answers[kind] : AnswerOf(kind, e)
    /\ <<"EXECUTE">> \in Answers["delete"]
<1>1. \A p \in AccountAnswers : AnswerOf(p[1], p[2])
  BY DEF AccountAnswers, at, AnswerOf
<1>2. \A p \in AddAnswers \cup ViewAnswers \cup MessageAnswers : AnswerOf(p[1], p[2])
  BY DEF AddAnswers, ViewAnswers, MessageAnswers, at, AnswerOf
<1>3. \A p \in ChatAnswers : AnswerOf(p[1], p[2])
  BY DEF ChatAnswers, at, AnswerOf
<1>4. \A p \in RemovalAnswers \cup FileAnswers : AnswerOf(p[1], p[2])
  BY DEF RemovalAnswers, FileAnswers, at, AnswerOf
<1>5. \A p \in GroupAnswers : AnswerOf(p[1], p[2])
  BY DEF GroupAnswers, at, AnswerOf
<1>6. ASSUME NEW kind \in LogonKinds \cup UiKinds, NEW e \in Answers[kind]
      PROVE  AnswerOf(kind, e)
  <2>1. <<kind, e>> \in AnswerRows /\ <<kind, e>>[1] = kind /\ <<kind, e>>[2] = e
    BY AnswerIsRow
  <2>2. QED
    BY <1>1, <1>2, <1>3, <1>4, <1>5, <2>1 DEF AnswerRows
<1>7. <<"EXECUTE">> \in Answers["delete"]
  <2>1. Answers = Table(AnswerRows)
    BY DEF Answers, AnswerRows
  <2>2. \A p \in AnswerRows : p = <<p[1], p[2]>>
    BY AnswersAreRows
  <2>3. <<"delete", <<"EXECUTE">> >> \in AnswerRows
    BY DEF AnswerRows, AccountAnswers, at
  <2>4. QED
    BY <2>1, <2>2, <2>3, InTable
<1>8. QED
  BY <1>6, <1>7

\* Which requests suit which places.
LEMMA KindsSuit ==
    ASSUME NEW S
    PROVE  /\ "EXECUTE" \in Goes(S) => KindSuits("register", S)
           /\ {"WAIT", "RETURNS"} \subseteq Goes(S) /\ S \notin Strict => KindSuits("code", S)
           /\ {"EXECUTE", "RETURNS"} \subseteq Goes(S) /\ S \notin Strict =>
                 \A kind \in {"email", "verify", "test"} : KindSuits(kind, S)
           /\ "UEXECUTE" \in Goes(S) =>
                 \A kind \in {"revise", "add", "creategroup"} : KindSuits(kind, S)
           /\ "UEXECUTE" \in Goes(S) /\ S \notin Strict => KindSuits("offmeg", S)
           /\ "URETURN" \in Goes(S) =>
                 /\ \A kind \in {"messdata", "see", "delfriend", "black", "delgroup1",
                                 "seegroup"} : KindSuits(kind, S)
                 /\ S \in Strict /\ "UWAIT" \notin Goes(S) => KindSuits("list", S)
                 /\ S \notin Strict => KindSuits("message", S)
           /\ {"UCHAT", "URETURN"} \subseteq Goes(S) =>
                 \A kind \in {"chat", "gchat"} : KindSuits(kind, S)
           /\ "USAT" \in Goes(S) =>
                 /\ \A kind \in {"cmd", "unblack", "history"} : KindSuits(kind, S)
                 /\ S \notin Strict => KindSuits("gmessage", S)
           /\ "UWAIT" \in Goes(S) => KindSuits("answer", S)
           /\ {"URETURN", "USAT"} \subseteq Goes(S) => KindSuits("look", S)
           /\ KindSuits("delgroup", "leaveGroup")
<1>1. \A kind \in LogonKinds \cup UiKinds : \A e \in Answers[kind] : AnswerOf(kind, e)
  BY KindAnswers
<1>2. ASSUME NEW kind \in LogonKinds \cup UiKinds, NEW T, \A e : AnswerOf(kind, e) => Suits(T, e)
      PROVE  KindSuits(kind, T)
  BY <1>1, <1>2 DEF KindSuits
<1>3. /\ S \notin Strict => Suits(S, <<>>)
      /\ \A x \in Goes(S) : Suits(S, <<x>>)
      /\ S \notin Strict => \A x, y \in Goes(S) : Suits(S, <<x, y>>)
      /\ S \in Strict => \A x \in Words \ Goes(S), y \in Goes(S) : Suits(S, <<x, y>>)
      /\ S \notin Strict /\ {"EXECUTE", "RETURNS"} \subseteq Goes(S) => Suits(S, <<"email">>)
      /\ Suits("leaveGroup", <<"UWAIT">>) /\ Suits("leaveGroup", <<"URETURN">>)
  BY ShortSuits, GoesOf
<1>4. /\ "EXECUTE" \in Goes(S) => KindSuits("register", S)
      /\ {"WAIT", "RETURNS"} \subseteq Goes(S) /\ S \notin Strict => KindSuits("code", S)
      /\ {"EXECUTE", "RETURNS"} \subseteq Goes(S) /\ S \notin Strict =>
            \A kind \in {"email", "verify", "test"} : KindSuits(kind, S)
  BY <1>2, <1>3 DEF AnswerOf, LogonKinds
<1>5. /\ "UEXECUTE" \in Goes(S) =>
            \A kind \in {"revise", "add", "creategroup"} : KindSuits(kind, S)
      /\ "UEXECUTE" \in Goes(S) /\ S \notin Strict => KindSuits("offmeg", S)
  BY <1>2, <1>3 DEF AnswerOf, UiKinds
<1>6. ASSUME "URETURN" \in Goes(S)
      PROVE  /\ \A kind \in {"messdata", "see", "delfriend", "black", "delgroup1",
                             "seegroup"} : KindSuits(kind, S)
             /\ S \in Strict /\ "UWAIT" \notin Goes(S) => KindSuits("list", S)
             /\ S \notin Strict => KindSuits("message", S)
  <2>1. \A kind \in {"messdata", "see", "delfriend", "black", "delgroup1", "seegroup"} :
            KindSuits(kind, S)
    BY <1>2, <1>3, <1>6 DEF AnswerOf, UiKinds
  <2>2. ASSUME S \in Strict, "UWAIT" \notin Goes(S) PROVE KindSuits("list", S)
    <3>1. Suits(S, <<"URETURN">>) /\ Suits(S, <<"UWAIT", "URETURN">>)
      BY <1>3, <1>6, <2>2 DEF Words
    <3>2. \A e : AnswerOf("list", e) => Suits(S, e)
      BY <3>1 DEF AnswerOf
    <3>3. QED
      BY <1>2, <3>2 DEF UiKinds
  <2>3. ASSUME S \notin Strict PROVE KindSuits("message", S)
    <3>1. \A e : AnswerOf("message", e) => Suits(S, e)
      BY <1>3, <1>6, <2>3 DEF AnswerOf
    <3>2. QED
      BY <1>2, <3>1 DEF UiKinds
  <2>4. QED
    BY <2>1, <2>2, <2>3
<1>7. /\ {"UCHAT", "URETURN"} \subseteq Goes(S) =>
            \A kind \in {"chat", "gchat"} : KindSuits(kind, S)
      /\ {"URETURN", "USAT"} \subseteq Goes(S) => KindSuits("look", S)
  BY <1>2, <1>3 DEF AnswerOf, UiKinds
<1>8. /\ "USAT" \in Goes(S) =>
            /\ \A kind \in {"cmd", "unblack", "history"} : KindSuits(kind, S)
            /\ S \notin Strict => KindSuits("gmessage", S)
      /\ "UWAIT" \in Goes(S) => KindSuits("answer", S)
  BY <1>2, <1>3 DEF AnswerOf, UiKinds
<1>9. KindSuits("delgroup", "leaveGroup")
  <2>1. \A e : AnswerOf("delgroup", e) => Suits("leaveGroup", e)
    BY <1>3 DEF AnswerOf
  <2>2. QED
    BY <1>2, <2>1 DEF UiKinds
<1>10. QED
  BY <1>4, <1>5, <1>6, <1>7, <1>8, <1>9

\* Every request of a row suits the place the row leads to.
LEMMA RowsAsk ==
    /\ KindSuits("register", "test") /\ KindSuits("code", "Register")
    /\ \A kind \in {"email", "verify", "test"} : KindSuits(kind, "getPassword")
    /\ KindSuits("offmeg", "selectFunc") /\ KindSuits("revise", "ui")
    /\ \A kind \in {"see", "chat"} : KindSuits(kind, "seeFriend")
    /\ KindSuits("message", "chat")
    /\ \A S \in {"fileList", "gfileList", "members"} : KindSuits("list", S)
    /\ \A S \in {"fileLook", "gfileLook"} : KindSuits("look", S)
    /\ \A S \in {"addFriend", "joinGroup"} : KindSuits("add", S)
    /\ \A kind \in {"messdata", "answer"} : KindSuits(kind, "viewInformation")
    /\ \A kind \in {"see", "delfriend"} : KindSuits(kind, "chosenFriend")
    /\ \A kind \in {"see", "unblack"} : KindSuits(kind, "blackList")
    /\ \A kind \in {"creategroup", "delgroup1"} : KindSuits(kind, "managerGroup")
    /\ KindSuits("delgroup", "leaveGroup") /\ KindSuits("seegroup", "groupKinds")
    /\ \A kind \in {"seegroup", "gchat"} : KindSuits(kind, "groupList")
    /\ \A kind \in {"gmessage", "cmd", "history"} : KindSuits(kind, "gchat")
<1>1. /\ KindSuits("register", "test") /\ KindSuits("code", "Register")
      /\ \A kind \in {"email", "verify", "test"} : KindSuits(kind, "getPassword")
  BY KindsSuit, GoesOf DEF LogonWaits, Strict
<1>2. /\ KindSuits("offmeg", "selectFunc") /\ KindSuits("revise", "ui")
      /\ \A S \in {"addFriend", "joinGroup"} : KindSuits("add", S)
  BY KindsSuit, GoesOf DEF Strict
<1>3. /\ \A kind \in {"see", "chat"} : KindSuits(kind, "seeFriend")
      /\ KindSuits("message", "chat")
      /\ \A S \in {"fileLook", "gfileLook"} : KindSuits("look", S)
  BY KindsSuit, GoesOf DEF Strict, Prompts, Words
<1>4. \A S \in {"fileList", "gfileList", "members"} : KindSuits("list", S)
  BY KindsSuit, GoesOf DEF Strict
<1>5. /\ \A kind \in {"messdata", "answer"} : KindSuits(kind, "viewInformation")
      /\ \A kind \in {"see", "delfriend"} : KindSuits(kind, "chosenFriend")
      /\ \A kind \in {"see", "unblack"} : KindSuits(kind, "blackList")
  BY KindsSuit, GoesOf
<1>6. /\ \A kind \in {"creategroup", "delgroup1"} : KindSuits(kind, "managerGroup")
      /\ KindSuits("delgroup", "leaveGroup") /\ KindSuits("seegroup", "groupKinds")
      /\ \A kind \in {"seegroup", "gchat"} : KindSuits(kind, "groupList")
  BY KindsSuit, GoesOf DEF Prompts, Words
<1>7. \A kind \in {"gmessage", "cmd", "history"} : KindSuits(kind, "gchat")
  BY KindsSuit, GoesOf DEF Strict
<1>8. QED
  BY <1>1, <1>2, <1>3, <1>4, <1>5, <1>6, <1>7

\* Every row goes on.
LEMMA RowsGoOn == \A p \in ScreenRows : RowGoesOn(p[1], p[2])
<1>1. ASSUME NEW p \in logonMenu PROVE RowGoesOn(p[1], p[2])
  BY RowsAsk, GoesOf, SMTT(60) DEF logonMenu, at, row, RowGoesOn, Asking, Will, ChatOf, Strict, Asks,
     LogonForms, LogonWaits, LogonKinds, Words, Keep, Prompt
<1>2. ASSUME NEW p \in Register PROVE RowGoesOn(p[1], p[2])
  BY RowsAsk, GoesOf, SMTT(60) DEF Register, at, row, RowGoesOn, Asking, Will, ChatOf, Strict, Asks,
     LogonForms, LogonWaits, LogonKinds, Words, Keep, Prompt
<1>3. ASSUME NEW p \in getPassword PROVE RowGoesOn(p[1], p[2])
  BY RowsAsk, GoesOf, SMTT(60) DEF getPassword, at, row, RowGoesOn, Asking, Will, ChatOf, Strict, Asks,
     LogonForms, LogonWaits, LogonKinds, Words, Keep, Prompt
<1>4. ASSUME NEW p \in uiMenu PROVE RowGoesOn(p[1], p[2])
  BY RowsAsk, GoesOf, SMTT(60) DEF uiMenu, at, row, RowGoesOn, Asking, Will, ChatOf, Strict, Asks,
     LogonForms, LogonWaits, UiForms, UiKinds, Prompts, Words, Keep, Prompt
<1>5. ASSUME NEW p \in myinformation PROVE RowGoesOn(p[1], p[2])
  BY RowsAsk, GoesOf, SMTT(60) DEF myinformation, at, row, RowGoesOn, Asking, Will, ChatOf, Strict, Asks,
     LogonForms, LogonWaits, UiForms, UiKinds, Prompts, Words, Keep, Prompt
<1>6. ASSUME NEW p \in seeFriend PROVE RowGoesOn(p[1], p[2])
  BY RowsAsk, GoesOf, SMTT(60) DEF seeFriend, at, row, RowGoesOn, Asking, Will, ChatOf, Strict, Asks,
     LogonForms, LogonWaits, UiForms, UiKinds, Prompts, Words, Keep, Prompt
<1>7. ASSUME NEW p \in addFriend PROVE RowGoesOn(p[1], p[2])
  BY RowsAsk, GoesOf, SMTT(60) DEF addFriend, at, row, RowGoesOn, Asking, Will, ChatOf, Strict, Asks,
     LogonForms, LogonWaits, UiForms, UiKinds, Prompts, Words, Keep, Prompt
<1>8. ASSUME NEW p \in joinGroup PROVE RowGoesOn(p[1], p[2])
  BY RowsAsk, GoesOf, SMTT(60) DEF joinGroup, at, row, RowGoesOn, Asking, Will, ChatOf, Strict, Asks,
     LogonForms, LogonWaits, UiForms, UiKinds, Prompts, Words, Keep, Prompt
<1>9. ASSUME NEW p \in viewInformation PROVE RowGoesOn(p[1], p[2])
  BY RowsAsk, GoesOf, SMTT(60) DEF viewInformation, at, row, RowGoesOn, Asking, Will, ChatOf, Strict, Asks,
     LogonForms, LogonWaits, UiForms, UiKinds, Prompts, Words, Keep, Prompt
<1>10. ASSUME NEW p \in handleCmd PROVE RowGoesOn(p[1], p[2])
  BY RowsAsk, GoesOf, SMTT(60) DEF handleCmd, at, row, RowGoesOn, Asking, Will, ChatOf, Strict, Asks,
     LogonForms, LogonWaits, UiForms, UiKinds, Prompts, Words, Keep, Prompt
<1>11. ASSUME NEW p \in managerFriend PROVE RowGoesOn(p[1], p[2])
  BY RowsAsk, GoesOf, SMTT(60) DEF managerFriend, at, row, RowGoesOn, Asking, Will, ChatOf, Strict, Asks,
     LogonForms, LogonWaits, UiForms, UiKinds, Prompts, Words, Keep, Prompt
<1>12. ASSUME NEW p \in managerGroup PROVE RowGoesOn(p[1], p[2])
  BY RowsAsk, GoesOf, SMTT(60) DEF managerGroup, at, row, RowGoesOn, Asking, Will, ChatOf, Strict, Asks,
     LogonForms, LogonWaits, UiForms, UiKinds, Prompts, Words, Keep, Prompt
<1>13. ASSUME NEW p \in myGroup PROVE RowGoesOn(p[1], p[2])
  BY RowsAsk, GoesOf, SMTT(60) DEF myGroup, at, row, RowGoesOn, Asking, Will, ChatOf, Strict, Asks,
     LogonForms, LogonWaits, UiForms, UiKinds, Prompts, Words, Keep, Prompt
<1>14. ASSUME NEW p \in ownGroups PROVE RowGoesOn(p[1], p[2])
  BY RowsAsk, GoesOf, SMTT(60) DEF ownGroups, at, row, RowGoesOn, Asking, Will, ChatOf, Strict, Asks,
     LogonForms, LogonWaits, UiForms, UiKinds, Prompts, Words, Keep, Prompt
<1>15. ASSUME NEW p \in groupChat PROVE RowGoesOn(p[1], p[2])
  BY RowsAsk, GoesOf, SMTT(60) DEF groupChat, at, row, RowGoesOn, Asking, Will, ChatOf, Strict, Asks,
     LogonForms, LogonWaits, UiForms, UiKinds, Prompts, Words, Keep, Prompt
<1>16. ASSUME NEW p \in fileSystem("files", "fileList", "fileLook", Keep, "chat") PROVE RowGoesOn(p[1], p[2])
  BY RowsAsk, GoesOf, SMTT(60) DEF fileSystem, at, row, RowGoesOn, Asking, Will, ChatOf, Strict, Asks,
     LogonForms, LogonWaits, UiForms, UiKinds, Prompts, Words, Keep, Prompt
<1>17. ASSUME NEW p \in fileSystem("gfiles", "gfileList", "gfileLook", "USAT", "gchat") PROVE RowGoesOn(p[1], p[2])
  BY RowsAsk, GoesOf, SMTT(60) DEF fileSystem, at, row, RowGoesOn, Asking, Will, ChatOf, Strict, Asks,
     LogonForms, LogonWaits, UiForms, UiKinds, Prompts, Words, Keep, Prompt
<1>18. QED
  BY <1>1, <1>2, <1>3, <1>4, <1>5, <1>6, <1>7, <1>8, <1>9, <1>10, <1>11, <1>12, <1>13, <1>14, <1>15, <1>16, <1>17
     DEF ScreenRows

\* A screen has a row for every word it goes on with, and every row goes on.
LEMMA ScreensGoOn ==
    ASSUME NEW S \in DOMAIN Screens
    PROVE  /\ \A r \in Screens[S] : RowGoesOn(S, r)
           /\ \A w \in Goes(S) : \E r \in Screens[S] : r.on \in {w, Prompt}
<1> DEFINE Has(name, on) == \E r : <<name, r>> \in ScreenRows /\ r.on = on
<1>1. Screens = Table(ScreenRows)
  BY DEF Screens, ScreenRows
<1>2. \A p \in ScreenRows : p = <<p[1], p[2]>>
  BY ScreensAreRows
<1>3. ASSUME NEW r \in Screens[S] PROVE RowGoesOn(S, r)
  <2>1. <<S, r>> \in ScreenRows
    BY <1>1, <1>2, InTable
  <2>2. <<S, r>>[1] = S /\ <<S, r>>[2] = r
    OBVIOUS
  <2>3. QED
    BY <2>1, <2>2, RowsGoOn
<1>4. ASSUME NEW on, Has(S, on) PROVE \E r \in Screens[S] : r.on = on
  BY <1>1, <1>2, <1>4, InTable
<1>5. \A name, on, pre, ask, then, to :
          <<name, row(on, pre, ask, then, to)>> \in ScreenRows => Has(name, on)
  <2>1. \A on, pre, ask, then, to : row(on, pre, ask, then, to).on = on
    BY DEF row
  <2>2. SUFFICES ASSUME NEW name, NEW on, NEW pre, NEW ask, NEW then, NEW to,
                        <<name, row(on, pre, ask, then, to)>> \in ScreenRows
                 PROVE  Has(name, on)
    OBVIOUS
  <2>3. row(on, pre, ask, then, to).on = on
    BY <2>1
  <2>4. QED
    BY <2>2, <2>3
<1>6. S \in LogonForms \cup UiForms
  <2> DEFINE rows == ScreenRows
  <2>1. \A p \in rows : p = <<p[1], p[2]>>
    BY <1>2
  <2>2. \A p \in rows : p[1] \in LogonForms \cup UiForms
    BY ScreensAreRows
  <2> HIDE DEF rows
  <2>3. DOMAIN Table(rows) = {p[1] : p \in rows}
    BY <2>1, InTable
  <2>4. DOMAIN Screens = {p[1] : p \in rows}
    BY <1>1, <2>3 DEF rows
  <2>5. QED
    BY <2>2, <2>4
<1>7. /\ Has("logon", "EXECUTE") /\ Has("Register", "WAIT") /\ Has("Register", "RETURNS")
      /\ Has("getPassword", "EXECUTE") /\ Has("getPassword", "RETURNS")
  BY SMTT(30) DEF ScreenRows, logonMenu, Register, getPassword, at, row
<1>8. /\ Has("ui", "UEXECUTE") /\ Has("selectFunc", Prompt) /\ Has("myinformation", Prompt)
      /\ Has("seeFriend", "USAT") /\ Has("seeFriend", "URETURN") /\ Has("seeFriend", "UCHAT")
      /\ Has("chat", Prompt)
  <2>1. /\ <<"ui", row("UEXECUTE", Keep, <<"offmeg">>, Keep, "selectFunc")>> \in ScreenRows
        /\ <<"selectFunc", row(Prompt, Keep, <<>>, Keep, "ui")>> \in ScreenRows
        /\ <<"myinformation", row(Prompt, "UEXECUTE", <<>>, Keep, "ui")>> \in ScreenRows
    BY DEF ScreenRows, uiMenu, myinformation, at
  <2>2. /\ <<"seeFriend", row("USAT", Keep, <<"see">>, "UWAIT", "seeFriend")>> \in ScreenRows
        /\ <<"seeFriend", row("URETURN", "UEXECUTE", <<>>, Keep, "ui")>> \in ScreenRows
        /\ <<"seeFriend", row("UCHAT", Keep, <<>>, Keep, "openChat")>> \in ScreenRows
        /\ <<"chat", row(Prompt, Keep, <<>>, Keep, "files")>> \in ScreenRows
    BY DEF ScreenRows, seeFriend, at
  <2>3. QED
    BY <1>5, <2>1, <2>2, Zenon
<1>9. /\ Has("addFriend", "UEXECUTE") /\ Has("joinGroup", "UEXECUTE")
      /\ Has("viewInformation", "UWAIT") /\ Has("viewInformation", "URETURN")
  BY DEF ScreenRows, addFriend, joinGroup, viewInformation, at, row
<1>10. /\ Has("managerFriend", Prompt) /\ Has("chosenFriend", "URETURN")
      /\ Has("blackList", "USAT") /\ Has("blackList", "URETURN")
  BY DEF ScreenRows, managerFriend, at, row
<1>11. /\ Has("managerGroup", Prompt) /\ Has("leaveGroup", "URETURN")
       /\ Has("myGroup", "UEXECUTE") /\ Has("groupList", "URETURN") /\ Has("groupList", "UCHAT")
  BY DEF ScreenRows, managerGroup, myGroup, at, row
<1>12. /\ Has("groupKinds", "URETURN") /\ Has("groupKind", Prompt)
       /\ Has("gchat", "USAT") /\ Has("members", "URETURN")
  BY DEF ScreenRows, ownGroups, groupChat, at, row
<1>13. /\ Has("files", Prompt) /\ Has("fileList", "URETURN")
       /\ Has("fileLook", "URETURN") /\ Has("fileLook", "USAT")
  <2>1. /\ <<"files", row(Prompt, Keep, <<>>, Keep, "chat")>> \in ScreenRows
        /\ <<"fileList", row("URETURN", Keep, <<>>, Keep, "files")>> \in ScreenRows
        /\ <<"fileLook", row("URETURN", Keep, <<>>, Keep, "files")>> \in ScreenRows
        /\ <<"fileLook", row("USAT", Keep, <<>>, Keep, "files")>> \in ScreenRows
    BY DEF ScreenRows, fileSystem, at
  <2>2. QED
    BY <1>5, <2>1, Zenon
<1>14. /\ Has("gfiles", Prompt) /\ Has("gfileList", "URETURN")
       /\ Has("gfileLook", "URETURN") /\ Has("gfileLook", "USAT")
  <2>1. /\ <<"gfiles", row(Prompt, "USAT", <<>>, Keep, "gchat")>> \in ScreenRows
        /\ <<"gfileList", row("URETURN", Keep, <<>>, Keep, "gfiles")>> \in ScreenRows
        /\ <<"gfileLook", row("URETURN", Keep, <<>>, Keep, "gfiles")>> \in ScreenRows
        /\ <<"gfileLook", row("USAT", Keep, <<>>, Keep, "gfiles")>> \in ScreenRows
    BY DEF ScreenRows, fileSystem, at
  <2>2. QED
    BY <1>5, <2>1, Zenon
<1> HIDE DEF Has
<1>15. ASSUME NEW w \in Goes(S) PROVE Has(S, w) \/ Has(S, Prompt)
  <2>1. S \in LogonForms => Has(S, w) \/ Has(S, Prompt)
    BY <1>7, GoesOf DEF LogonForms, LogonWaits
  <2>2. S \in UiForms => Has(S, w) \/ Has(S, Prompt)
    <3>1. \A T \in Prompts : T = S => Has(S, Prompt) \/ S = "openChat"
      BY <1>8, <1>10, <1>11, <1>12, <1>13, <1>14 DEF Prompts
    <3>2. CASE S \in Prompts \cup {"selectFunc"}
      BY <1>8, <3>1, <3>2 DEF UiForms
    <3>3. CASE S \in {"ui", "addFriend", "joinGroup", "myGroup"}
      BY <1>8, <1>9, <1>11, <3>3, GoesOf
    <3>4. CASE S \in {"seeFriend", "groupList", "viewInformation", "gchat"}
      BY <1>8, <1>9, <1>11, <1>12, <3>4, GoesOf
    <3>5. CASE S \in {"chosenFriend", "leaveGroup", "groupKinds", "members", "fileList",
                       "gfileList"}
      BY <1>10, <1>11, <1>12, <1>13, <1>14, <3>5, GoesOf
    <3>6. CASE S \in {"blackList", "fileLook", "gfileLook"}
      BY <1>10, <1>13, <1>14, <3>6, GoesOf
    <3>7. QED
      BY <3>2, <3>3, <3>4, <3>5, <3>6 DEF UiForms, Prompts
  <2>3. QED
    BY <1>6, <2>1, <2>2
<1>16. QED
  BY <1>3, <1>4, <1>15

-----------------------------------------------------------------------------
(* The invariant: what a thread waits for can still come.                   *)

\* What is left of the answer is for the other thread: the login's word for
\* the ui thread, the deletion's for the logon thread.
Elsewhere(e) == e.left = {<<IF e.who = "ui" THEN "EXECUTE" ELSE "UEXECUTE">>}

\* All of the answer is for the thread that asked, except of these two.
Concerns(e) ==
    \/ Elsewhere(e)
    \/ e.who = "logon" /\ LoginLeft(e)
    \/ \A s \in e.left : \A i \in 1 .. Len(s) : s[i] # "info" /\ WordOf(s[i]) = e.who

Own(e, t) == e.who = t /\ e.own
Fits(e, S) == ~Elsewhere(e) /\ \A s \in e.left : Suits(S, s)
Login(e, S) == LoginLeft(e) /\ S \in LogonWaits

\* Each request the thread waits for is answered with what its place goes on
\* with; where none may come it goes on already; and a strict place has one
\* such request, and has not gone on.
OwnSuits(t, S, Q) ==
    \A k \in 1 .. Len(Q) : Own(Q[k], t) => Elsewhere(Q[k]) \/ Login(Q[k], S) \/ Fits(Q[k], S)

NoneIsEnough(t, S, w, p, Q) ==
    \A k \in 1 .. Len(Q) :
        Own(Q[k], t) /\ Fits(Q[k], S) /\ <<>> \in Q[k].left => Will(w, p) \in Goes(S)

OneAtStrict(t, S, w, n, p, Q) ==
    S \in Strict =>
        /\ \A k \in 1 .. Len(Q) :
              Own(Q[k], t) /\ Fits(Q[k], S) => Will(w, p) \notin Goes(S) /\ n = "none"
        /\ \A j, k \in 1 .. Len(Q) :
              Own(Q[j], t) /\ Fits(Q[j], S) /\ Own(Q[k], t) /\ Fits(Q[k], S) => j = k

Served(t, S, w, n, p, Q) ==
    /\ OwnSuits(t, S, Q)
    /\ NoneIsEnough(t, S, w, p, Q)
    /\ OneAtStrict(t, S, w, n, p, Q)

\* The thread goes on with the word it has or will store, or with the answer
\* to its own request, or with what the other thread's request brings it.
GoesOn(t, S, w, n, p, Q) ==
    \/ Will(w, p) \in Goes(S)
    \/ /\ n = "none" /\ S \in Asks
       /\ \E k \in 1 .. Len(Q) : Own(Q[k], t) /\ (Login(Q[k], S) \/ Fits(Q[k], S))
    \/ /\ n = "none" /\ p = Keep /\ S \in LogonWaits \cup {"ui"}
       /\ \E k \in 1 .. Len(Q) : Q[k].who # t /\ Elsewhere(Q[k])

\* The ui thread that begins has its word, or the login still brings it.
Begins(S, w, Q) ==
    /\ S = "off" /\ (\E k \in 1 .. Len(Q) : Q[k].left = {<<"info">>}) => w = "UEXECUTE"
    /\ S = "start" =>
          w = "UEXECUTE" \/ \E k \in 1 .. Len(Q) : Q[k].who # "ui" /\ Elsewhere(Q[k])

\* For one thread; the logon thread's menu waits behind a ui thread (up = "off"
\* where there is none).
ServedOne(t, S, up, w, n, p, Q) ==
    /\ Served(t, S, w, n, p, Q)
    /\ S \notin {"off", "start"} /\ (t = "logon" => up = "off") => GoesOn(t, S, w, n, p, Q)
    /\ t = "ui" => Begins(S, w, Q)

\* What holds whether or not the connection is up.
Shape ==
    /\ \A k \in 1 .. Len(inflight) : Concerns(inflight[k])
    /\ \A t \in Threads : post[t] # Keep =>
          seen[t] = "none" /\ scr[t] \in (LogonForms \cup UiForms) \ {"logon"}
    /\ ChatOf(scr["ui"]) # "none" => chat = ChatOf(scr["ui"])

ServedInv ==
    /\ Shape
    /\ Up => \A t \in Threads \ disturbed :
                ServedOne(t, scr[t], scr["ui"], word[t], seen[t], post[t], inflight)

\* A request left over from another, with less of its answer to come, is for
\* the same thread.
LEMMA WordsOfTwo ==
    ASSUME NEW e \in Entry, Concerns(e), NEW s \in e.left, NEW i \in 1 .. Len(s)
    PROVE  \/ Elsewhere(e) /\ s = <<s[1]>> /\ i = 1
              /\ s[i] = IF e.who = "ui" THEN "EXECUTE" ELSE "UEXECUTE"
           \/ e.who = "logon" /\ LoginLeft(e) /\ s[i] \in {"UEXECUTE", "info", "EXECUTE"}
           \/ s[i] # "info" /\ WordOf(s[i]) = e.who
<1>1. CASE Elsewhere(e)
  <2> DEFINE x == IF e.who = "ui" THEN "EXECUTE" ELSE "UEXECUTE"
  <2>1. s = <<x>> /\ Len(<<x>>) = 1 /\ <<x>>[1] = x
    BY <1>1 DEF Elsewhere
  <2> HIDE DEF x
  <2>2. Len(s) = 1 /\ s[1] = x
    BY <2>1
  <2>3. i = 1
    BY <2>2
  <2>4. QED
    BY <1>1, <2>1, <2>2, <2>3 DEF x
<1>2. CASE e.who = "logon" /\ LoginLeft(e)
  BY <1>2, LoginAnswer
<1>3. QED
  BY <1>1, <1>2 DEF Concerns

\* For thread t the requests R are some of Q: each it waits for was there with
\* what is left of its answer, and no two are the same one.
SomeOf(t, Q, R) ==
    /\ \A j \in 1 .. Len(R) : Own(R[j], t) =>
          \E k \in 1 .. Len(Q) : Own(Q[k], t) /\ Q[k].left = R[j].left
    /\ \A i, j \in 1 .. Len(R) : Own(R[i], t) /\ Own(R[j], t) /\ i # j =>
          \E k, m \in 1 .. Len(Q) :
             /\ k # m /\ Own(Q[k], t) /\ Own(Q[m], t)
             /\ Q[k].left = R[i].left /\ Q[m].left = R[j].left

\* Or all of them.
Alike(t, Q, R) ==
    /\ SomeOf(t, Q, R)
    /\ \A k \in 1 .. Len(Q) : Own(Q[k], t) =>
          \E j \in 1 .. Len(R) : Own(R[j], t) /\ R[j].left = Q[k].left

\* What the other thread's requests bring t is still to come.
Brings(t, Q, R) ==
    \A k \in 1 .. Len(Q) : Q[k].who # t /\ Elsewhere(Q[k]) =>
        \E j \in 1 .. Len(R) : R[j].who # t /\ Elsewhere(R[j])

\* No ui thread is about to start that was not before.
StartsNoMore(Q, R) ==
    (\E j \in 1 .. Len(R) : R[j].left = {<<"info">>})
        => \E k \in 1 .. Len(Q) : Q[k].left = {<<"info">>}

LEMMA SameLeft ==
    ASSUME NEW t, NEW d, NEW e, Own(d, t), Own(e, t), d.left = e.left, NEW S
    PROVE  /\ Elsewhere(d) <=> Elsewhere(e)
           /\ Login(d, S) <=> Login(e, S)
           /\ Fits(d, S) <=> Fits(e, S)
BY DEF Own, Elsewhere, Login, LoginLeft, Fits

\* A thread is served by some of the requests it was served by.
LEMMA ServedAlike ==
    ASSUME NEW t, NEW S, NEW w, NEW n, NEW p, NEW Q, NEW R,
           Served(t, S, w, n, p, Q), SomeOf(t, Q, R)
    PROVE  Served(t, S, w, n, p, R)
<1>1. \A d, e : Own(d, t) /\ Own(e, t) /\ d.left = e.left =>
          /\ Elsewhere(d) <=> Elsewhere(e)
          /\ Login(d, S) <=> Login(e, S)
          /\ Fits(d, S) <=> Fits(e, S)
  BY SameLeft
<1>2. ASSUME NEW j \in 1 .. Len(R), Own(R[j], t)
      PROVE  \E k \in 1 .. Len(Q) : /\ Own(Q[k], t) /\ Q[k].left = R[j].left
                                    /\ Elsewhere(Q[k]) <=> Elsewhere(R[j])
                                    /\ Login(Q[k], S) <=> Login(R[j], S)
                                    /\ Fits(Q[k], S) <=> Fits(R[j], S)
  BY <1>1, <1>2 DEF SomeOf
<1>3. OwnSuits(t, S, R)
  BY <1>2 DEF OwnSuits, Served
<1>4. NoneIsEnough(t, S, w, p, R)
  BY <1>2 DEF NoneIsEnough, Served
<1>5. OneAtStrict(t, S, w, n, p, R)
  <2> SUFFICES ASSUME S \in Strict PROVE
          /\ \A k \in 1 .. Len(R) :
                Own(R[k], t) /\ Fits(R[k], S) => Will(w, p) \notin Goes(S) /\ n = "none"
          /\ \A j, k \in 1 .. Len(R) :
                Own(R[j], t) /\ Fits(R[j], S) /\ Own(R[k], t) /\ Fits(R[k], S) => j = k
    BY DEF OneAtStrict
  <2>1. \A k \in 1 .. Len(R) :
            Own(R[k], t) /\ Fits(R[k], S) => Will(w, p) \notin Goes(S) /\ n = "none"
    BY <1>2 DEF OneAtStrict, Served
  <2>2. ASSUME NEW i \in 1 .. Len(R), NEW j \in 1 .. Len(R), i # j,
               Own(R[i], t), Fits(R[i], S), Own(R[j], t), Fits(R[j], S)
        PROVE  FALSE
    <3>1. PICK k \in 1 .. Len(Q), m \in 1 .. Len(Q) :
              /\ k # m /\ Own(Q[k], t) /\ Own(Q[m], t)
              /\ Q[k].left = R[i].left /\ Q[m].left = R[j].left
      BY <2>2 DEF SomeOf
    <3>2. Fits(Q[k], S) /\ Fits(Q[m], S)
      BY <1>1, <2>2, <3>1
    <3>3. QED
      BY <3>1, <3>2 DEF OneAtStrict, Served
  <2>3. QED
    BY <2>1, <2>2
<1>6. QED
  BY <1>3, <1>4, <1>5 DEF Served

\* And goes on, if what the other thread brings it is still to come.
LEMMA GoesOnAlike ==
    ASSUME NEW t, NEW S, NEW w, NEW n, NEW p, NEW Q, NEW R,
           GoesOn(t, S, w, n, p, Q), Alike(t, Q, R), Brings(t, Q, R)
    PROVE  GoesOn(t, S, w, n, p, R)
<1>1. \A d, e : Own(d, t) /\ Own(e, t) /\ d.left = e.left =>
          /\ Login(d, S) <=> Login(e, S)
          /\ Fits(d, S) <=> Fits(e, S)
  BY SameLeft
<1>2. ASSUME NEW k \in 1 .. Len(Q), Own(Q[k], t), Login(Q[k], S) \/ Fits(Q[k], S)
      PROVE  \E j \in 1 .. Len(R) : Own(R[j], t) /\ (Login(R[j], S) \/ Fits(R[j], S))
  BY <1>1, <1>2 DEF Alike
<1>3. QED
  BY <1>2 DEF GoesOn, Brings

\* A thread whose place, word and store stay is served as before.
LEMMA OneAlike ==
    ASSUME NEW t, NEW S, NEW up, NEW upThen, NEW w, NEW n, NEW p, NEW Q, NEW R,
           ServedOne(t, S, up, w, n, p, Q), Alike(t, Q, R), Brings(t, Q, R),
           StartsNoMore(Q, R), t = "logon" /\ upThen = "off" => up = "off"
    PROVE  ServedOne(t, S, upThen, w, n, p, R)
<1>1. Served(t, S, w, n, p, R)
  BY ServedAlike DEF ServedOne, Alike
<1>2. GoesOn(t, S, w, n, p, Q) => GoesOn(t, S, w, n, p, R)
  BY GoesOnAlike
<1>3. t = "ui" => Begins(S, w, R)
  BY DEF ServedOne, Begins, Brings, StartsNoMore
<1>4. QED
  BY <1>1, <1>2, <1>3 DEF ServedOne

LEMMA AlikeItself ==
    ASSUME NEW t, NEW Q PROVE Alike(t, Q, Q) /\ Brings(t, Q, Q) /\ StartsNoMore(Q, Q)
BY DEF Alike, SomeOf, Brings, StartsNoMore

\* An answer that suits a place suits one that goes on with more.
LEMMA SuitsMore ==
    ASSUME NEW S, NEW T, S \notin Strict, T \notin Strict, S # "leaveGroup",
           Goes(S) \subseteq Goes(T), NEW e, Fits(e, S)
    PROVE  Fits(e, T)
BY DEF Fits, Suits

\* A thread that moves on with its requests is served if they suit the new
\* place and that goes on if the old one did; none may be left at a strict one.
LEMMA ServedMoves ==
    ASSUME NEW t, NEW S, NEW T, NEW w, NEW wThen, NEW n, NEW nThen, NEW p, NEW pThen, NEW Q,
           Served(t, S, w, n, p, Q),
           \A k \in 1 .. Len(Q) : Own(Q[k], t) /\ Fits(Q[k], S) => Fits(Q[k], T),
           S \in LogonWaits => T \in LogonWaits,
           Will(w, p) \in Goes(S) => Will(wThen, pThen) \in Goes(T),
           T \in Strict => \A k \in 1 .. Len(Q) : Own(Q[k], t) => ~Fits(Q[k], S)
    PROVE  Served(t, T, wThen, nThen, pThen, Q)
<1>1. OwnSuits(t, T, Q)
  BY DEF Served, OwnSuits, Login
<1>2. ASSUME NEW k \in 1 .. Len(Q), Own(Q[k], t), Fits(Q[k], T), LoginLeft(Q[k]) => <<>> \notin Q[k].left,
             <<>> \in Q[k].left
      PROVE  Will(wThen, pThen) \in Goes(T)
  BY <1>2 DEF Served, OwnSuits, NoneIsEnough, Fits, Login
<1>3. ASSUME NEW e, LoginLeft(e) PROVE <<>> \notin e.left
  <2>1. <<"UEXECUTE", "info">> # <<>> /\ <<"EXECUTE">> # <<>> /\ <<"info">> # <<>>
    OBVIOUS
  <2>2. QED
    BY <1>3, <2>1 DEF LoginLeft
<1>4. NoneIsEnough(t, T, wThen, pThen, Q)
  BY <1>2, <1>3 DEF NoneIsEnough
<1>5. ASSUME T \in Strict, NEW k \in 1 .. Len(Q), Own(Q[k], t) PROVE ~Fits(Q[k], T)
  <2>1. Elsewhere(Q[k]) \/ Login(Q[k], T)
    BY <1>1, <1>5 DEF Served, OwnSuits, Login
  <2>2. T \notin LogonWaits
    BY <1>5 DEF Strict, LogonWaits
  <2>3. QED
    BY <2>1, <2>2 DEF Fits, Login
<1>6. OneAtStrict(t, T, wThen, nThen, pThen, Q)
  BY <1>5 DEF OneAtStrict
<1>7. QED
  BY <1>1, <1>4, <1>6 DEF Served

-----------------------------------------------------------------------------
(* What is sent.                                                            *)

\* What one thread sends changes nothing for the other.
LEMMA SentOther ==
    ASSUME inflight \in Seq(Entry), NEW u \in Threads, NEW t \in Threads, t # u,
           NEW kinds \in Seq(LogonKinds \cup UiKinds), NEW R, R = Send(u, kinds)
    PROVE  Alike(t, inflight, R) /\ Brings(t, inflight, R) /\ StartsNoMore(inflight, R)
<1>1. /\ Len(R) >= Len(inflight)
      /\ \A k \in 1 .. Len(inflight) :
            /\ R[k].who = inflight[k].who /\ R[k].left = inflight[k].left
            /\ R[k].own = (inflight[k].own /\ inflight[k].who # u)
      /\ \A k \in 1 .. Len(R) : k > Len(inflight) =>
            /\ k - Len(inflight) \in 1 .. Len(kinds)
            /\ R[k].who = u /\ R[k].left = Answers[kinds[k - Len(inflight)]]
      /\ R \in Seq(Entry)
  <2>1. SentIs(R, u, kinds)
    BY Sent
  <2>2. QED
    BY <2>1, Zenon DEF SentIs
<1>2. \A k \in 1 .. Len(R) : k \in 1 .. Len(inflight) \/ k > Len(inflight)
  BY <1>1
<1>3. \A k \in 1 .. Len(inflight) : k \in 1 .. Len(R)
  BY <1>1
<1>4. ASSUME NEW k \in 1 .. Len(inflight) PROVE Own(R[k], t) <=> Own(inflight[k], t)
  <2>1. inflight[k] \in Entry
    OBVIOUS
  <2>2. QED
    BY <1>1, <2>1 DEF Own, Entry
<1>5. ASSUME NEW j \in 1 .. Len(R), Own(R[j], t)
      PROVE  j \in 1 .. Len(inflight) /\ Own(inflight[j], t) /\ inflight[j].left = R[j].left
  <2>1. j \in 1 .. Len(inflight)
    BY <1>1, <1>2, <1>5 DEF Own
  <2>2. QED
    BY <1>1, <1>4, <1>5, <2>1
<1>6. Alike(t, inflight, R)
  BY <1>1, <1>3, <1>4, <1>5 DEF Alike, SomeOf
<1>7. Brings(t, inflight, R)
  BY <1>1, <1>3 DEF Brings, Elsewhere
<1>8. ASSUME NEW j \in 1 .. Len(R), R[j].left = {<<"info">>}
      PROVE  j \in 1 .. Len(inflight)
  <2>1. CASE j > Len(inflight)
    <3>1. PICK kind \in LogonKinds \cup UiKinds : Answers[kind] = {<<"info">>}
      BY <1>1, <1>8, <2>1
    <3>2. <<"info">>[1] = "info" /\ Len(<<"info">>) = 1 /\ <<"EXECUTE">>[1] = "EXECUTE"
      OBVIOUS
    <3>3. kind # "login"
      BY <3>1, <3>2, AnswersTo
    <3>4. Quietly(<<"info">>)
      BY <3>1, <3>3, AnswersTo
    <3>5. QED
      BY <3>2, <3>4 DEF Quietly
  <2>2. QED
    BY <1>2, <2>1
<1>9. StartsNoMore(inflight, R)
  BY <1>1, <1>8 DEF StartsNoMore
<1>10. QED
  BY <1>6, <1>7, <1>9

\* What a thread has sent is all it waits for.
LEMMA SentOwn ==
    ASSUME inflight \in Seq(Entry), NEW t \in Threads,
           NEW kinds \in Seq(LogonKinds \cup UiKinds), NEW R, R = Send(t, kinds)
    PROVE  /\ \A j \in 1 .. Len(R) : Own(R[j], t) =>
                 /\ j - Len(inflight) \in 1 .. Len(kinds) /\ j \in Nat
                 /\ R[j].left = Answers[kinds[j - Len(inflight)]]
           /\ Up => \A i \in 1 .. Len(kinds) : \E j \in 1 .. Len(R) :
                       Own(R[j], t) /\ R[j].left = Answers[kinds[i]]
           /\ \A j \in 1 .. Len(R) :
                 \/ j \in 1 .. Len(inflight)
                    /\ R[j].who = inflight[j].who /\ R[j].left = inflight[j].left
                 \/ \E i \in 1 .. Len(kinds) : R[j].who = t /\ R[j].left = Answers[kinds[i]]
           /\ \A k \in 1 .. Len(inflight) : k \in 1 .. Len(R)
                 /\ R[k].who = inflight[k].who /\ R[k].left = inflight[k].left
<1>1. /\ Len(R) >= Len(inflight) /\ (Up => Len(R) = Len(inflight) + Len(kinds))
      /\ \A k \in 1 .. Len(inflight) :
            /\ R[k].who = inflight[k].who /\ R[k].left = inflight[k].left
            /\ R[k].own = (inflight[k].own /\ inflight[k].who # t)
      /\ \A k \in 1 .. Len(R) : k > Len(inflight) =>
            /\ k - Len(inflight) \in 1 .. Len(kinds)
            /\ R[k].who = t /\ R[k].left = Answers[kinds[k - Len(inflight)]]
            /\ R[k].own = TRUE
      /\ R \in Seq(Entry)
  <2>1. SentIs(R, t, kinds)
    BY Sent
  <2>2. QED
    BY <2>1, Zenon DEF SentIs
<1>2. \A k \in 1 .. Len(R) : k \in 1 .. Len(inflight) \/ k > Len(inflight)
  BY <1>1
<1>3. \A k \in 1 .. Len(inflight) : k \in 1 .. Len(R)
  BY <1>1
<1>4. ASSUME NEW j \in 1 .. Len(R), Own(R[j], t)
      PROVE  /\ j - Len(inflight) \in 1 .. Len(kinds) /\ j \in Nat
             /\ R[j].left = Answers[kinds[j - Len(inflight)]]
  <2>1. j \notin 1 .. Len(inflight)
    BY <1>1, <1>4 DEF Own
  <2>2. QED
    BY <1>1, <1>2, <2>1
<1>5. ASSUME Up, NEW i \in 1 .. Len(kinds)
      PROVE  \E j \in 1 .. Len(R) : Own(R[j], t) /\ R[j].left = Answers[kinds[i]]
  <2> DEFINE j == Len(inflight) + i
  <2>1. j \in 1 .. Len(R) /\ j > Len(inflight) /\ j - Len(inflight) = i
    BY <1>1, <1>5
  <2> HIDE DEF j
  <2>2. R[j].who = t /\ R[j].own = TRUE /\ R[j].left = Answers[kinds[i]]
    BY <1>1, <2>1
  <2>3. QED
    BY <2>1, <2>2 DEF Own
<1>6. ASSUME NEW j \in 1 .. Len(R)
      PROVE  \/ j \in 1 .. Len(inflight)
                /\ R[j].who = inflight[j].who /\ R[j].left = inflight[j].left
             \/ \E i \in 1 .. Len(kinds) : R[j].who = t /\ R[j].left = Answers[kinds[i]]
  BY <1>1, <1>2
<1>7. QED
  BY <1>1, <1>3, <1>4, <1>5, <1>6

\* The answer to a request is for the thread that asked.
LEMMA KindConcerns ==
    ASSUME NEW e, NEW kind, e.left = Answers[kind],
           \/ e.who = "logon" /\ kind \in LogonKinds
           \/ e.who = "ui" /\ kind \in UiKinds
    PROVE  /\ Concerns(e)
           /\ kind = "delete" => Elsewhere(e)
           /\ kind = "login" => LoginLeft(e)
           /\ kind \notin {"delete", "login"} => ~Elsewhere(e)
           /\ <<>> \in e.left => kind \in {"message", "gmessage"}
<1>1. /\ \A s \in e.left : AnswerOf(kind, s)
      /\ <<"EXECUTE">> \in Answers["delete"]
  BY KindAnswers
<1>2. ASSUME NEW x PROVE Len(<<x>>) = 1 /\ <<x>>[1] = x /\ <<x>> # <<>>
  OBVIOUS
<1>3. ASSUME NEW x, NEW y
      PROVE  Len(<<x, y>>) = 2 /\ <<x, y>>[1] = x /\ <<x, y>>[2] = y /\ <<x, y>> # <<>>
  OBVIOUS
<1>4. CASE kind = "delete"
  <2>1. e.left = {<<"EXECUTE">>} /\ e.who = "ui"
    BY <1>1, <1>4 DEF AnswerOf, LogonKinds
  <2>2. QED
    BY <1>4, <2>1 DEF Elsewhere, Concerns
<1>5. CASE kind = "login"
  <2>1. LoginLeft(e) /\ e.who = "logon"
    BY <1>5, AnswersTo DEF LoginLeft, UiKinds
  <2>2. <<>> \notin e.left
    BY <1>2, <1>3, <1>5, AnswersTo
  <2>3. QED
    BY <1>5, <2>1, <2>2 DEF Concerns
<1>6. CASE kind \in LogonKinds \ {"login"}
  <2>1. \A s \in e.left : \E x \in {"EXECUTE", "RETURNS", "WAIT", "email"} : s = <<x>>
    <3>1. kind \in {"register", "code", "email", "verify", "test"}
      BY <1>6 DEF LogonKinds
    <3>2. ASSUME NEW s \in e.left
          PROVE  s \in {<<"EXECUTE">>, <<"RETURNS">>, <<"WAIT">>, <<"email">>}
      BY <1>1, <3>1 DEF AnswerOf
    <3>3. QED
      BY <3>2
  <2>2. \A s \in e.left : \A i \in 1 .. Len(s) : s[i] # "info" /\ WordOf(s[i]) = "logon"
    BY <1>2, <2>1 DEF WordOf
  <2>3. e.who = "logon"
    BY <1>6 DEF LogonKinds, UiKinds
  <2>4. ~Elsewhere(e)
    <3>1. <<"UEXECUTE">> \notin e.left
      <4>1. Len(<<"UEXECUTE">>) = 1 /\ <<"UEXECUTE">>[1] = "UEXECUTE" /\ WordOf("UEXECUTE") = "ui"
        BY <1>2 DEF WordOf
      <4>2. 1 \in 1 .. 1
        OBVIOUS
      <4>3. QED
        BY <2>2, <4>1, <4>2
    <3>2. QED
      BY <2>3, <3>1 DEF Elsewhere
  <2>5. QED
    BY <1>2, <1>6, <2>1, <2>2, <2>3, <2>4 DEF Concerns, LogonKinds
<1>7. CASE kind \in UiKinds \ {"delete"}
  <2> DEFINE U == {"UEXECUTE", "URETURN", "UWAIT", "UCHAT", "USAT"}
  <2>1. ASSUME NEW s \in e.left
        PROVE  \/ \E x \in U : s = <<x>>
               \/ \E x, y \in U : s = <<x, y>>
               \/ s = <<>> /\ kind \in {"message", "gmessage"}
    <3>1. \/ s \in {<<"UEXECUTE">>, <<"URETURN">>, <<"UWAIT">>, <<"UCHAT">>, <<"USAT">>}
          \/ s = <<"UEXECUTE", "UEXECUTE">> \/ s = <<"UWAIT", "URETURN">>
          \/ s = <<>> /\ kind \in {"message", "gmessage"}
      BY <1>1, <1>7 DEF AnswerOf, UiKinds
    <3>2. QED
      BY <3>1
  <2>2. \A x \in U : x # "info" /\ WordOf(x) = "ui"
    BY DEF WordOf
  <2> HIDE DEF U
  <2>3. ASSUME NEW s \in e.left, NEW i \in 1 .. Len(s)
        PROVE  s[i] # "info" /\ WordOf(s[i]) = "ui"
    <3>1. ASSUME NEW x \in U, s = <<x>> PROVE s[i] = x
      BY <1>2, <3>1
    <3>2. ASSUME NEW x \in U, NEW y \in U, s = <<x, y>> PROVE s[i] \in {x, y}
      <4>1. Len(s) = 2 /\ s[1] = x /\ s[2] = y
        BY <1>3, <3>2
      <4>2. i = 1 \/ i = 2
        BY <4>1
      <4>3. QED
        BY <4>1, <4>2
    <3>3. s # <<>>
      OBVIOUS
    <3>4. QED
      BY <2>1, <2>2, <3>1, <3>2, <3>3
  <2>4. e.who = "ui"
    BY <1>7 DEF LogonKinds, UiKinds
  <2>5. ~Elsewhere(e)
    <3>1. <<"EXECUTE">> \notin e.left
      <4>1. Len(<<"EXECUTE">>) = 1 /\ <<"EXECUTE">>[1] = "EXECUTE" /\ WordOf("EXECUTE") = "logon"
        BY <1>2 DEF WordOf
      <4>2. 1 \in 1 .. 1
        OBVIOUS
      <4>3. QED
        BY <2>3, <4>1, <4>2
    <3>2. QED
      BY <2>4, <3>1 DEF Elsewhere
  <2>6. <<>> \in e.left => kind \in {"message", "gmessage"}
    BY <1>2, <1>3, <2>1
  <2>7. QED
    BY <1>7, <2>3, <2>4, <2>5, <2>6 DEF Concerns, UiKinds
<1>8. QED
  BY <1>4, <1>5, <1>6, <1>7

-----------------------------------------------------------------------------
(* What is handled.                                                         *)

\* The m-th request after part i of answer s to request k is handled: of the
\* k-th, what is left of the answer, or the request for a code.
From(q, m, k, s, i) ==
    /\ m # k => q = inflight[m]
    /\ m = k => /\ q.who = inflight[k].who /\ q.own = inflight[k].own
                /\ \/ RemoveAt(s, i) # <<>> /\ q.left = {RemoveAt(s, i)}
                   \/ s[i] = "email" /\ q.left = Answers["verify"]

\* Requests R come one by one from those under way; of these only the k-th may
\* be gone.
Handled(R, k, s, i) ==
    /\ \A j \in 1 .. Len(R) : \E m \in 1 .. Len(inflight) : From(R[j], m, k, s, i)
    /\ \A j, l \in 1 .. Len(R) : j # l =>
          \E m, n \in 1 .. Len(inflight) :
             m # n /\ From(R[j], m, k, s, i) /\ From(R[l], n, k, s, i)
    /\ \A m \in 1 .. Len(inflight) : m # k => \E j \in 1 .. Len(R) : R[j] = inflight[m]
    /\ RemoveAt(s, i) # <<>> => \E j \in 1 .. Len(R) : From(R[j], k, k, s, i)

\* A request taken out, for good.
LEMMA TakenOut ==
    ASSUME inflight \in Seq(Entry), NEW k \in 1 .. Len(inflight),
           NEW R, R = RemoveAt(inflight, k)
    PROVE  /\ R \in Seq(Entry)
           /\ \A j \in 1 .. Len(R) : \E m \in 1 .. Len(inflight) : m # k /\ R[j] = inflight[m]
           /\ \A j, l \in 1 .. Len(R) : j # l =>
                 \E m, n \in 1 .. Len(inflight) :
                    m # n /\ m # k /\ n # k /\ R[j] = inflight[m] /\ R[l] = inflight[n]
           /\ \A m \in 1 .. Len(inflight) : m # k => \E j \in 1 .. Len(R) : R[j] = inflight[m]
<1>1. /\ R \in Seq(Entry) /\ Len(R) = Len(inflight) - 1
      /\ \A j \in 1 .. Len(inflight) - 1 : /\ j < k => R[j] = inflight[j]
                                           /\ j >= k => R[j] = inflight[j + 1]
  BY RemoveAtIs
<1> DEFINE was(j) == IF j < k THEN j ELSE j + 1
<1>2. ASSUME NEW j \in 1 .. Len(R)
      PROVE  was(j) \in 1 .. Len(inflight) /\ was(j) # k /\ R[j] = inflight[was(j)]
  <2>1. CASE j < k
    BY <1>1, <2>1
  <2>2. CASE j >= k
    BY <1>1, <2>2
  <2>3. QED
    BY <2>1, <2>2
<1>3. \A j, l \in 1 .. Len(R) : j # l => was(j) # was(l)
  BY <1>1
<1>4. ASSUME NEW m \in 1 .. Len(inflight), m # k
      PROVE  \E j \in 1 .. Len(R) : R[j] = inflight[m]
  <2>1. CASE m < k
    <3>1. m \in 1 .. Len(R) /\ R[m] = inflight[m]
      BY <1>1, <2>1
    <3>2. QED
      BY <3>1
  <2>2. CASE m > k
    <3>1. m - 1 \in 1 .. Len(R) /\ m - 1 >= k /\ m - 1 + 1 = m
      BY <1>1, <2>2
    <3>2. R[m - 1] = inflight[m]
      BY <1>1, <3>1
    <3>3. QED
      BY <3>1, <3>2
  <2>3. QED
    BY <1>4, <2>1, <2>2
<1> HIDE DEF was
<1>5. ASSUME NEW j \in 1 .. Len(R), NEW l \in 1 .. Len(R), j # l
      PROVE  \E m, n \in 1 .. Len(inflight) :
                m # n /\ m # k /\ n # k /\ R[j] = inflight[m] /\ R[l] = inflight[n]
  BY <1>2, <1>3, <1>5
<1>6. ASSUME NEW j \in 1 .. Len(R)
      PROVE  \E m \in 1 .. Len(inflight) : m # k /\ R[j] = inflight[m]
  BY <1>2
<1>7. QED
  BY <1>1, <1>4, <1>5, <1>6

\* What recviveMeg leaves.
LEMMA HandledThen ==
    ASSUME inflight \in Seq(Entry), NEW k \in 1 .. Len(inflight),
           NEW s \in inflight[k].left, NEW i \in 1 .. Len(s), recviveMeg(k, s, i)
    PROVE  Handled(inflight', k, s, i)
<1> DEFINE rest == RemoveAt(s, i)
           e == [inflight[k] EXCEPT !.left = {rest}]
           v == [inflight[k] EXCEPT !.left = Answers["verify"]]
           left == IF rest = <<>> THEN RemoveAt(inflight, k)
                   ELSE [inflight EXCEPT ![k] = e]
           F(q, m) == From(q, m, k, s, i)
<1>1. inflight[k] \in Entry /\ s \in Parts
  <2>1. inflight[k] \in Entry
    OBVIOUS
  <2>2. QED
    BY <2>1 DEF Entry
<1>2. rest \in Parts /\ (s[i] = "email" => rest = <<>>)
  BY <1>1, RestIsAnswer
<1>3. e \in Entry /\ e.left = {rest} /\ e.who = inflight[k].who /\ e.own = inflight[k].own
  BY <1>1, <1>2 DEF Entry
<1>4. /\ v \in Entry /\ v.left = Answers["verify"]
      /\ v.who = inflight[k].who /\ v.own = inflight[k].own
  <2>1. Answers["verify"] \in SUBSET Parts
    BY AnswersTo DEF LogonKinds
  <2>2. QED
    BY <1>1, <2>1 DEF Entry
<1>5. inflight' = (IF s[i] = "email" /\ Up THEN Append(left, v) ELSE left)
  BY DEF recviveMeg
<1>6. /\ rest # <<>> => F(e, k)
      /\ s[i] = "email" => F(v, k)
      /\ \A m \in 1 .. Len(inflight) : m # k => F(inflight[m], m)
  BY <1>3, <1>4 DEF From
<1> HIDE DEF e, v, F
<1>7. CASE rest # <<>>
  <2>1. inflight' = [inflight EXCEPT ![k] = e]
    BY <1>2, <1>5, <1>7
  <2>2. /\ Len(inflight') = Len(inflight) /\ inflight'[k] = e
        /\ \A j \in 1 .. Len(inflight) : j # k => inflight'[j] = inflight[j]
    BY <1>3, <2>1, Replaced
  <2>3. \A j \in 1 .. Len(inflight) : F(inflight'[j], j)
    BY <1>6, <1>7, <2>2
  <2>4. QED
    BY <2>2, <2>3 DEF Handled, F
<1>8. CASE rest = <<>>
  <2> DEFINE R == RemoveAt(inflight, k)
  <2>1. /\ R \in Seq(Entry)
        /\ \A j \in 1 .. Len(R) : \E m \in 1 .. Len(inflight) : m # k /\ R[j] = inflight[m]
        /\ \A j, l \in 1 .. Len(R) : j # l =>
              \E m, n \in 1 .. Len(inflight) :
                 m # n /\ m # k /\ n # k /\ R[j] = inflight[m] /\ R[l] = inflight[n]
        /\ \A m \in 1 .. Len(inflight) : m # k => \E j \in 1 .. Len(R) : R[j] = inflight[m]
    BY TakenOut
  <2>2. \/ inflight' = R
        \/ s[i] = "email" /\ inflight' = Append(R, v)
    BY <1>5, <1>8
  <2> HIDE DEF R
  <2>3. \A j \in 1 .. Len(R) : \E m \in 1 .. Len(inflight) : m # k /\ F(R[j], m)
    BY <1>6, <2>1
  <2>4. ASSUME NEW j \in 1 .. Len(R), NEW l \in 1 .. Len(R), j # l
        PROVE  \E m, n \in 1 .. Len(inflight) : m # n /\ F(R[j], m) /\ F(R[l], n)
    <3>1. PICK m \in 1 .. Len(inflight), n \in 1 .. Len(inflight) :
              m # n /\ m # k /\ n # k /\ R[j] = inflight[m] /\ R[l] = inflight[n]
      BY <2>1, <2>4
    <3>2. F(R[j], m) /\ F(R[l], n)
      BY <1>6, <3>1
    <3>3. QED
      BY <3>1, <3>2
  <2>5. CASE inflight' = R
    BY <1>8, <2>1, <2>3, <2>4, <2>5 DEF Handled, F
  <2>6. CASE s[i] = "email" /\ inflight' = Append(R, v)
    <3>1. /\ Len(inflight') = Len(R) + 1 /\ inflight'[Len(R) + 1] = v
          /\ \A j \in 1 .. Len(R) : inflight'[j] = R[j] /\ j \in 1 .. Len(inflight')
      BY <1>4, <2>1, <2>6
    <3>2. \A j \in 1 .. Len(inflight') : j \in 1 .. Len(R) \/ j = Len(R) + 1
      BY <2>1, <3>1
    <3>3. F(v, k)
      BY <1>6, <2>6
    <3>4. ASSUME NEW j \in 1 .. Len(inflight')
          PROVE  \E m \in 1 .. Len(inflight) : F(inflight'[j], m) /\ (m = k <=> j = Len(R) + 1)
      <4>1. CASE j \in 1 .. Len(R)
        <5>1. j # Len(R) + 1
          BY <2>1, <4>1
        <5>2. QED
          BY <2>3, <3>1, <4>1, <5>1
      <4>2. CASE j = Len(R) + 1
        BY <3>1, <3>3, <4>2
      <4>3. QED
        BY <3>2, <4>1, <4>2
    <3>5. ASSUME NEW j \in 1 .. Len(inflight'), NEW l \in 1 .. Len(inflight'), j # l
          PROVE  \E m, n \in 1 .. Len(inflight) :
                    m # n /\ F(inflight'[j], m) /\ F(inflight'[l], n)
      <4>1. CASE j \in 1 .. Len(R) /\ l \in 1 .. Len(R)
        BY <2>4, <3>1, <3>5, <4>1
      <4>2. CASE j = Len(R) + 1 \/ l = Len(R) + 1
        BY <3>4, <3>5, <4>2
      <4>3. QED
        BY <3>2, <4>1, <4>2
    <3>6. \A m \in 1 .. Len(inflight) : m # k =>
              \E j \in 1 .. Len(inflight') : inflight'[j] = inflight[m]
      BY <2>1, <3>1
    <3>7. QED
      BY <1>8, <3>4, <3>5, <3>6 DEF Handled, F
  <2>7. QED
    BY <2>2, <2>5, <2>6
<1>9. QED
  BY <1>7, <1>8

\* What is left of an answer was part of it.
LEMMA RestItems ==
    ASSUME NEW s \in Parts, NEW i \in 1 .. Len(s), NEW j \in 1 .. Len(RemoveAt(s, i))
    PROVE  \E m \in 1 .. Len(s) : RemoveAt(s, i)[j] = s[m]
<1> DEFINE rest == RemoveAt(s, i)
<1>1. s \in Seq(Items)
  BY DEF Parts
<1>2. /\ rest \in Seq(Items) /\ Len(rest) = Len(s) - 1
      /\ \A l \in 1 .. Len(s) - 1 : /\ l < i => rest[l] = s[l]
                                    /\ l >= i => rest[l] = s[l + 1]
  BY <1>1, RemoveAtIs
<1>3. j \in 1 .. Len(rest)
  OBVIOUS
<1> HIDE DEF rest
<1>4. CASE j < i
  BY <1>1, <1>2, <1>3, <1>4 DEF rest
<1>5. CASE j >= i
  BY <1>1, <1>2, <1>3, <1>5 DEF rest
<1>6. QED
  BY <1>2, <1>3, <1>4, <1>5

\* Of an answer for the thread that asked, what is left is for it too.
LEMMA RestConcerns ==
    ASSUME NEW d \in Entry, NEW s \in d.left, NEW i \in 1 .. Len(s),
           \A a \in d.left : \A j \in 1 .. Len(a) : a[j] # "info" /\ WordOf(a[j]) = d.who,
           NEW e, e.left = {RemoveAt(s, i)}, e.who = d.who
    PROVE  /\ \A j \in 1 .. Len(RemoveAt(s, i)) :
                 RemoveAt(s, i)[j] # "info" /\ WordOf(RemoveAt(s, i)[j]) = d.who
           /\ ~Elsewhere(e) /\ Concerns(e)
<1> DEFINE rest == RemoveAt(s, i)
<1>1. s \in Parts
  BY DEF Entry
<1>2. \A j \in 1 .. Len(rest) : \E m \in 1 .. Len(s) : rest[j] = s[m]
  BY <1>1, RestItems
<1>3. e.left = {rest}
  OBVIOUS
<1> HIDE DEF rest
<1>4. \A j \in 1 .. Len(rest) : rest[j] # "info" /\ WordOf(rest[j]) = d.who
  BY <1>2
<1>5. ~Elsewhere(e)
  <2> DEFINE x == IF e.who = "ui" THEN "EXECUTE" ELSE "UEXECUTE"
  <2>1. WordOf(x) # e.who
    BY DEF WordOf
  <2>2. Len(<<x>>) = 1 /\ <<x>>[1] = x /\ 1 \in 1 .. 1
    OBVIOUS
  <2> HIDE DEF x
  <2>3. rest # <<x>>
    BY <1>4, <2>1, <2>2
  <2>4. QED
    BY <1>3, <2>3 DEF Elsewhere, x
<1>6. QED
  BY <1>3, <1>4, <1>5 DEF rest, Concerns

\* Nothing that t waits for is left of the request handled.
LEMMA HandledOther ==
    ASSUME NEW t, NEW R, NEW k \in 1 .. Len(inflight), NEW s, NEW i, Handled(R, k, s, i),
           \A e : From(e, k, k, s, i) => ~Own(e, t)
    PROVE  SomeOf(t, inflight, R) /\ (~Own(inflight[k], t) => Alike(t, inflight, R))
<1>1. ASSUME NEW j \in 1 .. Len(R), Own(R[j], t), NEW m \in 1 .. Len(inflight),
             From(R[j], m, k, s, i)
      PROVE  m # k /\ R[j] = inflight[m]
  BY <1>1 DEF From
<1>2. ASSUME NEW j \in 1 .. Len(R), Own(R[j], t)
      PROVE  \E m \in 1 .. Len(inflight) : Own(inflight[m], t) /\ inflight[m].left = R[j].left
  <2>1. PICK m \in 1 .. Len(inflight) : From(R[j], m, k, s, i)
    BY DEF Handled
  <2>2. QED
    BY <1>1, <1>2, <2>1
<1>3. ASSUME NEW j \in 1 .. Len(R), NEW l \in 1 .. Len(R), j # l, Own(R[j], t), Own(R[l], t)
      PROVE  \E m, n \in 1 .. Len(inflight) :
                /\ m # n /\ Own(inflight[m], t) /\ Own(inflight[n], t)
                /\ inflight[m].left = R[j].left /\ inflight[n].left = R[l].left
  <2>1. PICK m \in 1 .. Len(inflight), n \in 1 .. Len(inflight) :
            m # n /\ From(R[j], m, k, s, i) /\ From(R[l], n, k, s, i)
    BY <1>3 DEF Handled
  <2>2. R[j] = inflight[m] /\ R[l] = inflight[n]
    BY <1>1, <1>3, <2>1
  <2>3. QED
    BY <1>3, <2>1, <2>2
<1>4. ASSUME NEW m \in 1 .. Len(inflight), Own(inflight[m], t), m # k
      PROVE  \E j \in 1 .. Len(R) : Own(R[j], t) /\ R[j].left = inflight[m].left
  BY <1>4 DEF Handled
<1>5. SomeOf(t, inflight, R)
  BY <1>2, <1>3 DEF SomeOf
<1>6. QED
  BY <1>4, <1>5 DEF Alike

\* What the other thread's request brings is there unless it was the k-th.
LEMMA HandledBrings ==
    ASSUME NEW t, NEW R, NEW k \in 1 .. Len(inflight), NEW s, NEW i, Handled(R, k, s, i),
           NEW m \in 1 .. Len(inflight), m # k, inflight[m].who # t, Elsewhere(inflight[m])
    PROVE  \E j \in 1 .. Len(R) : R[j].who # t /\ Elsewhere(R[j])
BY DEF Handled

\* The first part of an answer that suits the place, handled in its turn: the
\* thread goes on with it.
LEMMA OwnPartSuits ==
    ASSUME NEW t, NEW S, NEW w, NEW n, NEW p, NEW R, NEW k \in 1 .. Len(inflight),
           inflight[k] \in Entry, NEW s \in inflight[k].left, NEW i \in 1 .. Len(s),
           Handled(R, k, s, i), Concerns(inflight[k]),
           Own(inflight[k], t), Fits(inflight[k], S), ~LoginLeft(inflight[k]),
           Served(t, S, w, n, p, inflight), S \notin Strict,
           ~(s[i] = "UWAIT" /\ S = "leaveGroup")
    PROVE  /\ Served(t, S, Stored(s[i]), n, Keep, R)
           /\ Stored(s[i]) \in Goes(S)
<1> DEFINE rest == RemoveAt(s, i)
<1>1. /\ \A a \in inflight[k].left : \A j \in 1 .. Len(a) :
            a[j] # "info" /\ WordOf(a[j]) = inflight[k].who
      /\ s \in Parts /\ Suits(S, s) /\ inflight[k].who = t
  BY DEF Concerns, Fits, Entry, Own
<1>2. \A j \in 1 .. Len(s) : IF s[j] = "email" THEN {"EXECUTE", "RETURNS"} \subseteq Goes(S)
                             ELSE s[j] \in Goes(S) \/ (S = "leaveGroup" /\ s[j] = "UWAIT")
  BY <1>1 DEF Suits
<1>3. Stored(s[i]) \in Goes(S)
  <2>1. CASE s[i] = "email"
    BY <1>2, <2>1 DEF Stored
  <2>2. CASE s[i] # "email"
    BY <1>2, <2>2 DEF Stored
  <2>3. QED
    BY <2>1, <2>2
<1>4. ASSUME NEW e, Own(e, t), From(e, k, k, s, i) PROVE Fits(e, S)
  <2>1. CASE rest # <<>> /\ e.left = {rest}
    <3>1. ~Elsewhere(e)
      BY <1>1, <1>4, <2>1, RestConcerns DEF Own
    <3>2. \A j \in 1 .. Len(rest) : \E m \in 1 .. Len(s) : rest[j] = s[m]
      BY <1>1, RestItems
    <3> HIDE DEF rest
    <3>3. Suits(S, rest)
      BY <1>2, <3>2 DEF Suits
    <3>4. QED
      BY <2>1, <3>1, <3>3 DEF Fits
  <2>2. CASE s[i] = "email" /\ e.left = Answers["verify"]
    <3>1. {"EXECUTE", "RETURNS"} \subseteq Goes(S)
      BY <1>2, <2>2
    <3>2. KindSuits("verify", S)
      BY <3>1, KindsSuit
    <3>3. t = "logon"
      BY <1>1, <2>2 DEF WordOf
    <3>4. ~Elsewhere(e)
      BY <1>4, <2>2, <3>3, KindConcerns DEF Own, LogonKinds
    <3>5. QED
      BY <2>2, <3>2, <3>4 DEF KindSuits, Fits
  <2>3. QED
    BY <1>4, <2>1, <2>2 DEF From
<1> HIDE DEF rest
<1>5. OwnSuits(t, S, R)
  <2> SUFFICES ASSUME NEW j \in 1 .. Len(R), Own(R[j], t)
               PROVE  Elsewhere(R[j]) \/ Login(R[j], S) \/ Fits(R[j], S)
    BY DEF OwnSuits
  <2>1. PICK m \in 1 .. Len(inflight) : From(R[j], m, k, s, i)
    BY DEF Handled
  <2>2. CASE m = k
    BY <1>4, <2>1, <2>2
  <2>3. CASE m # k
    BY <2>1, <2>3 DEF From, Served, OwnSuits
  <2>4. QED
    BY <2>2, <2>3
<1>6. NoneIsEnough(t, S, Stored(s[i]), Keep, R)
  BY <1>3 DEF NoneIsEnough, Will
<1>7. OneAtStrict(t, S, Stored(s[i]), n, Keep, R)
  BY DEF OneAtStrict
<1>8. QED
  BY <1>3, <1>5, <1>6, <1>7 DEF Served

\* At a strict place: the last part of the answer it waits for, or the one
\* before.
LEMMA OwnPartStrict ==
    ASSUME NEW t, NEW S, NEW w, NEW n, NEW p, NEW R, NEW k \in 1 .. Len(inflight),
           inflight[k] \in Entry, NEW s \in inflight[k].left, NEW i \in 1 .. Len(s), i = 1,
           Handled(R, k, s, i), Concerns(inflight[k]),
           Own(inflight[k], t), Fits(inflight[k], S), ~LoginLeft(inflight[k]),
           Served(t, S, w, n, p, inflight), S \in Strict,
           GoesOn(t, S, w, n, p, inflight)
    PROVE  /\ Served(t, S, Stored(s[i]), n, Keep, R)
           /\ GoesOn(t, S, Stored(s[i]), n, Keep, R)
<1> DEFINE rest == RemoveAt(s, i)
<1>1. /\ \A a \in inflight[k].left : \A j \in 1 .. Len(a) :
            a[j] # "info" /\ WordOf(a[j]) = inflight[k].who
      /\ s \in Parts /\ Suits(S, s) /\ inflight[k].who = t
  BY DEF Concerns, Fits, Entry, Own
<1>2. /\ Will(w, p) \notin Goes(S) /\ n = "none"
      /\ \A j \in 1 .. Len(inflight) : Own(inflight[j], t) /\ Fits(inflight[j], S) => j = k
  BY DEF Served, OneAtStrict
<1>3. S \in Asks
  BY <1>2 DEF GoesOn, Strict, LogonWaits
<1>4. PICK y \in Goes(S) : s = <<y>> \/ \E x \in Words \ Goes(S) : s = <<x, y>>
  BY <1>1 DEF Suits
<1>5. y \in Words /\ Stored(y) = y /\ y # "email"
  BY GoesAreWords DEF Stored, Words
<1>6. ASSUME NEW j \in 1 .. Len(R), Own(R[j], t), Fits(R[j], S),
             NEW m \in 1 .. Len(inflight), From(R[j], m, k, s, i)
      PROVE  m = k
  <2>1. CASE m # k
    <3>1. R[j] = inflight[m]
      BY <1>6, <2>1 DEF From
    <3>2. QED
      BY <1>2, <1>6, <3>1
  <2>2. QED
    BY <2>1
<1>7. ASSUME NEW j \in 1 .. Len(R), NEW l \in 1 .. Len(R), j # l,
             Own(R[j], t), Fits(R[j], S), Own(R[l], t), Fits(R[l], S)
      PROVE  FALSE
  <2>1. PICK m \in 1 .. Len(inflight), q \in 1 .. Len(inflight) :
            m # q /\ From(R[j], m, k, s, i) /\ From(R[l], q, k, s, i)
    BY <1>7 DEF Handled
  <2>2. m = k /\ q = k
    BY <1>6, <1>7, <2>1
  <2>3. QED
    BY <2>1, <2>2
<1>8. ASSUME \A e : Own(e, t) /\ From(e, k, k, s, i) => Fits(e, S)
      PROVE  OwnSuits(t, S, R)
  <2> SUFFICES ASSUME NEW j \in 1 .. Len(R), Own(R[j], t)
               PROVE  Elsewhere(R[j]) \/ Login(R[j], S) \/ Fits(R[j], S)
    BY DEF OwnSuits
  <2>1. PICK m \in 1 .. Len(inflight) : From(R[j], m, k, s, i)
    BY DEF Handled
  <2>2. CASE m = k
    BY <1>8, <2>1, <2>2
  <2>3. CASE m # k
    BY <2>1, <2>3 DEF From, Served, OwnSuits
  <2>4. QED
    BY <2>2, <2>3
<1>9. CASE s = <<y>>
  <2>1. s[i] = y /\ Len(s) = 1 /\ s \in Seq(Items)
    BY <1>1, <1>9 DEF Parts
  <2>2. rest = <<>>
    <3>1. s \in Seq(Items) /\ i \in 1 .. Len(s)
      BY <2>1
    <3>2. rest \in Seq(Items) /\ Len(rest) = Len(s) - 1
      BY <3>1, RemoveAtIs
    <3> HIDE DEF rest
    <3>3. QED
      BY <2>1, <3>2, RestOfShort
  <2>3. \A e : ~From(e, k, k, s, i)
    BY <1>5, <2>1, <2>2 DEF From
  <2>4. \A j \in 1 .. Len(R) : ~(Own(R[j], t) /\ Fits(R[j], S))
    BY <1>6, <2>3 DEF Handled
  <2>5. OwnSuits(t, S, R)
    BY <1>8, <2>3
  <2>6. NoneIsEnough(t, S, y, Keep, R) /\ OneAtStrict(t, S, y, n, Keep, R)
    BY <2>4 DEF NoneIsEnough, OneAtStrict
  <2>7. GoesOn(t, S, y, n, Keep, R)
    BY DEF GoesOn, Will
  <2>8. QED
    BY <1>5, <2>1, <2>5, <2>6, <2>7 DEF Served
<1>10. ASSUME NEW x \in Words \ Goes(S), s = <<x, y>>
       PROVE  Served(t, S, Stored(s[i]), n, Keep, R) /\ GoesOn(t, S, Stored(s[i]), n, Keep, R)
  <2>1. s[i] = x /\ Stored(x) = x /\ x # "email"
    BY <1>10 DEF Stored, Words
  <2>2. rest = <<y>>
    BY <1>5, <1>10, RestOfShort
  <2>3. <<y>> # <<>> /\ Suits(S, <<y>>)
    BY DEF Suits
  <2>4. ASSUME NEW e, e.who = t, From(e, k, k, s, i) PROVE Fits(e, S) /\ e.left = {<<y>>}
    <3>1. e.left = {rest}
      BY <2>1, <2>4 DEF From
    <3>2. ~Elsewhere(e)
      BY <1>1, <2>4, <3>1, RestConcerns
    <3>3. e.left = {<<y>>}
      BY <2>2, <3>1
    <3> HIDE DEF rest
    <3>4. QED
      BY <2>3, <3>2, <3>3, Zenon DEF Fits
  <2>5. OwnSuits(t, S, R)
    BY <1>8, <2>4 DEF Own
  <2>6. NoneIsEnough(t, S, x, Keep, R)
    <3> SUFFICES ASSUME NEW j \in 1 .. Len(R), Own(R[j], t), Fits(R[j], S)
                 PROVE  <<>> \notin R[j].left
      BY DEF NoneIsEnough
    <3>1. PICK m \in 1 .. Len(inflight) : From(R[j], m, k, s, i)
      BY DEF Handled
    <3>2. m = k
      BY <1>6, <3>1
    <3>3. R[j].left = {<<y>>}
      BY <2>4, <3>1, <3>2 DEF Own
    <3>4. QED
      BY <2>3, <3>3
  <2>7. OneAtStrict(t, S, x, n, Keep, R)
    BY <1>2, <1>7 DEF OneAtStrict, Will, Keep, Words
  <2>8. GoesOn(t, S, x, n, Keep, R)
    <3>1. PICK j \in 1 .. Len(R) : From(R[j], k, k, s, i)
      BY <2>2, <2>3 DEF Handled
    <3>2. Own(R[j], t)
      BY <3>1 DEF From, Own
    <3>3. Fits(R[j], S)
      BY <2>4, <3>1, <3>2 DEF Own
    <3>4. QED
      BY <1>2, <1>3, <3>2, <3>3 DEF GoesOn
  <2>9. QED
    BY <2>1, <2>5, <2>6, <2>7, <2>8 DEF Served
<1>11. QED
  BY <1>4, <1>9, <1>10

\* Handling one part leaves nothing of an answer of one part.
LEMMA NothingLeft ==
    ASSUME NEW x \in Items, NEW s, s = <<x>>, NEW i \in 1 .. Len(s)
    PROVE  RemoveAt(s, i) = <<>> /\ i = 1 /\ s[i] = x
<1>1. s \in Seq(Items) /\ Len(s) = 1 /\ s[1] = x
  BY ShortTuples
<1>2. i = 1 /\ i \in 1 .. Len(s)
  BY <1>1
<1>3. RemoveAt(s, i) \in Seq(Items) /\ Len(RemoveAt(s, i)) = Len(s) - 1
  BY <1>1, <1>2, RemoveAtIs
<1>4. QED
  BY <1>1, <1>2, <1>3, RestOfShort

\* A part of the answer the thread waits for is handled.
LEMMA PartOwn ==
    ASSUME LogonInv, Shape, NEW t \in Threads, NEW k \in 1 .. Len(inflight),
           NEW s \in inflight[k].left, NEW i \in 1 .. Len(s), recviveMeg(k, s, i),
           s[i] # "info", t \notin disturbed', Own(inflight[k], t),
           ServedOne(t, scr[t], scr["ui"], word[t], seen[t], post[t], inflight)
    PROVE  ServedOne(t, scr[t], scr["ui"], word'[t], seen[t], post[t], inflight')
<1> DEFINE S == scr[t]
           r == inflight[k]
           rest == RemoveAt(s, i)
<1>1. /\ inflight \in Seq(Entry) /\ r \in Entry /\ s \in Parts /\ Concerns(r)
      /\ Asked(inflight) /\ word \in [Threads -> Words]
      /\ S \in LogonPlaces \cup UiPlaces
      /\ t = "logon" => S \in LogonPlaces
      /\ t = "ui" => S \in UiPlaces
  <2>1. inflight \in Seq(Entry) /\ Asked(inflight) /\ word \in [Threads -> Words]
        /\ S \in LogonPlaces \cup UiPlaces
        /\ (t = "logon" => S \in LogonPlaces) /\ (t = "ui" => S \in UiPlaces)
    BY DEF LogonInv, LogonTypes, Threads
  <2>2. r \in Entry
    BY <2>1
  <2>3. QED
    BY <2>1, <2>2 DEF Shape, Entry
<1>2. Handled(inflight', k, s, i)
  BY <1>1, HandledThen
<1>3. /\ word' = [word EXCEPT ![WordOf(s[i])] = Stored(s[i])]
      /\ WordOf(s[i]) = t => ~Disturbs(r, s, i)
      /\ t \notin disturbed
  BY DEF recviveMeg
<1>4. /\ WordOf(s[i]) = t => word'[t] = Stored(s[i])
      /\ WordOf(s[i]) # t => word'[t] = word[t]
  BY <1>1, <1>3
<1>5. r.who = t /\ r.own
  BY DEF Own
<1>6. CASE Elsewhere(r)
  <2>1. PICK x \in {"EXECUTE", "UEXECUTE"} : s = <<x>> /\ WordOf(x) # t
    BY <1>5, <1>6 DEF Elsewhere, WordOf
  <2>2. rest = <<>> /\ s[i] = x
    BY <2>1, NothingLeft DEF Items, Words
  <2>3. \A e : ~From(e, k, k, s, i)
    BY <2>1, <2>2 DEF From
  <2>4. SomeOf(t, inflight, inflight')
    BY <1>2, <2>3, HandledOther
  <2>5. Served(t, S, word[t], seen[t], post[t], inflight')
    BY <2>4, ServedAlike DEF ServedOne
  <2>6. ASSUME GoesOn(t, S, word[t], seen[t], post[t], inflight)
        PROVE  GoesOn(t, S, word[t], seen[t], post[t], inflight')
    <3>1. ASSUME NEW m \in 1 .. Len(inflight), Own(inflight[m], t),
                 Login(inflight[m], S) \/ Fits(inflight[m], S)
          PROVE  \E j \in 1 .. Len(inflight') : inflight'[j] = inflight[m]
      <4>1. ~Login(r, S) /\ ~Fits(r, S)
        <5>1. <<"UEXECUTE">> # <<"info">> /\ <<"UEXECUTE">> # <<"EXECUTE">>
              /\ <<"EXECUTE">> # <<"info">> /\ <<"UEXECUTE", "info">> # <<"EXECUTE">>
          OBVIOUS
        <5>2. ~LoginLeft(r)
          BY <1>6, <5>1 DEF Elsewhere, LoginLeft
        <5>3. QED
          BY <1>6, <5>2 DEF Login, Fits
      <4>2. m # k
        BY <3>1, <4>1
      <4>3. QED
        BY <1>2, <4>2 DEF Handled
    <3>2. \A m \in 1 .. Len(inflight) : inflight[m].who # t /\ Elsewhere(inflight[m]) =>
              \E j \in 1 .. Len(inflight') : inflight'[j].who # t /\ Elsewhere(inflight'[j])
      BY <1>2, <1>5, HandledBrings
    <3> HIDE DEF S
    <3>3. QED
      BY <2>6, <3>1, <3>2 DEF GoesOn
  <2>7. t = "ui" => Begins(S, word[t], inflight')
    <3>1. ASSUME t = "ui", NEW m \in 1 .. Len(inflight), inflight[m].who # "ui",
                 Elsewhere(inflight[m])
          PROVE  \E j \in 1 .. Len(inflight') :
                    inflight'[j].who # "ui" /\ Elsewhere(inflight'[j])
      BY <1>2, <1>5, <3>1, HandledBrings
    <3>2. ASSUME NEW j \in 1 .. Len(inflight'), inflight'[j].left = {<<"info">>}
          PROVE  \E m \in 1 .. Len(inflight) : inflight[m].left = {<<"info">>}
      <4>1. PICK m \in 1 .. Len(inflight) : From(inflight'[j], m, k, s, i)
        BY <1>2 DEF Handled
      <4>2. m # k
        BY <2>3, <4>1
      <4>3. inflight'[j] = inflight[m]
        BY <4>1, <4>2 DEF From
      <4>4. QED
        BY <3>2, <4>3
    <3>3. QED
      BY <3>1, <3>2 DEF ServedOne, Begins
  <2>8. QED
    BY <1>4, <2>1, <2>2, <2>5, <2>6, <2>7 DEF ServedOne
<1>7. CASE LoginLeft(r)
  <2>1. t = "logon"
    <3>1. ~NoInfo(r)
      <4>1. Len(<<"info">>) = 1 /\ <<"info">>[1] = "info"
            /\ Len(<<"UEXECUTE", "info">>) = 2 /\ <<"UEXECUTE", "info">>[2] = "info"
        OBVIOUS
      <4>2. 1 \in 1 .. 1 /\ 2 \in 1 .. 2
        OBVIOUS
      <4>3. <<"info">> \in r.left \/ <<"UEXECUTE", "info">> \in r.left
        BY <1>7 DEF LoginLeft
      <4>4. QED
        BY <4>1, <4>2, <4>3 DEF NoInfo
    <3>2. QED
      BY <1>1, <1>5, <3>1 DEF Asked
  <2>2. S \in LogonWaits /\ S \notin Strict /\ S \in Asks /\ Goes(S) = {"EXECUTE"}
    <3>1. \A a \in r.left : a \in {<<"UEXECUTE", "info">>, <<"EXECUTE">>, <<"info">>}
      BY <1>7 DEF LoginLeft
    <3>2. ~Fits(r, S)
      <4>1. "info" \notin Goes(S)
        BY GoesAreWords DEF Words
      <4>2. S \notin Strict
        BY <1>1, <2>1 DEF LogonPlaces, LogonForms, LogonWaits, Strict
      <4>3. Len(<<"info">>) = 1 /\ <<"info">>[1] = "info"
            /\ Len(<<"UEXECUTE", "info">>) = 2 /\ <<"UEXECUTE", "info">>[2] = "info"
        OBVIOUS
      <4>4. 1 \in 1 .. 1 /\ 2 \in 1 .. 2
        OBVIOUS
      <4>5. ~Suits(S, <<"info">>) /\ ~Suits(S, <<"UEXECUTE", "info">>)
        BY <4>1, <4>2, <4>3, <4>4 DEF Suits
      <4>6. <<"info">> \in r.left \/ <<"UEXECUTE", "info">> \in r.left
        BY <1>7 DEF LoginLeft
      <4>7. QED
        BY <4>5, <4>6 DEF Fits
    <3>3. ~Elsewhere(r)
      <4>1. <<"UEXECUTE">> # <<"info">> /\ <<"UEXECUTE">> # <<"EXECUTE">>
            /\ <<"UEXECUTE">> # <<"UEXECUTE", "info">>
        OBVIOUS
      <4>2. <<"UEXECUTE">> \notin r.left
        BY <1>7, <4>1 DEF LoginLeft
      <4>3. QED
        BY <1>5, <2>1, <4>2 DEF Elsewhere
    <3>4. S \in LogonWaits
      BY <3>2, <3>3 DEF ServedOne, Served, OwnSuits, Login
    <3>5. QED
      BY <3>4, GoesOf DEF Strict, Asks, LogonWaits
  <2>3. CASE s[i] = "EXECUTE" /\ rest = <<>>
    <3>1. \A e : ~From(e, k, k, s, i)
      BY <2>3 DEF From
    <3>2. Served(t, S, word[t], seen[t], post[t], inflight')
      BY <1>2, <3>1, HandledOther, ServedAlike DEF ServedOne
    <3>3. word'[t] = "EXECUTE" /\ post[t] = Keep
      BY <1>3, <1>4, <1>5, <2>1, <2>3 DEF WordOf, Stored, Disturbs
    <3>4. Will(word'[t], post[t]) \in Goes(S)
      BY <2>2, <3>3 DEF Will
    <3> HIDE DEF S
    <3>5. Served(t, S, word'[t], seen[t], post[t], inflight')
      BY <2>2, <3>2, <3>4, ServedMoves
    <3>6. QED
      BY <2>1, <3>4, <3>5 DEF ServedOne, GoesOn, S
  <2>4. CASE s[i] = "UEXECUTE" /\ rest = <<"info">>
    <3>1. word'[t] = word[t]
      BY <1>4, <2>1, <2>4 DEF WordOf
    <3>2. <<"info">> # <<>>
      OBVIOUS
    <3>3. ASSUME NEW e, From(e, k, k, s, i)
          PROVE  Own(e, t) /\ Login(e, S) /\ e.left = {<<"info">>}
      <4>1. e.left = {<<"info">>} /\ e.who = t /\ e.own
        BY <1>5, <2>4, <3>2, <3>3 DEF From
      <4>2. QED
        BY <2>2, <4>1 DEF Own, Login, LoginLeft
    <3>4. OwnSuits(t, S, inflight')
      <4> SUFFICES ASSUME NEW j \in 1 .. Len(inflight'), Own(inflight'[j], t)
                   PROVE  \/ Elsewhere(inflight'[j]) \/ Login(inflight'[j], S)
                          \/ Fits(inflight'[j], S)
        BY DEF OwnSuits
      <4>1. PICK m \in 1 .. Len(inflight) : From(inflight'[j], m, k, s, i)
        BY <1>2 DEF Handled
      <4>2. CASE m = k
        BY <3>3, <4>1, <4>2
      <4>3. CASE m # k
        BY <4>1, <4>3 DEF From, ServedOne, Served, OwnSuits
      <4>4. QED
        BY <4>2, <4>3
    <3>5. NoneIsEnough(t, S, word[t], post[t], inflight')
      <4> SUFFICES ASSUME NEW j \in 1 .. Len(inflight'), Own(inflight'[j], t),
                          Fits(inflight'[j], S), <<>> \in inflight'[j].left
                   PROVE  Will(word[t], post[t]) \in Goes(S)
        BY DEF NoneIsEnough
      <4>1. PICK m \in 1 .. Len(inflight) : From(inflight'[j], m, k, s, i)
        BY <1>2 DEF Handled
      <4>2. m # k
        BY <3>2, <3>3, <4>1, SMTT(30)
      <4>3. QED
        BY <4>1, <4>2 DEF From, ServedOne, Served, NoneIsEnough
    <3>6. OneAtStrict(t, S, word[t], seen[t], post[t], inflight')
      BY <2>2 DEF OneAtStrict
    <3>7. PICK j \in 1 .. Len(inflight') : From(inflight'[j], k, k, s, i)
      BY <1>2, <2>4, <3>2 DEF Handled
    <3>8. Own(inflight'[j], t) /\ Login(inflight'[j], S)
      BY <3>3, <3>7
    <3>9. GoesOn(t, S, word[t], seen[t], post[t], inflight)
             => GoesOn(t, S, word[t], seen[t], post[t], inflight')
      <4> HIDE DEF S
      <4>1. QED
        BY <2>2, <3>8 DEF GoesOn
    <3>10. QED
      BY <2>1, <3>1, <3>4, <3>5, <3>6, <3>9 DEF ServedOne, Served
  <2>5. QED
    BY <1>7, <2>3, <2>4, LoginAnswer
<1>8. CASE ~Elsewhere(r) /\ ~LoginLeft(r)
  <2>1. /\ \A a \in r.left : \A j \in 1 .. Len(a) : a[j] # "info" /\ WordOf(a[j]) = r.who
        /\ Fits(r, S) /\ WordOf(s[i]) = t
    BY <1>1, <1>5, <1>8 DEF Concerns, ServedOne, Served, OwnSuits, Login
  <2>2. /\ word'[t] = Stored(s[i]) /\ post[t] = Keep /\ i = 1
        /\ ~(s[i] = "UWAIT" /\ S = "leaveGroup")
    BY <1>3, <1>4, <1>5, <2>1 DEF Disturbs
  <2>3. Served(t, S, word[t], seen[t], post[t], inflight)
    BY DEF ServedOne
  <2> HIDE DEF S
  <2>4. CASE S \notin Strict
    <3>1. Served(t, S, word'[t], seen[t], post[t], inflight') /\ word'[t] \in Goes(S)
      BY <1>1, <1>2, <1>8, <2>1, <2>2, <2>3, <2>4, OwnPartSuits
    <3>2. S \notin {"off", "start"}
      BY <3>1, GoesOf
    <3>3. GoesOn(t, S, word'[t], seen[t], post[t], inflight')
      BY <2>2, <3>1 DEF GoesOn, Will
    <3>4. Begins(S, word'[t], inflight')
      BY <3>2 DEF Begins
    <3>5. QED
      BY <3>1, <3>3, <3>4 DEF ServedOne, S
  <2>5. CASE S \in Strict
    <3>1. t = "ui" /\ S \notin {"off", "start"}
      <4>1. S \notin LogonPlaces /\ S \notin {"off", "start"}
        BY <2>5 DEF Strict, LogonPlaces, LogonForms, LogonWaits
      <4>2. QED
        BY <1>1, <4>1 DEF Threads, S
    <3>2. GoesOn(t, S, word[t], seen[t], post[t], inflight)
      BY <3>1 DEF ServedOne, S
    <3>3. /\ Served(t, S, word'[t], seen[t], post[t], inflight')
          /\ GoesOn(t, S, word'[t], seen[t], post[t], inflight')
      BY <1>1, <1>2, <1>8, <2>1, <2>2, <2>3, <2>5, <3>2, OwnPartStrict
    <3>4. Begins(S, word'[t], inflight')
      BY <3>1 DEF Begins
    <3>5. QED
      BY <3>3, <3>4 DEF ServedOne, S
  <2>6. QED
    BY <2>4, <2>5
<1>9. QED
  BY <1>6, <1>7, <1>8

\* What is left of an answer starts a ui thread only if it brought the ui
\* thread its word before.
LEMMA InfoLeft ==
    ASSUME NEW d \in Entry, Concerns(d), NEW s \in d.left, NEW i \in 1 .. Len(s),
           NEW e, e.left = {<<"info">>}, e.who = d.who,
           e.left = {RemoveAt(s, i)} \/ e.left = Answers["verify"]
    PROVE  s[i] = "UEXECUTE"
<1>1. Len(<<"info">>) = 1 /\ <<"info">>[1] = "info" /\ <<"info">> # <<"UEXECUTE">>
      /\ <<"info">> # <<>>
  OBVIOUS
<1>2. 1 \in 1 .. 1
  OBVIOUS
<1>3. e.left # Answers["verify"]
  <2>1. ~Quietly(<<"info">>)
    BY <1>1, <1>2 DEF Quietly
  <2>2. <<"info">> \notin Answers["verify"]
    BY <2>1, AnswersTo DEF LogonKinds
  <2>3. QED
    BY <2>2
<1>4. RemoveAt(s, i) = <<"info">>
  BY <1>3
<1>5. CASE Elsewhere(d)
  <2>1. PICK x \in {"EXECUTE", "UEXECUTE"} : s = <<x>>
    BY <1>5 DEF Elsewhere
  <2>2. RemoveAt(s, i) = <<>>
    BY <2>1, NothingLeft DEF Items, Words
  <2>3. QED
    BY <1>1, <1>4, <2>2
<1>6. CASE LoginLeft(d)
  BY <1>1, <1>4, <1>6, LoginAnswer
<1>7. CASE \A a \in d.left : \A j \in 1 .. Len(a) : a[j] # "info" /\ WordOf(a[j]) = d.who
  <2>1. e.left = {RemoveAt(s, i)}
    BY <1>3
  <2>2. \A j \in 1 .. Len(RemoveAt(s, i)) : RemoveAt(s, i)[j] # "info"
    BY <1>7, <2>1, RestConcerns
  <2>3. QED
    BY <1>1, <1>2, <1>4, <2>2
<1>8. QED
  BY <1>5, <1>6, <1>7 DEF Concerns

\* What the other thread's request brings t, handled: the word it goes on with.
LEMMA Brought ==
    ASSUME NEW e, Elsewhere(e), NEW t \in Threads, e.who \in Threads, e.who # t,
           NEW s \in e.left, NEW i \in 1 .. Len(s)
    PROVE  /\ WordOf(s[i]) = t /\ Stored(s[i]) = s[i]
           /\ s[i] = IF t = "ui" THEN "UEXECUTE" ELSE "EXECUTE"
<1> DEFINE x == IF e.who = "ui" THEN "EXECUTE" ELSE "UEXECUTE"
<1>1. s = <<x>> /\ x \in Items
  BY DEF Elsewhere, Items, Words
<1>2. s[i] = x
  BY <1>1, NothingLeft
<1>3. QED
  BY <1>2 DEF WordOf, Stored, Threads

\* A part of an answer that thread t does not wait for is handled.
LEMMA PartNotOwn ==
    ASSUME LogonInv, Shape, NEW t \in Threads, NEW k \in 1 .. Len(inflight),
           NEW s \in inflight[k].left, NEW i \in 1 .. Len(s), recviveMeg(k, s, i),
           s[i] # "info", t \notin disturbed', ~Own(inflight[k], t),
           ServedOne(t, scr[t], scr["ui"], word[t], seen[t], post[t], inflight)
    PROVE  ServedOne(t, scr[t], scr["ui"], word'[t], seen[t], post[t], inflight')
<1> DEFINE S == scr[t]
           r == inflight[k]
<1>1. /\ inflight \in Seq(Entry) /\ r \in Entry /\ s \in Parts /\ Concerns(r)
      /\ r.who \in Threads
      /\ word \in [Threads -> Words]
      /\ t = "logon" => S \in LogonPlaces
      /\ t = "ui" => S \in UiPlaces
  <2>1. inflight \in Seq(Entry) /\ word \in [Threads -> Words]
        /\ (t = "logon" => S \in LogonPlaces) /\ (t = "ui" => S \in UiPlaces)
    BY DEF LogonInv, LogonTypes
  <2>2. r \in Entry
    BY <2>1
  <2>3. QED
    BY <2>1, <2>2 DEF Shape, Entry
<1>2. Handled(inflight', k, s, i)
  BY <1>1, HandledThen
<1>3. /\ word' = [word EXCEPT ![WordOf(s[i])] = Stored(s[i])]
      /\ WordOf(s[i]) = t => ~Disturbs(r, s, i)
  BY DEF recviveMeg
<1>4. /\ WordOf(s[i]) = t => word'[t] = Stored(s[i])
      /\ WordOf(s[i]) # t => word'[t] = word[t]
  BY <1>1, <1>3
<1>5. SomeOf(t, inflight, inflight') /\ Alike(t, inflight, inflight')
  <2>1. \A e : From(e, k, k, s, i) => ~Own(e, t)
    BY DEF From, Own
  <2>2. QED
    BY <1>2, <2>1, HandledOther
<1>6. CASE word'[t] # word[t]
  <2>1. WordOf(s[i]) = t /\ t # r.who /\ S \in {"off", "start"}
    BY <1>3, <1>4, <1>6 DEF Disturbs, Own
  <2>2. Goes(S) = {} /\ S \notin Strict /\ S \notin LogonWaits
    BY <2>1, GoesOf DEF Strict, LogonWaits
  <2>3. Served(t, S, word[t], seen[t], post[t], inflight')
    BY <1>5, ServedAlike DEF ServedOne
  <2> HIDE DEF S
  <2>4. Served(t, S, word'[t], seen[t], post[t], inflight')
    BY <2>2, <2>3, ServedMoves
  <2>5. t = "ui" => word'[t] = "UEXECUTE"
    <3> SUFFICES ASSUME t = "ui" PROVE word'[t] = "UEXECUTE"
      OBVIOUS
    <3>1. s[i] = "UEXECUTE"
      BY <1>1, <2>1, WordsOfTwo DEF WordOf, Threads
    <3>2. QED
      BY <1>4, <2>1, <3>1 DEF Stored
  <2>6. QED
    BY <2>1, <2>4, <2>5 DEF ServedOne, Begins, S
<1>7. CASE word'[t] = word[t]
  <2>1. Served(t, S, word[t], seen[t], post[t], inflight')
    BY <1>5, ServedAlike DEF ServedOne
  <2>2. Elsewhere(r) => r.who = t \/ word'[t] = IF t = "ui" THEN "UEXECUTE" ELSE "EXECUTE"
    BY <1>1, <1>4, Brought
  <2>3. \A m \in 1 .. Len(inflight) : m # k /\ inflight[m].who # t /\ Elsewhere(inflight[m]) =>
            \E j \in 1 .. Len(inflight') : inflight'[j].who # t /\ Elsewhere(inflight'[j])
    BY <1>2, HandledBrings
  <2>4. S \in LogonWaits \cup {"ui"}
           => (IF t = "ui" THEN "UEXECUTE" ELSE "EXECUTE") \in Goes(S)
    <3>1. t = "ui" => S \notin LogonWaits
      BY <1>1 DEF UiPlaces, UiForms, LogonWaits
    <3>2. t = "logon" => S # "ui"
      BY <1>1 DEF LogonPlaces, LogonForms, LogonWaits
    <3>3. QED
      BY <3>1, <3>2, GoesOf DEF Threads
  <2>5. GoesOn(t, S, word[t], seen[t], post[t], inflight)
           => GoesOn(t, S, word[t], seen[t], post[t], inflight')
    <3> HIDE DEF S, r
    <3> SUFFICES ASSUME GoesOn(t, S, word[t], seen[t], post[t], inflight)
                 PROVE  GoesOn(t, S, word[t], seen[t], post[t], inflight')
      OBVIOUS
    <3>1. CASE Will(word[t], post[t]) \in Goes(S)
      BY <3>1 DEF GoesOn
    <3>2. CASE Brings(t, inflight, inflight')
      BY <1>5, <3>2, GoesOnAlike
    <3>3. CASE /\ ~Brings(t, inflight, inflight')
               /\ \E m \in 1 .. Len(inflight) :
                     Own(inflight[m], t) /\ (Login(inflight[m], S) \/ Fits(inflight[m], S))
               /\ seen[t] = "none" /\ S \in Asks
      <4>1. PICK m \in 1 .. Len(inflight) :
                Own(inflight[m], t) /\ (Login(inflight[m], S) \/ Fits(inflight[m], S))
        BY <3>3
      <4>2. PICK j \in 1 .. Len(inflight') :
                Own(inflight'[j], t) /\ inflight'[j].left = inflight[m].left
        BY <1>5, <4>1 DEF Alike
      <4>3. Login(inflight'[j], S) \/ Fits(inflight'[j], S)
        BY <4>1, <4>2, SameLeft
      <4>4. QED
        BY <3>3, <4>2, <4>3 DEF GoesOn
    <3>4. CASE ~Brings(t, inflight, inflight') /\ post[t] = Keep /\ S \in LogonWaits \cup {"ui"}
      <4>1. Elsewhere(r) /\ r.who # t
        BY <2>3, <3>4 DEF Brings, r
      <4>2. QED
        BY <1>7, <2>2, <2>4, <3>4, <4>1 DEF GoesOn, Will
    <3>5. QED
      BY <3>1, <3>2, <3>3, <3>4 DEF GoesOn
  <2>6. t = "ui" => Begins(S, word'[t], inflight')
    <3> SUFFICES ASSUME t = "ui" PROVE Begins(S, word'[t], inflight')
      OBVIOUS
    <3>1. Begins(S, word[t], inflight)
      BY DEF ServedOne
    <3>2. ASSUME NEW j \in 1 .. Len(inflight'), inflight'[j].left = {<<"info">>}
          PROVE  \/ \E m \in 1 .. Len(inflight) : inflight[m].left = {<<"info">>}
                 \/ word'[t] = "UEXECUTE"
      <4>1. PICK m \in 1 .. Len(inflight) : From(inflight'[j], m, k, s, i)
        BY <1>2 DEF Handled
      <4>2. CASE m # k
        <5>1. inflight'[j] = inflight[m]
          BY <4>1, <4>2 DEF From
        <5>2. QED
          BY <3>2, <5>1
      <4>3. CASE m = k
        <5>1. /\ inflight'[j].who = r.who
              /\ \/ inflight'[j].left = {RemoveAt(s, i)}
                 \/ inflight'[j].left = Answers["verify"]
          BY <4>1, <4>3 DEF From
        <5>2. s[i] = "UEXECUTE"
          BY <1>1, <3>2, <5>1, InfoLeft
        <5>3. WordOf("UEXECUTE") = "ui" /\ Stored("UEXECUTE") = "UEXECUTE"
          BY DEF WordOf, Stored
        <5>4. QED
          BY <1>4, <5>2, <5>3
      <4>4. QED
        BY <4>2, <4>3
    <3>3. ASSUME NEW m \in 1 .. Len(inflight), inflight[m].who # "ui", Elsewhere(inflight[m])
          PROVE  \/ \E j \in 1 .. Len(inflight') :
                       inflight'[j].who # "ui" /\ Elsewhere(inflight'[j])
                 \/ word'[t] = "UEXECUTE"
      <4>1. CASE m # k
        BY <2>3, <3>3, <4>1
      <4>2. CASE m = k
        BY <2>2, <3>3, <4>2
      <4>3. QED
        BY <4>1, <4>2
    <3> HIDE DEF S
    <3>4. QED
      BY <1>7, <3>1, <3>2, <3>3 DEF Begins
  <2> HIDE DEF S
  <2>7. QED
    BY <1>7, <2>1, <2>5, <2>6 DEF ServedOne, S
<1>8. QED
  BY <1>6, <1>7

\* What is left of the request handled is for the other thread.
LEMMA HandledElsewhere ==
    ASSUME NEW t, NEW S, NEW w, NEW n, NEW p, NEW R, NEW k \in 1 .. Len(inflight),
           NEW s, NEW i, Handled(R, k, s, i), Served(t, S, w, n, p, inflight),
           \A e : From(e, k, k, s, i) /\ Own(e, t) => Elsewhere(e)
    PROVE  Served(t, S, w, n, p, R)
<1>1. ASSUME NEW j \in 1 .. Len(R), Own(R[j], t), NEW m \in 1 .. Len(inflight),
             From(R[j], m, k, s, i)
      PROVE  Elsewhere(R[j]) \/ (m # k /\ R[j] = inflight[m])
  BY <1>1 DEF From
<1>2. ASSUME NEW j \in 1 .. Len(R), Own(R[j], t)
      PROVE  Elsewhere(R[j]) \/ \E m \in 1 .. Len(inflight) : R[j] = inflight[m]
  <2>1. PICK m \in 1 .. Len(inflight) : From(R[j], m, k, s, i)
    BY DEF Handled
  <2>2. QED
    BY <1>1, <1>2, <2>1
<1>3. OwnSuits(t, S, R)
  BY <1>2 DEF Served, OwnSuits
<1>4. NoneIsEnough(t, S, w, p, R)
  BY <1>2 DEF Served, NoneIsEnough, Fits
<1>5. ASSUME NEW j \in 1 .. Len(R), NEW l \in 1 .. Len(R), j # l, S \in Strict,
             Own(R[j], t), Fits(R[j], S), Own(R[l], t), Fits(R[l], S)
      PROVE  FALSE
  <2>1. PICK m \in 1 .. Len(inflight), q \in 1 .. Len(inflight) :
            m # q /\ From(R[j], m, k, s, i) /\ From(R[l], q, k, s, i)
    BY <1>5 DEF Handled
  <2>2. R[j] = inflight[m] /\ R[l] = inflight[q]
    BY <1>1, <1>5, <2>1 DEF Fits
  <2>3. QED
    BY <1>5, <2>1, <2>2 DEF Served, OneAtStrict
<1>6. OneAtStrict(t, S, w, n, p, R)
  BY <1>2, <1>5 DEF Served, OneAtStrict, Fits
<1>7. QED
  BY <1>3, <1>4, <1>6 DEF Served

\* INFORMATION starts the ui thread, which has its word or is still to get it.
LEMMA InfoServes ==
    ASSUME LogonInv, Shape, NEW t \in Threads, NEW k \in 1 .. Len(inflight),
           NEW s \in inflight[k].left, NEW i \in 1 .. Len(s), recviveMeg(k, s, i),
           s[i] = "info",
           ServedOne(t, scr[t], scr["ui"], word[t], seen[t], post[t], inflight)
    PROVE  ServedOne(t, scr'[t], scr'["ui"], word'[t], seen[t], post[t], inflight')
<1> DEFINE r == inflight[k]
<1>1. inflight \in Seq(Entry) /\ Asked(inflight) /\ scr \in [Threads -> LogonPlaces \cup UiPlaces]
  BY DEF LogonInv, LogonTypes
<1>2. Handled(inflight', k, s, i)
  BY <1>1, HandledThen
<1>3. scr["ui"] = "off" /\ scr' = [scr EXCEPT !["ui"] = "start"] /\ UNCHANGED word
  BY DEF recviveMeg
<1>4. scr'["ui"] = "start" /\ (t = "logon" => scr'[t] = scr[t])
  BY <1>1, <1>3 DEF Threads
<1>5. r.who = "logon" /\ LoginLeft(r)
  BY <1>1 DEF Asked, NoInfo
<1>6. /\ RemoveAt(s, i) \in {<<"UEXECUTE">>, <<>>}
      /\ RemoveAt(s, i) = <<>> => r.left = {<<"info">>}
  <2>1. RemoveAt(s, i) = <<"UEXECUTE">> \/ RemoveAt(s, i) = <<>>
    BY <1>5, LoginAnswer
  <2>2. CASE s = <<"UEXECUTE", "info">>
    <3>1. Len(s) = 2 /\ s[1] = "UEXECUTE" /\ s[2] = "info"
      BY <2>2
    <3>2. i = 2
      BY <3>1
    <3>3. "UEXECUTE" \in Items /\ "info" \in Items
      BY DEF Items, Words
    <3>4. RemoveAt(<<"UEXECUTE", "info">>, 2) = <<"UEXECUTE">>
      BY <3>3, RestOfShort
    <3>5. RemoveAt(s, i) = <<"UEXECUTE">> /\ <<"UEXECUTE">> # <<>>
      BY <2>2, <3>2, <3>4
    <3>6. QED
      BY <3>5
  <2>3. CASE s = <<"EXECUTE">>
    <3>1. Len(s) = 1 /\ s[1] = "EXECUTE"
      BY <2>3
    <3>2. i = 1
      BY <3>1
    <3>3. QED
      BY <3>1, <3>2
  <2>4. s \notin {<<"UEXECUTE", "info">>, <<"EXECUTE">>} => r.left = {<<"info">>}
    BY <1>5 DEF LoginLeft
  <2>5. QED
    BY <2>1, <2>2, <2>3, <2>4
<1>7. ASSUME NEW e, From(e, k, k, s, i)
      PROVE  e.who = "logon" /\ Elsewhere(e)
  <2>1. e.who = "logon" /\ RemoveAt(s, i) # <<>> /\ e.left = {RemoveAt(s, i)}
    BY <1>5, <1>7 DEF From
  <2>2. QED
    BY <1>6, <2>1 DEF Elsewhere
<1>8. Served(t, scr[t], word[t], seen[t], post[t], inflight')
  BY <1>2, <1>7, HandledElsewhere DEF ServedOne
<1>9. CASE t = "logon"
  BY <1>3, <1>4, <1>8, <1>9 DEF ServedOne
<1>10. CASE t = "ui"
  <2>1. /\ Goes("off") = {} /\ Goes("start") = {}
        /\ "off" \notin Strict /\ "start" \notin Strict /\ "off" \notin LogonWaits
    BY GoesOf DEF Strict, LogonWaits
  <2>2. \A e : Fits(e, "off") => Fits(e, "start")
    BY <2>1, SuitsMore
  <2>3. Served(t, "start", word[t], seen[t], post[t], inflight')
    BY <1>3, <1>8, <1>10, <2>1, <2>2, ServedMoves
  <2>4. word[t] = "UEXECUTE" \/ \E j \in 1 .. Len(inflight') :
            inflight'[j].who # "ui" /\ Elsewhere(inflight'[j])
    <3>1. CASE RemoveAt(s, i) = <<>>
      BY <1>3, <1>6, <1>10, <3>1 DEF ServedOne, Begins
    <3>2. CASE RemoveAt(s, i) # <<>>
      BY <1>2, <1>7, <3>2 DEF Handled
    <3>3. QED
      BY <3>1, <3>2
  <2>5. Begins("start", word[t], inflight')
    BY <2>4 DEF Begins
  <2>6. QED
    BY <1>3, <1>4, <1>10, <2>3, <2>5 DEF ServedOne
<1>11. QED
  BY <1>9, <1>10 DEF Threads

\* Requests R are those under way but for the k-th.
Without(R, k) ==
    /\ \A j \in 1 .. Len(R) : \E m \in 1 .. Len(inflight) : m # k /\ R[j] = inflight[m]
    /\ \A j, l \in 1 .. Len(R) : j # l =>
          \E m, n \in 1 .. Len(inflight) :
             m # n /\ m # k /\ n # k /\ R[j] = inflight[m] /\ R[l] = inflight[n]
    /\ \A m \in 1 .. Len(inflight) : m # k => \E j \in 1 .. Len(R) : R[j] = inflight[m]

LEMMA WithoutOne ==
    ASSUME inflight \in Seq(Entry), NEW k \in 1 .. Len(inflight)
    PROVE  Without(RemoveAt(inflight, k), k)
<1> DEFINE R == RemoveAt(inflight, k)
<1>1. /\ R \in Seq(Entry)
      /\ \A j \in 1 .. Len(R) : \E m \in 1 .. Len(inflight) : m # k /\ R[j] = inflight[m]
      /\ \A j, l \in 1 .. Len(R) : j # l =>
            \E m, n \in 1 .. Len(inflight) :
               m # n /\ m # k /\ n # k /\ R[j] = inflight[m] /\ R[l] = inflight[n]
      /\ \A m \in 1 .. Len(inflight) : m # k => \E j \in 1 .. Len(R) : R[j] = inflight[m]
  BY TakenOut
<1> HIDE DEF R
<1>2. Without(R, k)
  BY <1>1 DEF Without
<1>3. QED
  BY <1>2 DEF R

\* The server has nothing to answer: the thread goes on without.
LEMMA NothingServes ==
    ASSUME LogonInv, Shape, NEW t \in Threads, NEW k \in 1 .. Len(inflight), unanswered(k),
           ServedOne(t, scr[t], scr["ui"], word[t], seen[t], post[t], inflight)
    PROVE  ServedOne(t, scr[t], scr["ui"], word[t], seen[t], post[t], inflight')
<1> DEFINE S == scr[t]
           r == inflight[k]
<1>1. inflight \in Seq(Entry) /\ <<>> \in r.left /\ inflight' = RemoveAt(inflight, k)
  BY DEF LogonInv, LogonTypes, unanswered
<1>2. /\ \A j \in 1 .. Len(inflight') : \E m \in 1 .. Len(inflight) :
            m # k /\ inflight'[j] = inflight[m]
      /\ \A j, l \in 1 .. Len(inflight') : j # l =>
            \E m, n \in 1 .. Len(inflight) :
               m # n /\ m # k /\ n # k /\ inflight'[j] = inflight[m] /\ inflight'[l] = inflight[n]
      /\ \A m \in 1 .. Len(inflight) : m # k =>
            \E j \in 1 .. Len(inflight') : inflight'[j] = inflight[m]
  <2>1. Without(inflight', k)
    BY <1>1, WithoutOne
  <2>2. QED
    BY <2>1, Zenon DEF Without
<1>3. ~Elsewhere(r) /\ ~LoginLeft(r)
  <2>1. /\ <<>> # <<"EXECUTE">> /\ <<>> # <<"UEXECUTE">> /\ <<>> # <<"info">>
        /\ <<>> # <<"UEXECUTE", "info">>
    OBVIOUS
  <2>2. QED
    BY <1>1, <2>1 DEF Elsewhere, LoginLeft
<1>4. SomeOf(t, inflight, inflight')
  <2>1. ASSUME NEW i \in 1 .. Len(inflight'), NEW j \in 1 .. Len(inflight'), i # j,
               Own(inflight'[i], t), Own(inflight'[j], t)
        PROVE  \E m, n \in 1 .. Len(inflight) :
                  /\ m # n /\ Own(inflight[m], t) /\ Own(inflight[n], t)
                  /\ inflight[m].left = inflight'[i].left /\ inflight[n].left = inflight'[j].left
    <3>1. PICK m \in 1 .. Len(inflight), n \in 1 .. Len(inflight) :
              m # n /\ inflight'[i] = inflight[m] /\ inflight'[j] = inflight[n]
      BY <1>2, <2>1
    <3>2. QED
      BY <2>1, <3>1
  <2>2. \A j \in 1 .. Len(inflight') : Own(inflight'[j], t) =>
            \E m \in 1 .. Len(inflight) : Own(inflight[m], t) /\ inflight[m].left = inflight'[j].left
    BY <1>2
  <2>3. QED
    BY <2>1, <2>2 DEF SomeOf
<1>5. Served(t, S, word[t], seen[t], post[t], inflight')
  BY <1>4, ServedAlike DEF ServedOne
<1>6. Brings(t, inflight, inflight')
  BY <1>2, <1>3, ZenonT(40) DEF Brings
<1>7. StartsNoMore(inflight, inflight')
  <2>1. ASSUME NEW j \in 1 .. Len(inflight'), inflight'[j].left = {<<"info">>}
        PROVE  \E m \in 1 .. Len(inflight) : inflight[m].left = {<<"info">>}
    <3>1. PICK m \in 1 .. Len(inflight) : inflight'[j] = inflight[m]
      BY <1>2, <2>1
    <3>2. QED
      BY <2>1, <3>1
  <2>2. QED
    BY <2>1 DEF StartsNoMore
<1>8. CASE Own(r, t)
  <2>1. Fits(r, S) => Will(word[t], post[t]) \in Goes(S)
    BY <1>1, <1>8 DEF ServedOne, Served, NoneIsEnough
  <2>2. Fits(r, S)
    BY <1>3, <1>8 DEF ServedOne, Served, OwnSuits, Login
  <2>3. GoesOn(t, S, word[t], seen[t], post[t], inflight')
    BY <2>1, <2>2 DEF GoesOn
  <2>4. t = "ui" => Begins(S, word[t], inflight')
    <3> HIDE DEF S
    <3>1. QED
      BY <1>6, <1>7 DEF ServedOne, Begins, Brings, StartsNoMore, S
  <2>5. QED
    BY <1>5, <2>3, <2>4 DEF ServedOne
<1>9. CASE ~Own(r, t)
  <2>1. \A m \in 1 .. Len(inflight) : Own(inflight[m], t) =>
            \E j \in 1 .. Len(inflight') : Own(inflight'[j], t) /\ inflight'[j].left = inflight[m].left
    BY <1>2, <1>9
  <2>2. Alike(t, inflight, inflight')
    BY <1>4, <2>1 DEF Alike
  <2>3. QED
    BY <1>6, <1>7, <2>2, OneAlike
<1>10. QED
  BY <1>8, <1>9

\* What is left of a request is for the thread that asked, or the other's word.
LEMMA FromConcerns ==
    ASSUME NEW k \in 1 .. Len(inflight), inflight[k] \in Entry, Concerns(inflight[k]),
           NEW s \in inflight[k].left, NEW i \in 1 .. Len(s),
           NEW e, From(e, k, k, s, i)
    PROVE  Concerns(e)
<1> DEFINE r == inflight[k]
<1>1. /\ e.who = r.who
      /\ \/ RemoveAt(s, i) # <<>> /\ e.left = {RemoveAt(s, i)}
         \/ s[i] = "email" /\ e.left = Answers["verify"]
  BY DEF From
<1>2. CASE Elsewhere(r)
  <2>1. PICK x \in {"EXECUTE", "UEXECUTE"} : s = <<x>>
    BY <1>2 DEF Elsewhere
  <2>2. RemoveAt(s, i) = <<>> /\ s[i] = x
    BY <2>1, NothingLeft DEF Items, Words
  <2>3. QED
    BY <1>1, <2>1, <2>2
<1>3. CASE r.who = "logon" /\ LoginLeft(r)
  <2>1. \/ s[i] = "UEXECUTE" /\ RemoveAt(s, i) = <<"info">>
        \/ s[i] = "info" /\ RemoveAt(s, i) = <<"UEXECUTE">>
        \/ s[i] \in {"info", "EXECUTE"} /\ RemoveAt(s, i) = <<>>
    BY <1>3, LoginAnswer
  <2>2. e.left = {<<"info">>} \/ e.left = {<<"UEXECUTE">>}
    BY <1>1, <2>1
  <2>3. QED
    BY <1>1, <1>3, <2>2 DEF Concerns, LoginLeft, Elsewhere
<1>4. CASE \A a \in r.left : \A j \in 1 .. Len(a) : a[j] # "info" /\ WordOf(a[j]) = r.who
  <2>1. CASE e.left = {RemoveAt(s, i)}
    BY <1>1, <1>4, <2>1, RestConcerns
  <2>2. CASE s[i] = "email" /\ e.left = Answers["verify"]
    <3>1. e.who = "logon" /\ "verify" \in LogonKinds
      BY <1>1, <1>4, <2>2 DEF WordOf, LogonKinds
    <3>2. QED
      BY <2>2, <3>1, KindConcerns
  <2>3. QED
    BY <1>1, <2>1, <2>2
<1>5. QED
  BY <1>2, <1>3, <1>4 DEF Concerns

\* Handling an answer keeps the threads served.
LEMMA PartServes ==
    ASSUME LogonInv, ServedInv, NEW k \in 1 .. Len(inflight),
           NEW s \in inflight[k].left, NEW i \in 1 .. Len(s), recviveMeg(k, s, i)
    PROVE  ServedInv'
<1>1. inflight \in Seq(Entry) /\ scr \in [Threads -> LogonPlaces \cup UiPlaces] /\ Shape
  BY DEF LogonInv, LogonTypes, ServedInv
<1>2. Handled(inflight', k, s, i)
  BY <1>1, HandledThen
<1>3. /\ UNCHANGED <<conVars, seen, post, chat>>
      /\ disturbed \subseteq disturbed'
      /\ s[i] = "info" => scr["ui"] = "off" /\ scr' = [scr EXCEPT !["ui"] = "start"]
      /\ s[i] # "info" => UNCHANGED scr
  BY DEF recviveMeg, chatVars
<1>4. ASSUME NEW j \in 1 .. Len(inflight') PROVE Concerns(inflight'[j])
  <2>1. PICK m \in 1 .. Len(inflight) : From(inflight'[j], m, k, s, i)
    BY <1>2 DEF Handled
  <2>2. inflight[k] \in Entry /\ Concerns(inflight[k])
    BY <1>1 DEF Shape
  <2>3. m = k => Concerns(inflight'[j])
    BY <2>1, <2>2, FromConcerns
  <2>4. m # k => inflight'[j] = inflight[m]
    BY <2>1 DEF From
  <2>5. QED
    BY <1>1, <2>3, <2>4 DEF Shape
<1>5. Shape'
  <2>1. \A t \in Threads : post'[t] # Keep =>
            seen'[t] = "none" /\ scr'[t] \in (LogonForms \cup UiForms) \ {"logon"}
    <3>1. "off" \notin LogonForms \cup UiForms
      BY DEF LogonForms, UiForms
    <3>2. QED
      BY <1>1, <1>3, <3>1 DEF Shape
  <2>2. ChatOf(scr'["ui"]) # "none" => chat' = ChatOf(scr'["ui"])
    <3>1. ChatOf("start") = "none"
      BY DEF ChatOf
    <3>2. s[i] = "info" => scr'["ui"] = "start"
      BY <1>1, <1>3 DEF Threads
    <3>3. QED
      BY <1>1, <1>3, <3>1, <3>2 DEF Shape
  <2>3. QED
    BY <1>4, <2>1, <2>2 DEF Shape
<1>6. ASSUME Up', NEW t \in Threads \ disturbed'
      PROVE  ServedOne(t, scr'[t], scr'["ui"], word'[t], seen'[t], post'[t], inflight')
  <2>1. ServedOne(t, scr[t], scr["ui"], word[t], seen[t], post[t], inflight)
    BY <1>3, <1>6 DEF ServedInv, Up, conVars
  <2>2. CASE s[i] = "info"
    <3>1. ServedOne(t, scr'[t], scr'["ui"], word'[t], seen[t], post[t], inflight')
      BY <1>1, <1>6, <2>1, <2>2, InfoServes
    <3>2. QED
      BY <1>3, <3>1
  <2>3. CASE s[i] # "info"
    <3>1. ServedOne(t, scr[t], scr["ui"], word'[t], seen[t], post[t], inflight')
      BY <1>1, <1>6, <2>1, <2>3, PartOwn, PartNotOwn
    <3>2. QED
      BY <1>3, <2>3, <3>1
  <2>4. QED
    BY <2>2, <2>3
<1>7. QED
  BY <1>5, <1>6 DEF ServedInv

LEMMA AnswersServe ==
    ASSUME LogonInv, ServedInv, handleAnswers
    PROVE  ServedInv'
<1>1. inflight \in Seq(Entry) /\ DOMAIN inflight = 1 .. Len(inflight)
  BY DEF LogonInv, LogonTypes
<1>2. PICK k \in 1 .. Len(inflight) :
          \/ unanswered(k)
          \/ \E s \in inflight[k].left : \E i \in DOMAIN s : recviveMeg(k, s, i)
  BY <1>1 DEF handleAnswers
<1>3. ASSUME NEW s \in inflight[k].left, NEW i \in DOMAIN s, recviveMeg(k, s, i)
      PROVE  ServedInv'
  <2>1. inflight[k] \in Entry
    BY <1>1
  <2>2. s \in Seq(Items)
    BY <2>1 DEF Entry, Parts
  <2>3. i \in 1 .. Len(s)
    BY <2>2
  <2>4. QED
    BY <1>3, <2>3, PartServes
<1>4. CASE unanswered(k)
  <2>1. /\ inflight' = RemoveAt(inflight, k)
        /\ UNCHANGED <<conVars, word, scr, seen, post, chat, disturbed>>
    BY <1>4 DEF unanswered, chatVars, history
  <2>2. Without(inflight', k)
    BY <1>1, <2>1, WithoutOne
  <2>3. Shape'
    <3>1. \A j \in 1 .. Len(inflight') : Concerns(inflight'[j])
      BY <2>2 DEF Without, ServedInv, Shape
    <3>2. QED
      BY <2>1, <3>1 DEF ServedInv, Shape
  <2>4. ASSUME Up', NEW t \in Threads \ disturbed'
        PROVE  ServedOne(t, scr'[t], scr'["ui"], word'[t], seen'[t], post'[t], inflight')
    <3>1. ServedOne(t, scr[t], scr["ui"], word[t], seen[t], post[t], inflight) /\ Shape
      BY <2>1, <2>4 DEF ServedInv, Up, conVars
    <3>2. ServedOne(t, scr[t], scr["ui"], word[t], seen[t], post[t], inflight')
      BY <1>4, <2>4, <3>1, NothingServes
    <3>3. QED
      BY <2>1, <3>2
  <2>5. QED
    BY <2>3, <2>4 DEF ServedInv
<1>5. QED
  BY <1>2, <1>3, <1>4

-----------------------------------------------------------------------------
(* The other steps keep the threads served.                                 *)

\* What holds of a thread outside the screens.
LEMMA Outside ==
    ASSUME LogonInv, Shape, NEW t \in Threads,
           scr[t] \notin (LogonForms \cup UiForms) \ {"logon"}
    PROVE  post[t] = Keep /\ (scr[t] # "logon" => seen[t] = "none")
<1>1. /\ t = "logon" => scr[t] \in LogonPlaces
      /\ t = "ui" => scr[t] \in UiPlaces
      /\ seen[t] # "none" => scr[t] \in DOMAIN Screens
  BY DEF LogonInv, LogonTypes
<1>2. seen[t] # "none" => scr[t] \in LogonForms \cup UiForms
  BY <1>1, RowsOf DEF Threads
<1>3. QED
  BY <1>2 DEF Shape

\* Without requests of its own a thread is served.
LEMMA ServedByNone ==
    ASSUME NEW t, NEW S, NEW w, NEW n, NEW p, NEW Q, \A k \in 1 .. Len(Q) : ~Own(Q[k], t)
    PROVE  Served(t, S, w, n, p, Q)
BY DEF Served, OwnSuits, NoneIsEnough, OneAtStrict

LEMMA ServedSame ==
    ASSUME ServedInv, UNCHANGED <<connection_, word, scr, seen, post, inflight, chat, disturbed>>
    PROVE  ServedInv'
<1>1. Shape'
  BY DEF ServedInv, Shape
<1>2. QED
  BY <1>1 DEF ServedInv, Up

LEMMA ServedInit == Init => ServedInv
<1> SUFFICES ASSUME Init PROVE ServedInv
  OBVIOUS
<1>1. inflight = <<>> /\ Len(inflight) = 0 /\ \A t \in Threads : post[t] = Keep
  BY DEF Init
<1>2. CASE FreshInit
  <2>1. ~Up
    BY <1>2, ClientAssumption DEF FreshInit, ConInit, ConRest, Up
  <2>2. Shape
    BY <1>1, <1>2 DEF FreshInit, Shape, ChatOf, Threads
  <2>3. QED
    BY <2>1, <2>2 DEF ServedInv
<1>3. CASE ScreenInit
  <2>1. PICK s \in {<<"ui", "UEXECUTE">>, <<"seeFriend", "URETURN">>,
                    <<"openChat", "UCHAT">>, <<"viewInformation", "URETURN">>,
                    <<"managerFriend", "URETURN">>, <<"managerGroup", "UWAIT">>,
                    <<"groupList", "URETURN">>, <<"openGchat", "UCHAT">>} :
            /\ scr = [logon |-> "asleep", ui |-> s[1]]
            /\ word = [logon |-> "WAIT", ui |-> s[2]]
    BY <1>3 DEF ScreenInit
  <2>2. scr["ui"] = s[1] /\ word["ui"] = s[2]
    BY <2>1
  <2>3. ChatOf(scr["ui"]) = "none" /\ scr["ui"] \notin {"off", "start"}
    BY <2>2 DEF ChatOf
  <2>4. word["ui"] \in Goes(scr["ui"])
    BY <2>2, GoesOf DEF Prompts, Words
  <2>5. Shape
    BY <1>1, <2>3 DEF Shape
  <2>6. ASSUME NEW t \in Threads
        PROVE  ServedOne(t, scr[t], scr["ui"], word[t], seen[t], post[t], inflight)
    <3>1. Served(t, scr[t], word[t], seen[t], post[t], inflight)
      BY <1>1, ServedByNone
    <3>2. t = "ui" => GoesOn(t, scr[t], word[t], seen[t], post[t], inflight)
      BY <1>1, <2>4 DEF GoesOn, Will
    <3>3. t = "ui" => Begins(scr[t], word[t], inflight)
      BY <2>3 DEF Begins
    <3>4. QED
      BY <2>3, <3>1, <3>2, <3>3 DEF ServedOne, Threads
  <2>7. QED
    BY <2>5, <2>6 DEF ServedInv
<1>4. QED
  BY <1>2, <1>3 DEF Init

\* The connection to the chat server comes up: nothing was asked before.
LEMMA ConnectionServes ==
    ASSUME LogonInv, ServedInv, Connections
    PROVE  ServedInv'
<1>1. CASE UNCHANGED clientVars /\ (Up' => Up)
  <2>1. Shape'
    BY <1>1 DEF clientVars, chatVars, ServedInv, Shape
  <2>2. QED
    BY <1>1, <2>1 DEF clientVars, ServedInv
<1>2. CASE ~Up /\ connection_'["chat"] = "up"
  <2>1. channel_["chat"] = "writing"
    BY <1>2, ClientAssumption DEF Up, Connections, ConNext, connect, connecting, retry,
       giveUp, handleWrite, handleError, removeAndResetChannel, newConnection,
       resetChannel, removeConnection, LogonInv, ConInv, ConTypes
  <2>2. scr["logon"] = "off" /\ scr["ui"] = "off" /\ inflight = <<>>
    BY <2>1 DEF LogonInv, BeforeConnection
  <2>3. /\ scr' = [scr EXCEPT !["logon"] = "logon"]
        /\ word' = [word EXCEPT !["logon"] = "EXECUTE"]
        /\ UNCHANGED <<seen, post, inflight, chat, disturbed>>
    BY <1>2 DEF Connections, history, chatVars
  <2>4. scr \in [Threads -> LogonPlaces \cup UiPlaces] /\ word \in [Threads -> Words]
    BY DEF LogonInv, LogonTypes
  <2>5. scr'["logon"] = "logon" /\ scr'["ui"] = "off" /\ word'["logon"] = "EXECUTE"
    BY <2>2, <2>3, <2>4 DEF Threads
  <2>6. \A t \in Threads : post[t] = Keep
    BY <2>2, Outside DEF ServedInv, LogonForms, UiForms, Threads
  <2>7. Len(inflight') = 0
    BY <2>2, <2>3
  <2>8. Shape'
    BY <2>3, <2>5, <2>6, <2>7 DEF Shape, ChatOf
  <2>9. ASSUME NEW t \in Threads
        PROVE  ServedOne(t, scr'[t], scr'["ui"], word'[t], seen'[t], post'[t], inflight')
    <3>1. Served(t, scr'[t], word'[t], seen'[t], post'[t], inflight')
      BY <2>7, ServedByNone
    <3>2. t = "logon" => GoesOn(t, scr'[t], word'[t], seen'[t], post'[t], inflight')
      <4>1. "EXECUTE" \in Goes("logon")
        BY GoesOf DEF LogonWaits
      <4>2. QED
        BY <2>3, <2>5, <2>6, <4>1 DEF GoesOn, Will
    <3>3. Begins(scr'["ui"], word'["ui"], inflight')
      BY <2>5, <2>7 DEF Begins
    <3>4. QED
      BY <2>5, <3>1, <3>2, <3>3 DEF ServedOne, Threads
  <2>10. QED
    BY <2>8, <2>9 DEF ServedInv
<1>3. QED
  BY <1>1, <1>2 DEF Connections, Up

\* The logon thread moves between its menu and its sleep, where it goes on
\* with the same.
LEMMA LogonGoesServes ==
    ASSUME LogonInv, ServedInv, NEW from \in LogonWaits, NEW to \in LogonWaits,
           LogonGoes(from, to)
    PROVE  ServedInv'
<1>1. /\ UNCHANGED <<connection_, word, seen, post, inflight, chat, disturbed>>
      /\ scr["logon"] = from /\ scr' = [scr EXCEPT !["logon"] = to]
  BY DEF LogonGoes, conVars, chatVars, history
<1>2. scr'["logon"] = to /\ scr'["ui"] = scr["ui"]
  BY <1>1 DEF LogonInv, LogonTypes, Threads
<1>3. post["logon"] = Keep
  BY <1>1, Outside DEF ServedInv, LogonForms, LogonWaits, UiForms, Threads
<1>4. Shape'
  BY <1>1, <1>2, <1>3 DEF ServedInv, Shape, Threads
<1>5. Goes(from) = {"EXECUTE"} /\ Goes(to) = {"EXECUTE"} /\ from \notin Strict /\ to \notin Strict
      /\ from # "leaveGroup" /\ from \in Asks /\ to \in Asks /\ from \notin {"off", "start"}
  BY GoesOf DEF LogonWaits, Strict, Asks
<1>6. \A e : (Fits(e, from) => Fits(e, to)) /\ (Login(e, from) <=> Login(e, to))
  <2>1. \A e : Fits(e, from) => Fits(e, to)
    BY <1>5, SuitsMore
  <2>2. QED
    BY <2>1 DEF Login
<1>7. ASSUME Up', "logon" \notin disturbed'
      PROVE  ServedOne("logon", to, scr["ui"], word["logon"], seen["logon"], post["logon"], inflight)
  <2>1. ServedOne("logon", from, scr["ui"], word["logon"], seen["logon"], post["logon"], inflight)
    BY <1>1, <1>7 DEF ServedInv, Up, Threads
  <2>2. Served("logon", to, word["logon"], seen["logon"], post["logon"], inflight)
    BY <1>5, <1>6, <2>1, ServedMoves DEF ServedOne
  <2>3. GoesOn("logon", from, word["logon"], seen["logon"], post["logon"], inflight)
           => GoesOn("logon", to, word["logon"], seen["logon"], post["logon"], inflight)
    BY <1>5, <1>6 DEF GoesOn
  <2>4. QED
    BY <1>5, <2>1, <2>2, <2>3 DEF ServedOne
<1>8. ASSUME Up', NEW t \in Threads \ disturbed'
      PROVE  ServedOne(t, scr'[t], scr'["ui"], word'[t], seen'[t], post'[t], inflight')
  <2>1. ServedOne(t, scr[t], scr["ui"], word[t], seen[t], post[t], inflight)
    BY <1>1, <1>8 DEF ServedInv, Up
  <2>2. QED
    BY <1>1, <1>2, <1>7, <1>8, <2>1 DEF Threads
<1>9. QED
  BY <1>4, <1>8 DEF ServedInv

\* A thread makes the store it has left.
LEMMA StoreServes ==
    ASSUME LogonInv, ServedInv, NEW t \in Threads, updataState(t)
    PROVE  ServedInv'
<1>1. /\ post[t] # Keep /\ word' = [word EXCEPT ![t] = post[t]] /\ post' = [post EXCEPT ![t] = Keep]
      /\ UNCHANGED <<connection_, scr, seen, inflight, chat, disturbed>>
  BY DEF updataState, conVars, chatVars, history
<1>2. /\ word'[t] = post[t] /\ post'[t] = Keep
      /\ \A u \in Threads : u # t => word'[u] = word[u] /\ post'[u] = post[u]
  BY <1>1 DEF LogonInv, LogonTypes
<1>3. seen[t] = "none" /\ scr[t] \in LogonForms \cup UiForms
  BY <1>1 DEF ServedInv, Shape
<1>4. Shape'
  BY <1>1, <1>2 DEF ServedInv, Shape
<1>5. Will(word'[t], post'[t]) = Will(word[t], post[t])
  BY <1>1, <1>2 DEF Will
<1>6. ASSUME Up', NEW u \in Threads \ disturbed'
      PROVE  ServedOne(u, scr'[u], scr'["ui"], word'[u], seen'[u], post'[u], inflight')
  <2>1. ServedOne(u, scr[u], scr["ui"], word[u], seen[u], post[u], inflight)
    BY <1>1, <1>6 DEF ServedInv, Up
  <2>2. CASE u = t
    <3>1. Served(t, scr[t], word'[t], seen[t], post'[t], inflight)
      BY <1>5, <2>1, <2>2 DEF ServedOne, Served, NoneIsEnough, OneAtStrict
    <3>2. GoesOn(t, scr[t], word[t], seen[t], post[t], inflight)
             => GoesOn(t, scr[t], word'[t], seen[t], post'[t], inflight)
      BY <1>1, <1>5 DEF GoesOn
    <3>3. Begins(scr[t], word'[t], inflight)
      BY <1>3 DEF Begins, LogonForms, UiForms
    <3>4. QED
      BY <1>1, <2>1, <2>2, <3>1, <3>2, <3>3 DEF ServedOne
  <2>3. CASE u # t
    BY <1>1, <1>2, <2>1, <2>3
  <2>4. QED
    BY <2>2, <2>3
<1>7. QED
  BY <1>4, <1>6 DEF ServedInv

\* A screen reads its word: where its rows prompt, it goes on with any.
LEMMA LookServes ==
    ASSUME LogonInv, ServedInv, NEW t \in Threads, look(t)
    PROVE  ServedInv'
<1> DEFINE S == scr[t]
<1>1. /\ UNCHANGED <<connection_, word, scr, post, inflight, chat>>
      /\ S \in DOMAIN Screens /\ seen[t] = "none" /\ post[t] = Keep
  BY DEF look, conVars, chatVars
<1>2. PICK r \in Screens[S] :
          r.on \in {word[t], Prompt} /\ seen' = [seen EXCEPT ![t] = r.on]
  BY DEF look
<1>3. /\ inflight \in Seq(Entry) /\ word[t] \in Words
      /\ (t = "logon" => S \in LogonForms) /\ (t = "ui" => S \in UiForms)
      /\ seen'[t] = r.on /\ \A u \in Threads : u # t => seen'[u] = seen[u]
  <2>1. /\ inflight \in Seq(Entry) /\ word[t] \in Words
        /\ seen \in [Threads -> Words \cup {Prompt, "none"}]
        /\ (t = "logon" => S \in LogonPlaces) /\ (t = "ui" => S \in UiPlaces)
    BY DEF LogonInv, LogonTypes
  <2>2. QED
    BY <1>1, <1>2, <2>1, RowsOf
<1>4. /\ r.on \in Goes(S) \cup {Prompt}
      /\ r.on = Prompt => S = "selectFunc" \/ Goes(S) = Words
  BY <1>1, <1>2, ScreensGoOn DEF RowGoesOn
<1>5. S = "selectFunc" \/ word[t] \in Goes(S)
  BY <1>2, <1>3, <1>4
<1>6. Shape'
  BY <1>1, <1>3 DEF ServedInv, Shape
<1>7. S \notin {"off", "start"} /\ (S = "selectFunc" => t = "ui" /\ S \notin Strict \cup Asks
                                    /\ S \notin LogonWaits \cup {"ui"})
  BY <1>3 DEF LogonForms, UiForms, Strict, Asks, LogonWaits, Threads
<1>8. ASSUME Served(t, S, word[t], "none", Keep, inflight)
      PROVE  Served(t, S, word[t], r.on, Keep, inflight)
  <2>1. S \notin Strict \/ word[t] \in Goes(S)
    BY <1>5, <1>7
  <2>2. OneAtStrict(t, S, word[t], r.on, Keep, inflight)
    BY <1>8, <2>1 DEF Served, OneAtStrict, Will
  <2>3. QED
    BY <1>8, <2>2 DEF Served
<1> HIDE DEF S
<1>9. ASSUME Up', t \notin disturbed'
      PROVE  ServedOne(t, S, scr["ui"], word[t], r.on, Keep, inflight)
  <2>1. CASE t \notin disturbed
    <3>1. ServedOne(t, S, scr["ui"], word[t], "none", Keep, inflight)
      BY <1>1, <1>9, <2>1 DEF ServedInv, Up, S
    <3>2. Served(t, S, word[t], r.on, Keep, inflight)
      BY <1>8, <3>1 DEF ServedOne
    <3>3. S = "selectFunc" => word[t] \in Goes(S)
      BY <1>7, <3>1 DEF ServedOne, GoesOn, Will, Threads
    <3>4. GoesOn(t, S, word[t], r.on, Keep, inflight)
      BY <1>5, <3>3 DEF GoesOn, Will
    <3>5. QED
      BY <1>7, <3>2, <3>4 DEF ServedOne, Begins
  <2>2. CASE t \in disturbed
    <3>1. inflight = <<>> /\ S = t
      BY <1>9, <2>2 DEF look, S
    <3>2. Len(inflight) = 0
      BY <3>1
    <3>3. S # "selectFunc"
      BY <3>1 DEF Threads
    <3>4. Served(t, S, word[t], r.on, Keep, inflight)
      BY <3>2, ServedByNone
    <3>5. GoesOn(t, S, word[t], r.on, Keep, inflight)
      BY <1>5, <3>3 DEF GoesOn, Will
    <3>6. QED
      BY <1>7, <3>4, <3>5 DEF ServedOne, Begins
  <2>3. QED
    BY <2>1, <2>2
<1>10. ASSUME Up', NEW u \in Threads \ disturbed'
       PROVE  ServedOne(u, scr'[u], scr'["ui"], word'[u], seen'[u], post'[u], inflight')
  <2>1. CASE u = t
    BY <1>1, <1>3, <1>9, <1>10, <2>1 DEF S
  <2>2. CASE u # t
    <3>1. u \notin disturbed
      BY <1>10, <2>2 DEF look
    <3>2. ServedOne(u, scr[u], scr["ui"], word[u], seen[u], post[u], inflight)
      BY <1>1, <1>10, <3>1 DEF ServedInv, Up
    <3>3. QED
      BY <1>1, <1>3, <2>2, <3>2
  <2>3. QED
    BY <2>1, <2>2
<1>11. QED
  BY <1>6, <1>10 DEF ServedInv

\* The ui thread moves on without a request; the logon thread's menu, while
\* the ui thread runs, waits behind it.
LEMMA UiMoves ==
    ASSUME LogonInv, ServedInv, UNCHANGED <<connection_, seen, post, inflight, disturbed>>,
           scr'["logon"] = scr["logon"], word'["logon"] = word["logon"],
           scr'["ui"] # "off", Shape',
           Up /\ "ui" \notin disturbed =>
              ServedOne("ui", scr'["ui"], scr'["ui"], word'["ui"], seen["ui"], post["ui"], inflight)
    PROVE  ServedInv'
<1>1. ASSUME Up', NEW t \in Threads \ disturbed'
      PROVE  ServedOne(t, scr'[t], scr'["ui"], word'[t], seen'[t], post'[t], inflight')
  <2>1. Up /\ t \notin disturbed
    BY <1>1 DEF Up
  <2>2. ServedOne(t, scr[t], scr["ui"], word[t], seen[t], post[t], inflight)
    BY <2>1 DEF ServedInv
  <2>3. CASE t = "logon"
    <3>1. ServedOne(t, scr[t], scr'["ui"], word[t], seen[t], post[t], inflight)
      BY <2>2, <2>3, AlikeItself, OneAlike
    <3>2. QED
      BY <2>3, <3>1
  <2>4. CASE t = "ui"
    BY <2>1, <2>4
  <2>5. QED
    BY <2>3, <2>4 DEF Threads
<1>2. QED
  BY <1>1 DEF ServedInv

\* Where the thread only passes through, it has the word it goes on with, and
\* at a strict place nothing is to come.
LEMMA Passing ==
    ASSUME LogonInv, ServedInv, Up, "ui" \notin disturbed,
           scr["ui"] \in {"logout", "delete", "openChat", "openGchat", "quitChat", "quitGchat"}
    PROVE  /\ post["ui"] = Keep /\ word["ui"] \in Goes(scr["ui"])
           /\ Served("ui", scr["ui"], word["ui"], seen["ui"], Keep, inflight)
           /\ scr["ui"] \in Strict => \A k \in 1 .. Len(inflight) :
                 Own(inflight[k], "ui") => ~Fits(inflight[k], scr["ui"])
<1>1. post["ui"] = Keep
  BY Outside DEF ServedInv, LogonForms, UiForms, Threads
<1>2. ServedOne("ui", scr["ui"], scr["ui"], word["ui"], seen["ui"], Keep, inflight)
  BY <1>1 DEF ServedInv, Threads
<1>3. scr["ui"] \notin Asks \cup LogonWaits \cup {"ui", "off", "start"}
  BY DEF Asks, LogonForms, LogonWaits, UiForms
<1>4. GoesOn("ui", scr["ui"], word["ui"], seen["ui"], Keep, inflight)
  BY <1>2, <1>3 DEF ServedOne
<1>5. word["ui"] \in Goes(scr["ui"])
  BY <1>3, <1>4 DEF GoesOn, Will
<1>6. QED
  BY <1>1, <1>2, <1>5 DEF ServedOne, Served, OneAtStrict, Will

LEMMA BeginServes ==
    ASSUME LogonInv, ServedInv, uiBegins
    PROVE  ServedInv'
<1>1. /\ scr["ui"] = "start" /\ scr' = [scr EXCEPT !["ui"] = "ui"]
      /\ UNCHANGED <<connection_, word, seen, post, inflight, chat, disturbed>>
  BY DEF uiBegins, conVars, chatVars
<1>2. scr'["ui"] = "ui" /\ scr'["logon"] = scr["logon"]
  BY <1>1 DEF LogonInv, LogonTypes, Threads
<1>3. post["ui"] = Keep /\ seen["ui"] = "none"
  BY <1>1, Outside DEF ServedInv, LogonForms, UiForms, Threads
<1>4. Shape'
  BY <1>1, <1>2, <1>3 DEF ServedInv, Shape, ChatOf, Threads
<1>5. ASSUME Up, "ui" \notin disturbed
      PROVE  ServedOne("ui", "ui", "ui", word["ui"], "none", Keep, inflight)
  <2>1. ServedOne("ui", "start", "start", word["ui"], "none", Keep, inflight)
    BY <1>1, <1>3, <1>5 DEF ServedInv, Threads
  <2>2. /\ Goes("start") = {} /\ Goes("ui") = {"UEXECUTE"} /\ "start" \notin LogonWaits
        /\ "start" \notin Strict /\ "ui" \notin Strict
    BY GoesOf DEF LogonWaits, Strict
  <2>3. \A e : Fits(e, "start") => Fits(e, "ui")
    BY <2>2, SuitsMore
  <2>4. Served("ui", "ui", word["ui"], "none", Keep, inflight)
    BY <2>1, <2>2, <2>3, ServedMoves DEF ServedOne
  <2>5. GoesOn("ui", "ui", word["ui"], "none", Keep, inflight)
    BY <2>1, <2>2 DEF ServedOne, Begins, GoesOn, Will
  <2>6. QED
    BY <2>4, <2>5 DEF ServedOne, Begins
<1>6. QED
  BY <1>1, <1>2, <1>3, <1>4, <1>5, UiMoves

\* A chat is opened: at a group's nothing but the answer that opens it was to
\* come.
LEMMA OpenServes ==
    ASSUME LogonInv, ServedInv, NEW c \in ChatScreens, openChat(c)
    PROVE  ServedInv'
<1>1. /\ scr["ui"] = (IF c = "chat" THEN "openChat" ELSE "openGchat")
      /\ scr' = [scr EXCEPT !["ui"] = c] /\ chat' = c /\ c \in {"chat", "gchat"}
      /\ word' = IF c = "gchat" THEN [word EXCEPT !["ui"] = "USAT"] ELSE word
      /\ UNCHANGED <<connection_, seen, post, inflight, disturbed>>
  BY DEF openChat, chatUnchanged, conVars, history, ChatScreens
<1>2. /\ scr'["ui"] = c /\ scr'["logon"] = scr["logon"] /\ word'["logon"] = word["logon"]
      /\ word'["ui"] = IF c = "gchat" THEN "USAT" ELSE word["ui"]
      /\ word["ui"] \in Words
  BY <1>1 DEF LogonInv, LogonTypes, Threads
<1>3. c \notin {"off", "start"} /\ scr["ui"] # "logon"
  BY <1>1
<1>4. post["ui"] = Keep
  BY <1>1, Outside DEF ServedInv, LogonForms, UiForms, Threads
<1>5. Shape'
  BY <1>1, <1>2, <1>4 DEF ServedInv, Shape, ChatOf, Threads
<1>6. ASSUME Up, "ui" \notin disturbed
      PROVE  ServedOne("ui", c, c, word'["ui"], seen["ui"], Keep, inflight)
  <2>1. /\ word["ui"] \in Goes(scr["ui"])
        /\ Served("ui", scr["ui"], word["ui"], seen["ui"], Keep, inflight)
        /\ scr["ui"] \in Strict => \A k \in 1 .. Len(inflight) :
              Own(inflight[k], "ui") => ~Fits(inflight[k], scr["ui"])
    BY <1>1, <1>6, Passing
  <2>2. c \notin Strict /\ scr["ui"] \notin LogonWaits /\ word'["ui"] \in Goes(c)
    BY <1>1, <1>2, GoesOf DEF Strict, LogonWaits, Prompts
  <2>3. \A k \in 1 .. Len(inflight) :
            Own(inflight[k], "ui") /\ Fits(inflight[k], scr["ui"]) => Fits(inflight[k], c)
    <3>1. CASE c = "gchat"
      BY <1>1, <2>1, <3>1 DEF Strict
    <3>2. CASE c = "chat"
      <4>1. Goes("openChat") = Goes("chat") /\ "openChat" \notin Strict /\ "chat" \notin Strict
        BY GoesOf DEF Prompts, Strict
      <4>2. \A e : Fits(e, "openChat") => Fits(e, "chat")
        BY <4>1, SuitsMore
      <4>3. QED
        BY <1>1, <3>2, <4>2
    <3>3. QED
      BY <1>1, <3>1, <3>2
  <2>4. Will(word'["ui"], Keep) \in Goes(c)
    BY <2>2 DEF Will
  <2>5. Served("ui", c, word'["ui"], seen["ui"], Keep, inflight)
    BY <2>1, <2>2, <2>3, <2>4, ServedMoves
  <2>6. QED
    BY <1>3, <2>4, <2>5 DEF ServedOne, GoesOn, Begins
<1>7. QED
  BY <1>1, <1>2, <1>3, <1>4, <1>5, <1>6, UiMoves

\* A chat is left.
LEMMA JoinServes ==
    ASSUME LogonInv, ServedInv, joinReader
    PROVE  ServedInv'
<1> DEFINE to == IF chat = "chat" THEN "seeFriend" ELSE "groupList"
           S == scr["ui"]
<1>1. /\ S \in {"quitChat", "quitGchat"} /\ scr' = [scr EXCEPT !["ui"] = to]
      /\ UNCHANGED <<connection_, word, seen, post, inflight, disturbed>>
  BY DEF joinReader, Quitting, chatUnchanged, conVars, history
<1>2. /\ S = "quitChat" => to = "seeFriend"
      /\ S = "quitGchat" => to = "groupList"
  BY DEF ServedInv, Shape, ChatOf
<1> HIDE DEF to
<1>3. scr'["ui"] = to /\ scr'["logon"] = scr["logon"]
  BY <1>1 DEF LogonInv, LogonTypes, Threads
<1>4. to \in {"seeFriend", "groupList"}
  BY <1>1, <1>2
<1>5. post["ui"] = Keep
  BY <1>1, Outside DEF ServedInv, LogonForms, UiForms, Threads
<1>6. Shape'
  BY <1>1, <1>3, <1>4, <1>5 DEF ServedInv, Shape, ChatOf, Threads
<1>7. ASSUME Up, "ui" \notin disturbed
      PROVE  ServedOne("ui", to, to, word["ui"], seen["ui"], Keep, inflight)
  <2>1. /\ word["ui"] \in Goes(S) /\ Served("ui", S, word["ui"], seen["ui"], Keep, inflight)
        /\ S \in Strict => \A k \in 1 .. Len(inflight) :
              Own(inflight[k], "ui") => ~Fits(inflight[k], S)
    BY <1>1, <1>7, Passing
  <2> HIDE DEF S
  <2>2. /\ S \notin LogonWaits /\ Goes(S) \subseteq Goes(to)
        /\ to \in Strict => S \in Strict
        /\ \A e : Fits(e, S) => S \in Strict \/ Fits(e, to)
    <3>1. /\ Goes("quitChat") \subseteq Goes("seeFriend")
          /\ Goes("quitGchat") \subseteq Goes("groupList")
      BY GoesOf
    <3>2. S \in {"quitChat", "quitGchat"}
      BY <1>1
    <3>3. \A e : Fits(e, "quitChat") => Fits(e, "seeFriend")
      BY <3>1, SuitsMore DEF Strict
    <3>4. QED
      BY <1>2, <3>1, <3>2, <3>3 DEF Strict, LogonWaits
  <2>3. Will(word["ui"], Keep) \in Goes(to)
    BY <2>1, <2>2 DEF Will
  <2>4. Served("ui", to, word["ui"], seen["ui"], Keep, inflight)
    BY <2>1, <2>2, <2>3, ServedMoves
  <2>5. QED
    BY <1>4, <2>3, <2>4 DEF ServedOne, GoesOn, Begins
<1>8. QED
  BY <1>1, <1>3, <1>4, <1>5, <1>6, <1>7, UiMoves

-----------------------------------------------------------------------------
(* A screen acts, the user logs out or deletes the account.                 *)

KindsOf(t) == IF t = "logon" THEN LogonKinds ELSE UiKinds

\* The answers to what is sent are for the thread that asks.
LEMMA SentConcerns ==
    ASSUME inflight \in Seq(Entry), \A k \in 1 .. Len(inflight) : Concerns(inflight[k]),
           NEW t \in Threads, NEW kinds \in Seq(KindsOf(t)),
           NEW R, R = Send(t, kinds), NEW j \in 1 .. Len(R)
    PROVE  Concerns(R[j])
<1>1. kinds \in Seq(LogonKinds \cup UiKinds)
  <2>1. KindsOf(t) \subseteq LogonKinds \cup UiKinds
    BY DEF KindsOf
  <2>2. QED
    BY <2>1, SeqMonotonic
<1>2. \/ j \in 1 .. Len(inflight) /\ R[j].who = inflight[j].who /\ R[j].left = inflight[j].left
      \/ \E i \in 1 .. Len(kinds) : R[j].who = t /\ R[j].left = Answers[kinds[i]]
  BY <1>1, SentOwn
<1>3. CASE j \in 1 .. Len(inflight) /\ R[j].who = inflight[j].who /\ R[j].left = inflight[j].left
  BY <1>3 DEF Concerns, Elsewhere, LoginLeft
<1>4. ASSUME NEW i \in 1 .. Len(kinds), R[j].who = t, R[j].left = Answers[kinds[i]]
      PROVE  Concerns(R[j])
  <2>1. kinds[i] \in KindsOf(t)
    OBVIOUS
  <2>2. \/ R[j].who = "logon" /\ kinds[i] \in LogonKinds
        \/ R[j].who = "ui" /\ kinds[i] \in UiKinds
    BY <1>4, <2>1 DEF KindsOf, Threads
  <2>3. QED
    BY <1>4, <2>2, KindConcerns
<1>5. QED
  BY <1>2, <1>3, <1>4

\* A thread that sends nothing waits for nothing any more.
LEMMA SentNothing ==
    ASSUME inflight \in Seq(Entry), NEW t \in Threads, NEW R, R = Send(t, <<>>),
           NEW j \in 1 .. Len(R)
    PROVE  ~Own(R[j], t)
<1>1. <<>> \in Seq(LogonKinds \cup UiKinds) /\ Len(<<>>) = 0 /\ Len(inflight) \in Nat
  OBVIOUS
<1>2. Own(R[j], t) => j - Len(inflight) \in 1 .. Len(<<>>) /\ j \in Nat
  BY <1>1, SentOwn
<1>3. \A x \in Int : x \notin 1 .. 0
  OBVIOUS
<1>4. QED
  BY <1>1, <1>2, <1>3

\* A thread that has asked is served where its answers suit.
LEMMA AskedServes ==
    ASSUME inflight \in Seq(Entry), Up, NEW t \in Threads, NEW kinds \in Seq(KindsOf(t)),
           NEW kind, Len(kinds) > 0, \A i \in 1 .. Len(kinds) : kinds[i] = kind,
           NEW to, to \in Strict => Len(kinds) = 1,
           NEW w, NEW p, Asking(kind, to, Will(w, p)),
           NEW R, R = Send(t, kinds)
    PROVE  Served(t, to, w, "none", p, R) /\ GoesOn(t, to, w, "none", p, R)
<1>1. kinds \in Seq(LogonKinds \cup UiKinds) /\ kind \in KindsOf(t) /\ 1 \in 1 .. Len(kinds)
  <2>1. KindsOf(t) \subseteq LogonKinds \cup UiKinds
    BY DEF KindsOf
  <2>2. kinds \in Seq(LogonKinds \cup UiKinds)
    BY <2>1, SeqMonotonic
  <2>3. Len(kinds) \in Nat /\ 1 \in 1 .. Len(kinds)
    OBVIOUS
  <2>4. kinds[1] \in KindsOf(t)
    BY <2>3
  <2>5. QED
    BY <2>2, <2>3, <2>4
<1>2. ASSUME NEW j \in 1 .. Len(R), Own(R[j], t)
      PROVE  /\ j - Len(inflight) \in 1 .. Len(kinds) /\ j \in Nat
             /\ R[j].left = Answers[kind]
  <2>1. /\ j - Len(inflight) \in 1 .. Len(kinds) /\ j \in Nat
        /\ R[j].left = Answers[kinds[j - Len(inflight)]]
    BY <1>1, <1>2, SentOwn
  <2>2. QED
    BY <2>1
<1>3. PICK m \in 1 .. Len(R) : Own(R[m], t) /\ R[m].left = Answers[kind]
  <2>1. PICK i \in 1 .. Len(kinds) : i = 1
    BY <1>1
  <2>2. \E j \in 1 .. Len(R) : Own(R[j], t) /\ R[j].left = Answers[kinds[i]]
    BY <1>1, SentOwn
  <2>3. QED
    BY <2>2
<1>4. ASSUME NEW j \in 1 .. Len(R), Own(R[j], t)
      PROVE  /\ kind = "login" => LoginLeft(R[j])
             /\ kind \notin {"delete", "login"} => ~Elsewhere(R[j])
             /\ <<>> \in R[j].left => kind \in {"message", "gmessage"}
  <2>1. \/ R[j].who = "logon" /\ kind \in LogonKinds
        \/ R[j].who = "ui" /\ kind \in UiKinds
    BY <1>1, <1>4 DEF KindsOf, Own, Threads
  <2>2. QED
    BY <1>2, <1>4, <2>1, KindConcerns
<1>5. CASE kind = "login" /\ to \in LogonWaits
  <2>1. \A j \in 1 .. Len(R) : Own(R[j], t) => Login(R[j], to) /\ <<>> \notin R[j].left
    BY <1>4, <1>5 DEF Login
  <2>2. to \notin Strict /\ to \in Asks
    BY <1>5 DEF LogonWaits, Strict, Asks
  <2>3. Served(t, to, w, "none", p, R)
    BY <2>1, <2>2 DEF Served, OwnSuits, NoneIsEnough, OneAtStrict
  <2>4. QED
    BY <1>3, <2>1, <2>2, <2>3 DEF GoesOn
<1>6. CASE /\ kind \in (LogonKinds \cup UiKinds) \ {"login", "delete"}
           /\ KindSuits(kind, to)
           /\ kind \in {"message", "gmessage"} => Will(w, p) \in Goes(to)
  <2>1. \A j \in 1 .. Len(R) : Own(R[j], t) => Fits(R[j], to)
    BY <1>2, <1>4, <1>6 DEF Fits, KindSuits
  <2>2. OwnSuits(t, to, R)
    BY <2>1 DEF OwnSuits
  <2>3. NoneIsEnough(t, to, w, p, R)
    BY <1>4, <1>6 DEF NoneIsEnough
  <2>4. OneAtStrict(t, to, w, "none", p, R)
    <3> SUFFICES ASSUME to \in Strict
                 PROVE  /\ Will(w, p) \notin Goes(to)
                        /\ \A j, l \in 1 .. Len(R) : Own(R[j], t) /\ Own(R[l], t) => j = l
      BY DEF OneAtStrict
    <3>1. Will(w, p) \notin Goes(to)
      BY DEF Asking
    <3>2. Len(kinds) = 1 /\ Len(inflight) \in Nat
      OBVIOUS
    <3>3. \A j \in 1 .. Len(R) : Own(R[j], t) => j = Len(inflight) + 1
      <4>1. ASSUME NEW j \in 1 .. Len(R), Own(R[j], t) PROVE j = Len(inflight) + 1
        <5>1. j - Len(inflight) \in 1 .. 1 /\ j \in Nat
          BY <1>2, <3>2, <4>1
        <5>2. QED
          BY <3>2, <5>1
      <4>2. QED
        BY <4>1
    <3>4. QED
      BY <3>1, <3>3
  <2>5. GoesOn(t, to, w, "none", p, R)
    BY <1>3, <2>1 DEF GoesOn, Asking
  <2>6. QED
    BY <2>2, <2>3, <2>4, <2>5 DEF Served
<1>7. QED
  BY <1>5, <1>6 DEF Asking

\* The other thread is served whatever this one sends.
LEMMA OtherServed ==
    ASSUME LogonInv, NEW t \in Threads, NEW u \in Threads, t # u,
           NEW kinds \in Seq(KindsOf(u)), NEW R, R = Send(u, kinds), NEW up,
           t = "logon" /\ up = "off" => scr["ui"] = "off",
           ServedOne(t, scr[t], scr["ui"], word[t], seen[t], post[t], inflight)
    PROVE  ServedOne(t, scr[t], up, word[t], seen[t], post[t], R)
<1>1. kinds \in Seq(LogonKinds \cup UiKinds) /\ inflight \in Seq(Entry)
  <2>1. KindsOf(u) \subseteq LogonKinds \cup UiKinds
    BY DEF KindsOf
  <2>2. QED
    BY <2>1, SeqMonotonic DEF LogonInv, LogonTypes
<1>2. Alike(t, inflight, R) /\ Brings(t, inflight, R) /\ StartsNoMore(inflight, R)
  BY <1>1, SentOther
<1>3. QED
  BY <1>2, OneAlike

\* A screen acts: it leaves with a word that the next place goes on with, or
\* with a request that is answered with one.
LEMMA ChooseServes ==
    ASSUME LogonInv, ServedInv, NEW t \in Threads, choose(t)
    PROVE  ServedInv'
<1> DEFINE S == scr[t]
<1>1. PICK r \in Screens[S] :
          /\ r.on = seen[t]
          /\ word' = IF r.pre = Keep THEN word ELSE [word EXCEPT ![t] = r.pre]
          /\ inflight' = IF r.pre = Keep /\ r.ask = <<>> THEN inflight
                         ELSE Send(t, r.ask)
          /\ post' = [post EXCEPT ![t] = r.post]
          /\ scr' = [scr EXCEPT ![t] = r.to]
  BY DEF choose
<1>2. /\ seen[t] # "none" /\ seen' = [seen EXCEPT ![t] = "none"]
      /\ UNCHANGED <<connection_, chat, disturbed>>
  BY DEF choose, conVars, chatVars, history
<1>3. /\ inflight \in Seq(Entry) /\ S \in DOMAIN Screens
      /\ word \in [Threads -> Words] /\ post \in [Threads -> Words \cup {Keep}]
      /\ seen \in [Threads -> Words \cup {Prompt, "none"}]
      /\ scr \in [Threads -> LogonPlaces \cup UiPlaces]
      /\ (t = "logon" => S \in LogonPlaces) /\ (t = "ui" => S \in UiPlaces)
  BY <1>2 DEF LogonInv, LogonTypes
<1>4. /\ t = "logon" => S \in LogonForms /\ LogonRow(S, r)
      /\ t = "ui" => S \in UiForms /\ UiRow(r)
  BY <1>3, RowsOf
<1>5. RowGoesOn(S, r)
  BY <1>3, ScreensGoOn
<1>6. /\ r.ask \in Seq(KindsOf(t)) /\ r.to \notin {"off", "start"} /\ S \notin {"off", "start"}
      /\ t = "ui" => S \notin LogonWaits
  <2>1. r.ask \in Requests(KindsOf(t))
    BY <1>4 DEF LogonRow, UiRow, Row, KindsOf, Threads
  <2>2. r.to \notin {"off", "start"} /\ S \notin {"off", "start"}
    BY <1>4 DEF LogonRow, UiRow, LogonForms, UiForms, Threads
  <2>3. t = "ui" => S \notin LogonWaits
    BY <1>4 DEF UiForms, LogonWaits
  <2>4. QED
    BY <2>1, <2>2, <2>3, RequestsAreSeqs
<1>7. /\ word'[t] = (IF r.pre = Keep THEN word[t] ELSE r.pre)
      /\ post'[t] = r.post /\ seen'[t] = "none" /\ scr'[t] = r.to
      /\ \A u \in Threads : u # t => /\ word'[u] = word[u] /\ post'[u] = post[u]
                                     /\ seen'[u] = seen[u] /\ scr'[u] = scr[u]
  BY <1>1, <1>2, <1>3
<1>8. post[t] = Keep
  BY <1>2 DEF ServedInv, Shape
<1> HIDE DEF S
<1>9. Shape'
  <2>1. \A k \in 1 .. Len(inflight) : Concerns(inflight[k])
    BY DEF ServedInv, Shape
  <2>2. \A j \in 1 .. Len(inflight') : Concerns(inflight'[j])
    <3>1. CASE inflight' = inflight
      BY <2>1, <3>1
    <3>2. CASE inflight' = Send(t, r.ask)
      BY <1>3, <1>6, <2>1, <3>2, SentConcerns
    <3>3. QED
      BY <1>1, <3>1, <3>2
  <2>3. \A u \in Threads : post'[u] # Keep =>
            seen'[u] = "none" /\ scr'[u] \in (LogonForms \cup UiForms) \ {"logon"}
    <3>1. r.post # Keep => r.to \in (LogonForms \cup UiForms) \ {"logon"}
      BY <1>5 DEF RowGoesOn
    <3>2. QED
      BY <1>7, <3>1 DEF ServedInv, Shape
  <2>4. ChatOf(scr'["ui"]) = ChatOf(scr["ui"])
    <3>1. ChatOf(r.to) = ChatOf(S)
      BY <1>5 DEF RowGoesOn
    <3>2. QED
      BY <1>7, <3>1 DEF Threads, S
  <2>5. QED
    BY <1>2, <2>2, <2>3, <2>4 DEF ServedInv, Shape
<1>10. ASSUME Up, t \notin disturbed
       PROVE  ServedOne(t, r.to, scr'["ui"], word'[t], "none", r.post, inflight')
  <2>1. ServedOne(t, S, scr["ui"], word[t], seen[t], Keep, inflight)
    BY <1>8, <1>10 DEF ServedInv, S
  <2>2. t = "logon" => scr["ui"] = "off"
    <3>1. t = "logon" => Quiet(scr, word, seen, post, inflight)
      BY <1>10 DEF LogonInv
    <3>2. QED
      BY <1>2, <3>1 DEF Quiet, Waiting
  <2>3. Served(t, S, word[t], seen[t], Keep, inflight) /\ word[t] \in Goes(S)
    <3>1. GoesOn(t, S, word[t], seen[t], Keep, inflight)
      BY <1>6, <2>1, <2>2 DEF ServedOne
    <3>2. QED
      BY <1>2, <2>1, <3>1 DEF ServedOne, GoesOn, Will
  <2>4. Begins(r.to, word'[t], inflight')
    BY <1>6 DEF Begins
  <2>5. CASE r.pre = Keep /\ r.ask = <<>>
    <3>1. /\ Goes(S) \subseteq Goes(r.to) /\ r.post = Keep
          /\ S \in Strict \/ (r.to \notin Strict /\ S # "leaveGroup")
          /\ S \in LogonWaits => r.to \in LogonWaits
      BY <1>5, <2>5 DEF RowGoesOn
    <3>2. S \in Strict => \A k \in 1 .. Len(inflight) : Own(inflight[k], t) => ~Fits(inflight[k], S)
      BY <1>2, <2>3 DEF Served, OneAtStrict
    <3>3. ASSUME NEW k \in 1 .. Len(inflight), Own(inflight[k], t), Fits(inflight[k], S)
          PROVE  Fits(inflight[k], r.to)
      <4>1. S \notin Strict
        BY <3>2, <3>3
      <4>2. QED
        BY <3>1, <3>3, <4>1, SuitsMore
    <3>4. inflight' = inflight /\ word'[t] = word[t]
      BY <1>1, <1>7, <2>5
    <3>5. Will(word[t], Keep) \in Goes(r.to)
      BY <2>3, <3>1 DEF Will
    <3>6. Served(t, r.to, word[t], "none", Keep, inflight)
      BY <2>3, <3>1, <3>2, <3>3, <3>5, ServedMoves
    <3>7. GoesOn(t, r.to, word[t], "none", Keep, inflight)
      BY <3>5 DEF GoesOn
    <3>8. QED
      BY <2>4, <3>1, <3>4, <3>6, <3>7 DEF ServedOne
  <2>6. CASE ~(r.pre = Keep /\ r.ask = <<>>)
    <3> DEFINE w == word'[t]
               R == inflight'
    <3>1. R = Send(t, r.ask)
      BY <1>1, <2>6
    <3>2. \/ r.ask = <<>> /\ Will(w, r.post) \in Goes(r.to)
          \/ \E kind \in LogonKinds \cup UiKinds :
                \/ r.ask = <<kind>> /\ Asking(kind, r.to, Will(w, r.post))
                \/ /\ r.ask = <<kind, kind>> /\ r.to \notin Strict
                   /\ Asking(kind, r.to, Will(w, r.post))
      BY <1>5, <1>7, <2>3, <2>6 DEF RowGoesOn
    <3>3. ASSUME r.ask = <<>>, Will(w, r.post) \in Goes(r.to)
          PROVE  Served(t, r.to, w, "none", r.post, R) /\ GoesOn(t, r.to, w, "none", r.post, R)
      <4> HIDE DEF R, w
      <4>1. \A j \in 1 .. Len(R) : ~Own(R[j], t)
        BY <1>3, <3>1, <3>3, SentNothing
      <4>2. QED
        BY <3>3, <4>1, ServedByNone DEF GoesOn
    <3>4. ASSUME NEW kind \in LogonKinds \cup UiKinds, Asking(kind, r.to, Will(w, r.post)),
                 r.ask = <<kind>> \/ (r.ask = <<kind, kind>> /\ r.to \notin Strict)
          PROVE  Served(t, r.to, w, "none", r.post, R) /\ GoesOn(t, r.to, w, "none", r.post, R)
      <4>1. /\ Len(r.ask) > 0 /\ \A i \in 1 .. Len(r.ask) : r.ask[i] = kind
            /\ r.to \in Strict => Len(r.ask) = 1
        <5>1. CASE r.ask = <<kind>>
          BY <5>1
        <5>2. CASE r.ask = <<kind, kind>> /\ r.to \notin Strict
          <6>1. Len(r.ask) = 2 /\ r.ask[1] = kind /\ r.ask[2] = kind
            BY <5>2
          <6>2. \A i \in 1 .. 2 : i = 1 \/ i = 2
            OBVIOUS
          <6>3. QED
            BY <5>2, <6>1, <6>2
        <5>3. QED
          BY <3>4, <5>1, <5>2
      <4> HIDE DEF R, w
      <4>2. QED
        BY <1>3, <1>6, <1>10, <3>1, <3>4, <4>1, AskedServes
    <3> HIDE DEF R, w
    <3>5. Served(t, r.to, w, "none", r.post, R) /\ GoesOn(t, r.to, w, "none", r.post, R)
      BY <3>2, <3>3, <3>4
    <3>6. QED
      BY <2>4, <3>5 DEF ServedOne, w, R
  <2>7. QED
    BY <2>5, <2>6
<1>11. ASSUME Up, NEW u \in Threads, u # t, u \notin disturbed
       PROVE  ServedOne(u, scr[u], scr'["ui"], word[u], seen[u], post[u], inflight')
  <2>1. ServedOne(u, scr[u], scr["ui"], word[u], seen[u], post[u], inflight)
    BY <1>11 DEF ServedInv
  <2>2. u = "logon" /\ scr'["ui"] = "off" => scr["ui"] = "off"
    BY <1>6, <1>7, <1>11 DEF Threads
  <2>3. CASE inflight' = inflight
    <3>1. ServedOne(u, scr[u], scr'["ui"], word[u], seen[u], post[u], inflight)
      BY <2>1, <2>2, AlikeItself, OneAlike
    <3>2. QED
      BY <2>3, <3>1
  <2>4. CASE inflight' = Send(t, r.ask)
    BY <1>6, <1>11, <2>1, <2>2, <2>4, OtherServed
  <2>5. QED
    BY <1>1, <2>3, <2>4
<1>12. ASSUME Up', NEW u \in Threads \ disturbed'
       PROVE  ServedOne(u, scr'[u], scr'["ui"], word'[u], seen'[u], post'[u], inflight')
  <2>1. Up /\ u \notin disturbed
    BY <1>2, <1>12 DEF Up
  <2>2. CASE u = t
    BY <1>7, <1>10, <2>1, <2>2
  <2>3. CASE u # t
    BY <1>7, <1>11, <2>1, <2>3
  <2>4. QED
    BY <2>2, <2>3
<1>13. QED
  BY <1>9, <1>12 DEF ServedInv

\* The logon thread waits while the ui thread runs.
LEMMA LogonWaited ==
    ASSUME LogonInv, "logon" \notin disturbed, scr["ui"] # "off"
    PROVE  /\ scr["logon"] \in LogonWaits
           /\ seen["logon"] = "none" /\ post["logon"] = Keep
BY DEF LogonInv, Quiet, Waiting

\* The ui thread ends: whoever logs in next finds its word, and the logon
\* thread goes on with what the other thread stores for it or the answer to
\* the deletion does.
LEMMA EndServes ==
    ASSUME LogonInv, ServedInv, logout \/ deleteUser
    PROVE  ServedInv'
<1> DEFINE S == scr["ui"]
           kinds == IF S = "delete" THEN <<"delete">> ELSE <<>>
<1>1. /\ UNCHANGED <<connection_, seen, post, chat, disturbed>>
      /\ inflight' = Send("ui", kinds) /\ S \in {"logout", "delete"}
      /\ logout => /\ S = "logout" /\ word' = [word EXCEPT !["logon"] = "EXECUTE"]
                   /\ scr' = [scr EXCEPT !["ui"] = "off",
                                         !["logon"] = IF @ = "asleep" THEN "test" ELSE @]
      /\ deleteUser => S = "delete" /\ word' = word /\ scr' = [scr EXCEPT !["ui"] = "off"]
  BY DEF logout, deleteUser, conVars, chatVars, history
<1>2. /\ inflight \in Seq(Entry) /\ word \in [Threads -> Words]
      /\ scr \in [Threads -> LogonPlaces \cup UiPlaces]
      /\ "ui" \in Threads /\ "logon" \in Threads
  BY DEF LogonInv, LogonTypes, Threads
<1>3. /\ scr'["ui"] = "off" /\ word'["ui"] = word["ui"]
      /\ logout => /\ word'["logon"] = "EXECUTE"
                   /\ scr'["logon"] = IF scr["logon"] = "asleep" THEN "test" ELSE scr["logon"]
      /\ deleteUser => word'["logon"] = word["logon"] /\ scr'["logon"] = scr["logon"]
  BY <1>1, <1>2
<1>4. kinds \in Seq(KindsOf("ui"))
  <2>1. <<>> \in Seq(UiKinds) /\ <<"delete">> \in Seq(UiKinds)
    BY ShortTuples DEF UiKinds
  <2>2. QED
    BY <2>1 DEF KindsOf
<1>5. post["ui"] = Keep
  BY <1>1, <1>2, Outside DEF ServedInv, LogonForms, UiForms
<1>6. \A j \in 1 .. Len(inflight') : Own(inflight'[j], "ui") =>
          Elsewhere(inflight'[j]) /\ <<>> \notin inflight'[j].left
  <2>1. CASE S = "logout"
    BY <1>1, <1>2, <2>1, SentNothing
  <2>2. ASSUME S = "delete", NEW j \in 1 .. Len(inflight'), Own(inflight'[j], "ui")
        PROVE  Elsewhere(inflight'[j]) /\ <<>> \notin inflight'[j].left
    <3>1. kinds = <<"delete">> /\ Len(<<"delete">>) = 1 /\ <<"delete">>[1] = "delete"
      BY <2>2
    <3>2. kinds \in Seq(LogonKinds \cup UiKinds)
      BY <3>1, ShortTuples DEF UiKinds
    <3> HIDE DEF kinds
    <3>3. /\ j - Len(inflight) \in 1 .. Len(kinds) /\ j \in Nat
          /\ inflight'[j].left = Answers[kinds[j - Len(inflight)]]
      BY <1>1, <1>2, <2>2, <3>2, SentOwn
    <3>4. inflight'[j].left = Answers["delete"]
      BY <3>1, <3>3
    <3>5. inflight'[j].who = "ui" /\ "delete" \in UiKinds
      BY <2>2 DEF Own, UiKinds
    <3>6. QED
      BY <3>4, <3>5, KindConcerns
  <2>3. QED
    BY <1>1, <2>1, <2>2
<1>7. S = "delete" /\ Up => \E j \in 1 .. Len(inflight') :
          inflight'[j].who = "ui" /\ Elsewhere(inflight'[j])
  <2> SUFFICES ASSUME S = "delete", Up
               PROVE  \E j \in 1 .. Len(inflight') :
                         inflight'[j].who = "ui" /\ Elsewhere(inflight'[j])
    OBVIOUS
  <2>1. kinds = <<"delete">> /\ Len(<<"delete">>) = 1 /\ 1 \in 1 .. 1
    OBVIOUS
  <2>2. kinds \in Seq(LogonKinds \cup UiKinds)
    BY <2>1, ShortTuples DEF UiKinds
  <2> HIDE DEF kinds
  <2>3. PICK i \in 1 .. Len(kinds) : i = 1
    BY <2>1
  <2>4. \E j \in 1 .. Len(inflight') :
            Own(inflight'[j], "ui") /\ inflight'[j].left = Answers[kinds[i]]
    <3>1. inflight \in Seq(Entry) /\ "ui" \in Threads /\ inflight' = Send("ui", kinds)
      BY <1>1, <1>2
    <3>2. Up => \A n \in 1 .. Len(kinds) : \E j \in 1 .. Len(inflight') :
                   Own(inflight'[j], "ui") /\ inflight'[j].left = Answers[kinds[n]]
      BY <3>1, <2>2, SentOwn, SMTT(30)
    <3>3. QED
      BY <3>2
  <2>5. QED
    BY <1>6, <2>4 DEF Own
<1> HIDE DEF kinds, S
<1>8. Shape'
  <2>1. \A j \in 1 .. Len(inflight') : Concerns(inflight'[j])
    BY <1>1, <1>2, <1>4, SentConcerns DEF ServedInv, Shape
  <2>2. \A u \in Threads : post'[u] # Keep =>
            seen'[u] = "none" /\ scr'[u] \in (LogonForms \cup UiForms) \ {"logon"}
    <3>1. post["logon"] # Keep => scr["logon"] # "asleep"
      BY Outside DEF ServedInv, LogonForms, UiForms, Threads
    <3>2. QED
      BY <1>1, <1>3, <1>5, <3>1 DEF ServedInv, Shape, Threads
  <2>3. QED
    BY <1>3, <2>1, <2>2 DEF Shape, ChatOf
<1>9. ASSUME Up, "ui" \notin disturbed
      PROVE  ServedOne("ui", "off", "off", word'["ui"], seen["ui"], post["ui"], inflight')
  <2>1. word["ui"] \in Goes(S)
    BY <1>1, <1>9, Passing DEF S
  <2>2. word'["ui"] = "UEXECUTE"
    BY <1>1, <1>3, <2>1, GoesOf
  <2>3. Served("ui", "off", word'["ui"], seen["ui"], post["ui"], inflight')
    BY <1>6 DEF Served, OwnSuits, NoneIsEnough, OneAtStrict, Fits
  <2>4. QED
    BY <2>2, <2>3 DEF ServedOne, Begins
<1>10. ASSUME Up, "logon" \notin disturbed
       PROVE  ServedOne("logon", scr'["logon"], "off", word'["logon"], seen["logon"],
                        post["logon"], inflight')
  <2>1. ServedOne("logon", scr["logon"], scr["ui"], word["logon"], seen["logon"], post["logon"],
                  inflight)
    BY <1>2, <1>10 DEF ServedInv
  <2>2. /\ scr["logon"] \in LogonWaits /\ seen["logon"] = "none" /\ post["logon"] = Keep
    BY <1>1, <1>10, LogonWaited DEF S
  <2>3. Served("logon", scr["logon"], word["logon"], seen["logon"], post["logon"], inflight')
    <3>1. ServedOne("logon", scr["logon"], scr["ui"], word["logon"], seen["logon"],
                    post["logon"], inflight')
      BY <1>1, <1>2, <1>4, <2>1, OtherServed DEF Threads
    <3>2. QED
      BY <3>1 DEF ServedOne
  <2>4. CASE deleteUser
    <3>1. GoesOn("logon", scr["logon"], word["logon"], seen["logon"], post["logon"], inflight')
      BY <1>1, <1>7, <1>10, <2>2, <2>4 DEF GoesOn
    <3>2. QED
      BY <1>3, <2>3, <2>4, <3>1 DEF ServedOne
  <2>5. CASE logout
    <3>1. scr'["logon"] \in LogonWaits
      BY <1>3, <2>2, <2>5 DEF LogonWaits
    <3>2. Will(word'["logon"], post["logon"]) \in Goes(scr'["logon"])
      BY <1>3, <2>2, <2>5, <3>1, GoesOf DEF Will
    <3>3. /\ scr'["logon"] \notin Strict /\ scr["logon"] \notin Strict
          /\ scr["logon"] # "leaveGroup" /\ Goes(scr["logon"]) \subseteq Goes(scr'["logon"])
      BY <2>2, <3>1, GoesOf DEF LogonWaits, Strict
    <3>4. \A e : Fits(e, scr["logon"]) => Fits(e, scr'["logon"])
      BY <3>3, SuitsMore
    <3>5. Served("logon", scr'["logon"], word'["logon"], seen["logon"], post["logon"], inflight')
      BY <2>3, <3>1, <3>2, <3>3, <3>4, ServedMoves
    <3>6. QED
      BY <3>2, <3>5 DEF ServedOne, GoesOn
  <2>6. QED
    BY <2>4, <2>5
<1>11. ASSUME Up', NEW u \in Threads \ disturbed'
       PROVE  ServedOne(u, scr'[u], scr'["ui"], word'[u], seen'[u], post'[u], inflight')
  <2>1. Up /\ u \notin disturbed
    BY <1>1, <1>11 DEF Up
  <2>2. CASE u = "ui"
    BY <1>1, <1>3, <1>9, <2>1, <2>2
  <2>3. CASE u = "logon"
    BY <1>1, <1>3, <1>10, <2>1, <2>3
  <2>4. QED
    BY <2>2, <2>3 DEF Threads
<1>12. QED
  BY <1>8, <1>11 DEF ServedInv

\* Every step keeps the threads served.
LEMMA ServedStep ==
    ASSUME LogonInv, ServedInv, [Next]_vars
    PROVE  ServedInv'
<1>1. CASE LogonNext
  <2>1. CASE skipMenu \/ testLogon \/ sleepLogon \/ wakeLogon
    <3>1. PICK from \in LogonWaits, to \in LogonWaits : LogonGoes(from, to)
      BY <2>1 DEF skipMenu, testLogon, sleepLogon, wakeLogon, LogonWaits
    <3>2. QED
      BY <3>1, LogonGoesServes
  <2>2. CASE exitSystem
    BY <2>2, ServedSame DEF exitSystem, clientVars, chatVars, history
  <2>3. QED
    BY <1>1, <2>1, <2>2, ConnectionServes DEF LogonNext
<1>2. CASE ScreenNext
  BY <1>2, LookServes, ChooseServes, StoreServes DEF ScreenNext
<1>3. CASE handleAnswers
  BY <1>3, AnswersServe
<1>4. CASE UiNext
  <2>1. CASE quitChat
    BY <2>1, ServedSame DEF quitChat, chatUnchanged, conVars, history
  <2>2. QED
    BY <1>4, <2>1, BeginServes, EndServes, JoinServes DEF UiNext
<1>5. CASE ReaderNext
  BY <1>5, ServedSame DEF ReaderNext, fetchMessages, testReader, sleepReader, wakeReader,
     resetReminder, ReaderGoes, chatUnchanged, conVars, history
<1>6. ASSUME NEW c \in ChatScreens, pushMessage(c) \/ remind(c) PROVE ServedInv'
  BY <1>6, ServedSame DEF pushMessage, remind, chatUnchanged, conVars, history
<1>7. CASE UNCHANGED vars
  BY <1>7, ServedSame DEF vars, conVars, clientVars
<1>8. QED
  BY <1>1, <1>2, <1>3, <1>4, <1>5, <1>6, <1>7, OpenServes DEF Next, ChatNext

\* Both hold throughout.
LEMMA ServedAlways == Spec => [](LogonInv /\ ServedInv)
<1>1. Init => LogonInv /\ ServedInv
  BY LogonInit, ServedInit
<1>2. LogonInv /\ ServedInv /\ [Next]_vars => (LogonInv /\ ServedInv)'
  BY LogonStep, ServedStep
<1>3. QED
  BY <1>1, <1>2, PTL DEF Spec

\* A screen that reads a word it does not go on with has an answer coming while
\* the connection is up, unless an answer came early, late, out of order or
\* refused the request (the loops on getUserState in UserUi.cc and on getState
\* in logOn.h).
THEOREM WaitersAreAnswered == Spec => []WaitIsAnswered
<1>1. ASSUME LogonInv, ServedInv, NEW t \in Threads, Waits(t), Up, t \notin disturbed
      PROVE  \E k \in DOMAIN inflight :
                \/ inflight[k].who = t
                \/ \E s \in inflight[k].left : \E i \in DOMAIN s : WordOf(s[i]) = t
  <2>1. /\ inflight \in Seq(Entry)
        /\ t = "logon" => scr[t] \in LogonPlaces
        /\ t = "ui" => scr[t] \in UiPlaces
    BY <1>1 DEF LogonInv, LogonTypes
  <2>2. DOMAIN inflight = 1 .. Len(inflight)
        /\ \A k \in 1 .. Len(inflight) : inflight[k].who \in Threads
    <3>1. /\ Len(inflight) \in Nat /\ DOMAIN inflight = 1 .. Len(inflight)
          /\ \A k \in 1 .. Len(inflight) : inflight[k] \in Entry
      BY <2>1
    <3>2. QED
      BY <3>1 DEF Entry
  <2>3. scr[t] \in LogonForms \cup UiForms
    <3>1. scr[t] \in DOMAIN Screens
      BY <1>1 DEF Waits
    <3>2. scr[t] \in LogonPlaces \/ scr[t] \in UiPlaces
      BY <2>1 DEF Threads
    <3>3. QED
      BY <3>1, <3>2, RowsOf
  <2>4. scr[t] \notin {"off", "start"}
    BY <2>3 DEF LogonForms, UiForms
  <2>5. ServedOne(t, scr[t], scr["ui"], word[t], seen[t], post[t], inflight)
    BY <1>1 DEF ServedInv
  <2>6. GoesOn(t, scr[t], word[t], seen[t], post[t], inflight)
    BY <1>1, <2>4, <2>5 DEF ServedOne, Waits
  <2>7. Will(word[t], post[t]) \notin Goes(scr[t])
    <3>1. Will(word[t], post[t]) = word[t] /\ scr[t] \in DOMAIN Screens
      BY <1>1 DEF Waits, Will
    <3>2. \A r \in Screens[scr[t]] : r.on \notin {word[t], Prompt}
      BY <1>1 DEF Waits
    <3>3. QED
      BY <3>1, <3>2, ScreensGoOn
  <2>8. CASE \E k \in 1 .. Len(inflight) : Own(inflight[k], t)
    BY <2>2, <2>8 DEF Own
  <2>9. ASSUME NEW k \in 1 .. Len(inflight), inflight[k].who # t, Elsewhere(inflight[k])
        PROVE  \E s \in inflight[k].left : \E i \in DOMAIN s : WordOf(s[i]) = t
    <3> DEFINE x == IF inflight[k].who = "ui" THEN "EXECUTE" ELSE "UEXECUTE"
               s == <<x>>
    <3>1. s \in inflight[k].left /\ Len(s) = 1 /\ DOMAIN s = {1} /\ s[1] = x
      BY <2>9 DEF Elsewhere
    <3>2. WordOf(x) = t
      BY <2>2, <2>9 DEF WordOf, Threads
    <3> HIDE DEF s, x
    <3>3. QED
      BY <3>1, <3>2
  <2>10. QED
    BY <2>2, <2>6, <2>7, <2>8, <2>9 DEF GoesOn
<1>2. LogonInv /\ ServedInv => WaitIsAnswered
  BY <1>1 DEF WaitIsAnswered
<1>3. QED
  BY <1>2, ServedAlways, PTL

=============================================================================
