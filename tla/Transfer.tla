------------------------------ MODULE Transfer ------------------------------
(***************************************************************************)
(* The file server (ftp/server.cc, ftp/handleFile.cc) and the clients'     *)
(* side of it (client/sendFile.cc, fileSystem in client/UserUi.cc).        *)
(*                                                                         *)
(* Each client's connection has an IO thread of the server, but all of     *)
(* them use one handleFile and one MessageSplitter without a lock: the     *)
(* connection to answer on (ftpConn), the listening socket of the transfer *)
(* (acceptSocket_), the names given to uploads (fileTimeMap) and the       *)
(* messages read so far (megser) are shared.  A thread that waits for a    *)
(* data connection, or reads from one, handles nothing else.               *)
(*                                                                         *)
(* Every transfer is one operation.  The port that is opened for it is     *)
(* told to one client only, so listening socket, data connection and       *)
(* operation have one number.  A file is a sequence of two chunks.  The    *)
(* races on the shared objects are ordered choices: an append to megser    *)
(* and a removal from it are atomic here.                                  *)
(***************************************************************************)
EXTENDS Naturals, Sequences

CONSTANTS
    Clients,
    Names,       \* what users call their files
    MaxOps,      \* bound: transfers
    MaxFaults    \* bound: failures of the environment

Ops == 1..MaxOps
None == 0

ASSUME TransferAssumption ==
    /\ MaxOps \in Nat \ {0}
    /\ Clients # {} /\ None \notin Clients
Files == Names \X (0..MaxOps)    \* a name with "(1)" appended k times
NoFile == <<"", 0>>              \* what fileTimeMap gives for a new key

VARIABLES
    op,             \* the transfers asked for: who, kind, name
    inbox,          \* per client: messages sent and not yet read
    megser,         \* messages split off or still to be, of all clients
    ftpConn,        \* handleFile::ftpConn, a client
    acceptSocket_,  \* handleFile::acceptSocket_, an operation or None
    socket,         \* kernel: the listening socket of each operation
    fileTimeMap,
    exists, disk,   \* the uploads directory
    thread,         \* the IO thread of each client's connection
    replies,        \* messages to clients, handled by pool tasks in any order
    link,           \* the data connection of each operation
    copy,           \* what a download has written
    announced,      \* FILE records and messages sent to the chat server
    up, gone,       \* the server runs; clients that have crashed
    faults,
    failed,         \* history: clients a failure has hit
    confused        \* history: clients that were mistaken for one another

vars == <<op, inbox, megser, ftpConn, acceptSocket_, socket, fileTimeMap, exists,
          disk, thread, replies, link, copy, announced, up, gone, faults, failed,
          confused>>
history == <<failed, confused>>

\* A data connection with nothing in it.
Empty(st, by) == [st |-> st, by |-> by, n |-> 0, sent |-> <<>>, sentAll |-> FALSE,
                  back |-> <<>>, backAll |-> FALSE]
NoLink == Empty("none", None)

Idle == [pc |-> "idle", job |-> None, listen |-> None, file |-> NoFile, pos |-> 0]

Who(o) == op[o].who
Chunks(c, o) == <<<<c, o, 1>>, <<c, o, 2>>>>    \* what c uploads for o
Whole(o) == Chunks(Who(o), o)

\* A file has been uploaded before, as operation 1.
Init ==
    LET c == CHOOSE c \in Clients : TRUE
    IN  \E n \in Names :
        /\ op = [o \in Ops |-> IF o = 1 THEN [who |-> c, kind |-> "stor", file |-> <<n, 0>>]
                               ELSE [who |-> None, kind |-> "none", file |-> NoFile]]
        /\ inbox = [d \in Clients |-> <<>>]
        /\ megser = <<>>
        /\ ftpConn = None /\ acceptSocket_ = None
        /\ socket = [o \in Ops |-> "raw"]
        /\ fileTimeMap = [d \in Clients |-> NoFile]
        /\ exists = {<<n, 0>>}
        /\ disk = [f \in Files |-> IF f = <<n, 0>> THEN Whole(1) ELSE <<>>]
        /\ thread = [d \in Clients |-> Idle]
        /\ replies = {}
        /\ link = [o \in Ops |-> NoLink]
        /\ copy = [o \in Ops |-> <<>>]
        /\ announced = {[op |-> 1, file |-> <<n, 0>>]}
        /\ up = TRUE /\ gone = {} /\ faults = 0
        /\ failed = {} /\ confused = {}

\* Two clients are mistaken for one another.
Mixed(c, d) == IF c = d THEN confused ELSE confused \cup {c, d}

Reply(kind, o, f) ==
    replies \cup (IF ftpConn \in gone THEN {}
                  ELSE {[to |-> ftpConn, kind |-> kind, op |-> o, file |-> f]})

Goes(c, pc) == thread' = [thread EXCEPT ![c].pc = pc]
Ends(c) == thread' = [thread EXCEPT ![c] = [Idle EXCEPT !.pc = "next"]]
At(c, pc) == up /\ thread[c].pc = pc
Job(c) == thread[c].job

-----------------------------------------------------------------------------
(* What a user asks for, and failures.  Bound: once two clients have been   *)
(* mixed up nothing new is asked for, nothing fails by itself, and no data  *)
(* connection is made.                                                      *)

Fails == confused = {} /\ faults < MaxFaults /\ faults' = faults + 1

NextOp == {o \in Ops : op[o].kind = "none" /\ \A p \in 1..(o - 1) : op[p].kind # "none"}

ask(c, kind, f, messages) ==
    \E o \in NextOp :
        /\ c \notin gone /\ up /\ confused = {}
        /\ op' = [op EXCEPT ![o] = [who |-> c, kind |-> kind, file |-> f]]
        /\ inbox' = [inbox EXCEPT ![c] = @ \o [i \in DOMAIN messages |->
                                                  [type |-> messages[i], op |-> o]]]
        /\ UNCHANGED <<megser, ftpConn, acceptSocket_, socket, fileTimeMap, exists,
                       disk, thread, replies, link, copy, announced, up, gone, faults,
                       history>>

\* fileSystem sends the upload and its announcement one after the other.
upload(c) == \E n \in Names : ask(c, "stor", <<n, 0>>, <<"stor", "info">>)

\* look has found a FILE record of the name.
download(c) ==
    \E f \in {a.file : a \in announced} : ask(c, "retr", f, <<"retr">>)

-----------------------------------------------------------------------------
(* The server's message callback.                                           *)

\* Whatever has arrived is appended; ftpConn is this connection from now on.
messageCallback(c) ==
    /\ At(c, "idle")
    /\ \E n \in 1..Len(inbox[c]) :
        /\ megser' = megser \o SubSeq(inbox[c], 1, n)
        /\ inbox' = [inbox EXCEPT ![c] = SubSeq(@, n + 1, Len(@))]
    /\ ftpConn' = c
    /\ Goes(c, "next")
    /\ UNCHANGED <<op, acceptSocket_, socket, fileTimeMap, exists, disk, replies,
                   link, copy, announced, up, gone, faults, history>>

\* The thread takes the first message, also one of another connection.
nextMessage(c) ==
    /\ At(c, "next")
    /\ IF megser = <<>>
       THEN thread' = [thread EXCEPT ![c] = Idle] /\ UNCHANGED <<megser, confused>>
       ELSE /\ megser' = Tail(megser)
            /\ thread' = [thread EXCEPT ![c].pc = Head(megser).type,
                                        ![c].job = Head(megser).op]
            /\ confused' = Mixed(c, Who(Head(megser).op))
    /\ UNCHANGED <<op, inbox, ftpConn, acceptSocket_, socket, fileTimeMap, exists,
                   disk, replies, link, copy, announced, up, gone, faults, failed>>

-----------------------------------------------------------------------------
(* handleInput: "stor".                                                     *)

\* The first name that does not exist, kept for the connection in ftpConn.
FreeName(f) ==
    <<f[1], CHOOSE k \in 0..MaxOps :
                /\ <<f[1], k>> \notin exists
                /\ \A j \in 0..(k - 1) : <<f[1], j>> \in exists>>

createFile(c) ==
    /\ At(c, "stor")
    /\ LET name == FreeName(op[Job(c)].file)
       IN  /\ thread' = [thread EXCEPT ![c].pc = "open", ![c].file = name]
           /\ fileTimeMap' = [fileTimeMap EXCEPT ![ftpConn] = name]
    /\ confused' = Mixed(c, ftpConn)
    /\ UNCHANGED <<op, inbox, megser, ftpConn, acceptSocket_, socket, exists, disk,
                   replies, link, copy, announced, up, gone, faults, failed>>

\* O_CREAT and O_TRUNC: a file made since the name was chosen is emptied.
openFile(c) ==
    /\ At(c, "open")
    /\ LET f == thread[c].file
       IN  /\ exists' = exists \cup {f}
           /\ disk' = [disk EXCEPT ![f] = <<>>]
           /\ confused' = IF f \in exists
                          THEN confused \cup {c} \cup {Who(o) : o \in
                                  {o \in Ops : op[o].file[1] = f[1]}}
                          ELSE confused
    /\ Goes(c, "port")
    /\ UNCHANGED <<op, inbox, megser, ftpConn, acceptSocket_, socket, fileTimeMap,
                   replies, link, copy, announced, up, gone, faults, failed>>

openFails(c) ==
    /\ At(c, "open")
    /\ Fails
    /\ replies' = Reply("550", Job(c), NoFile)
    /\ failed' = failed \cup {c}
    /\ confused' = Mixed(c, ftpConn)
    /\ Ends(c)
    /\ UNCHANGED <<op, inbox, megser, ftpConn, acceptSocket_, socket, fileTimeMap,
                   exists, disk, link, copy, announced, up, gone>>

-----------------------------------------------------------------------------
(* handleInput: "retr", and what both share.                                *)

\* A file that cannot be opened is not answered.
getFilefd(c) ==
    /\ At(c, "retr")
    /\ LET f == op[Job(c)].file
       IN  IF f \in exists
           THEN thread' = [thread EXCEPT ![c].pc = "port", ![c].file = f]
           ELSE Ends(c)
    /\ UNCHANGED <<op, inbox, megser, ftpConn, acceptSocket_, socket, fileTimeMap,
                   exists, disk, replies, link, copy, announced, up, gone, faults,
                   history>>

\* The new socket replaces the one in acceptSocket_, which closes that one.
connectPort(c) ==
    /\ At(c, "port")
    /\ acceptSocket_' = Job(c)
    /\ Goes(c, "bind")
    /\ UNCHANGED <<op, inbox, megser, ftpConn, socket, fileTimeMap, exists, disk,
                   replies, link, copy, announced, up, gone, faults, history>>

\* bind, listen and accept use the socket that is there now.  A socket that is
\* bound already, and one that does not listen, end the server (LOG_FATAL).
bindAddress(c) ==
    /\ At(c, "bind")
    /\ up' = (socket[acceptSocket_] = "raw")
    /\ socket' = [socket EXCEPT ![acceptSocket_] = "bound"]
    /\ confused' = Mixed(c, Who(acceptSocket_))
    /\ Goes(c, "listen")
    /\ UNCHANGED <<op, inbox, megser, ftpConn, acceptSocket_, fileTimeMap, exists,
                   disk, replies, link, copy, announced, gone, faults, failed>>

\* listen binds a socket that is not bound yet.
listenPort(c) ==
    /\ At(c, "listen")
    /\ socket' = [socket EXCEPT ![acceptSocket_] = "listening"]
    /\ confused' = Mixed(c, Who(acceptSocket_))
    /\ Goes(c, "tell")
    /\ UNCHANGED <<op, inbox, megser, ftpConn, acceptSocket_, fileTimeMap, exists,
                   disk, replies, link, copy, announced, up, gone, faults, failed>>

\* Mutant: the port of a download is not told.
tellPortNot(c) ==
    /\ At(c, "tell")
    /\ replies' = IF op[Job(c)].kind = "stor" THEN Reply("150", Job(c), thread[c].file)
                  ELSE replies
    /\ confused' = Mixed(c, ftpConn)
    /\ Goes(c, "ported")
    /\ UNCHANGED <<op, inbox, megser, ftpConn, acceptSocket_, socket, fileTimeMap,
                   exists, disk, link, copy, announced, up, gone, faults, failed>>

tellPort(c) ==
    /\ At(c, "tell")
    /\ replies' = Reply(IF op[Job(c)].kind = "stor" THEN "150" ELSE "151",
                        Job(c), thread[c].file)
    /\ confused' = Mixed(c, ftpConn)
    /\ Goes(c, "ported")
    /\ UNCHANGED <<op, inbox, megser, ftpConn, acceptSocket_, socket, fileTimeMap,
                   exists, disk, link, copy, announced, up, gone, faults, failed>>

acceptBegins(c) ==
    /\ At(c, "ported")
    /\ up' = (socket[acceptSocket_] = "listening")
    /\ thread' = [thread EXCEPT ![c].pc = "accept", ![c].listen = acceptSocket_]
    /\ confused' = Mixed(c, Who(acceptSocket_))
    /\ UNCHANGED <<op, inbox, megser, ftpConn, acceptSocket_, socket, fileTimeMap,
                   exists, disk, replies, link, copy, announced, gone, faults, failed>>

accept1(c) ==
    LET s == thread[c].listen
    IN  /\ At(c, "accept")
        /\ link[s].st = "backlog"
        /\ link' = [link EXCEPT ![s].st = "open"]
        /\ Goes(c, IF op[Job(c)].kind = "stor" THEN "reading" ELSE "sending")
        /\ UNCHANGED <<op, inbox, megser, ftpConn, acceptSocket_, socket, fileTimeMap,
                       exists, disk, replies, copy, announced, up, gone, faults,
                       history>>

\* Mutant: an upload ends when there is nothing to read at the moment.
storEarly(c) ==
    LET s == thread[c].listen
        f == thread[c].file
    IN  /\ At(c, "reading")
        /\ \/ \E n \in 1..Len(link[s].sent) :
                 /\ disk' = [disk EXCEPT ![f] = @ \o SubSeq(link[s].sent, 1, n)]
                 /\ link' = [link EXCEPT ![s].sent = SubSeq(@, n + 1, Len(@))]
              /\ UNCHANGED thread
           \/ /\ link[s].sent = <<>>
              /\ Ends(c)
              /\ link' = [link EXCEPT ![s] = Empty("closed", link[s].by)]
              /\ UNCHANGED disk
        /\ UNCHANGED <<op, inbox, megser, ftpConn, acceptSocket_, socket, fileTimeMap,
                       exists, replies, copy, announced, up, gone, faults, history>>

\* stor: one read and write; the end of the stream ends the upload.
stor(c) ==
    LET s == thread[c].listen
        f == thread[c].file
    IN  /\ At(c, "reading")
        /\ \/ \E n \in 1..Len(link[s].sent) :
                 /\ disk' = [disk EXCEPT ![f] = @ \o SubSeq(link[s].sent, 1, n)]
                 /\ link' = [link EXCEPT ![s].sent = SubSeq(@, n + 1, Len(@))]
              /\ UNCHANGED thread
           \/ /\ link[s].sent = <<>> /\ link[s].sentAll
              /\ Ends(c)
              /\ link' = [link EXCEPT ![s] = Empty("closed", link[s].by)]
              /\ UNCHANGED disk
        /\ UNCHANGED <<op, inbox, megser, ftpConn, acceptSocket_, socket, fileTimeMap,
                       exists, replies, copy, announced, up, gone, faults, history>>

\* retr: one sendfile; a peer that is gone ends it.
retr(c) ==
    LET s == thread[c].listen
        f == disk[thread[c].file]
        pos == thread[c].pos
        more == pos < Len(f) /\ link[s].by \notin gone
        last == pos + 1 >= Len(f) \/ ~more
    IN  /\ At(c, "sending")
        /\ link' = [link EXCEPT ![s].back = IF more THEN Append(@, f[pos + 1]) ELSE @,
                                ![s].backAll = last]
        /\ IF last THEN Ends(c) ELSE thread' = [thread EXCEPT ![c].pos = pos + 1]
        /\ UNCHANGED <<op, inbox, megser, ftpConn, acceptSocket_, socket, fileTimeMap,
                       exists, disk, replies, copy, announced, up, gone, faults,
                       history>>

-----------------------------------------------------------------------------
(* handleInput: "info" and "cloe".                                          *)

info(c) ==
    /\ At(c, "info")
    /\ replies' = Reply("999", Job(c), fileTimeMap[ftpConn])
    /\ confused' = Mixed(c, ftpConn)
    /\ Ends(c)
    /\ UNCHANGED <<op, inbox, megser, ftpConn, acceptSocket_, socket, fileTimeMap,
                   exists, disk, link, copy, announced, up, gone, faults, failed>>

\* The descriptor is closed here and again by the Socket's destructor, whose
\* failing close is a LOG_FATAL: the server aborts.
cloe(c) ==
    /\ At(c, "cloe")
    /\ up' = (acceptSocket_ = None)
    /\ Ends(c)
    /\ UNCHANGED <<op, inbox, megser, ftpConn, acceptSocket_, socket, fileTimeMap,
                   exists, disk, replies, link, copy, announced, gone, faults, history>>

\* A message of another type is ignored.
otherMessage(c) ==
    /\ At(c, "550")
    /\ Ends(c)
    /\ UNCHANGED <<op, inbox, megser, ftpConn, acceptSocket_, socket, fileTimeMap,
                   exists, disk, replies, link, copy, announced, up, gone, faults,
                   history>>

-----------------------------------------------------------------------------
(* The client's tasks: recvMeg.                                             *)

clientUnchanged == <<op, megser, ftpConn, acceptSocket_, socket, fileTimeMap, exists,
                     disk, thread, up, gone, confused>>

\* 150 and 151: the local file is opened.  A client that was told another's
\* transfer may well not have the file.
openLocal(r) ==
    /\ up /\ r.kind \in {"150", "151"}
    /\ link' = [link EXCEPT ![r.op].st = "opening", ![r.op].by = r.to]
    /\ replies' = replies \ {r}
    /\ UNCHANGED <<inbox, copy, announced, faults, failed, clientUnchanged>>

\* The client's own createFile complains to the server before recvMeg does.
Excuse(r) ==
    LET cloe1 == <<[type |-> "cloe", op |-> r.op]>>
    IN  IF r.kind = "151" THEN <<[type |-> "550", op |-> r.op]>> \o cloe1 ELSE cloe1

openLocalFails(r) ==
    /\ up /\ r.kind \in {"150", "151"}
    /\ IF r.to = Who(r.op) THEN Fails
       ELSE UNCHANGED faults
    /\ inbox' = [inbox EXCEPT ![r.to] = @ \o Excuse(r)]
    /\ failed' = failed \cup {r.to}
    /\ replies' = replies \ {r}
    /\ UNCHANGED <<link, copy, announced, clientUnchanged>>

\* 999: the message to the chat and the FILE record.
sendmain(r) ==
    /\ up /\ r.kind = "999"
    /\ announced' = announced \cup {[op |-> r.op, file |-> r.file]}
    /\ replies' = replies \ {r}
    /\ UNCHANGED <<inbox, link, copy, faults, failed, clientUnchanged>>

\* 550 is printed.
printError(r) ==
    /\ up /\ r.kind = "550"
    /\ replies' = replies \ {r}
    /\ UNCHANGED <<inbox, link, copy, announced, faults, failed, clientUnchanged>>

\* A listening socket lives on while a thread waits in accept on it.
Listening(s) ==
    \/ acceptSocket_ = s
    \/ \E c \in Clients : thread[c].pc = "accept" /\ thread[c].listen = s

Runs(o, st) == up /\ link[o].st \in st /\ link[o].by \notin gone

linkUnchanged == <<inbox, replies, announced, faults, failed, clientUnchanged>>

connectData(o) ==
    /\ confused = {}
    /\ Runs(o, {"opening"})
    /\ link' = [link EXCEPT ![o].st = IF Listening(o) THEN "backlog" ELSE "closed"]
    /\ UNCHANGED <<copy, linkUnchanged>>

\* Mutant: the client does not shut its stream down.
sendDataOpen(o) ==
    /\ Runs(o, {"backlog", "open"})
    /\ op[o].kind = "stor" /\ ~link[o].sentAll /\ link[o].n < 2
    /\ link' = IF link[o].st = "backlog" /\ ~Listening(o)
               THEN [link EXCEPT ![o].st = "closed"]
               ELSE LET n == link[o].n + 1
                    IN  [link EXCEPT ![o].n = n,
                             ![o].sent = Append(@, Chunks(link[o].by, o)[n])]
    /\ UNCHANGED <<copy, linkUnchanged>>

\* stor of the client, to the end of its file and a shutdown.
sendData(o) ==
    /\ Runs(o, {"backlog", "open"})
    /\ op[o].kind = "stor" /\ ~link[o].sentAll
    /\ link' = IF link[o].st = "backlog" /\ ~Listening(o)
               THEN [link EXCEPT ![o].st = "closed"]
               ELSE LET n == link[o].n + 1
                    IN  [link EXCEPT ![o].n = n, ![o].sentAll = (n = 2),
                             ![o].sent = Append(@, Chunks(link[o].by, o)[n])]
    /\ UNCHANGED <<copy, linkUnchanged>>

\* retr of the client, until the stream ends.
readData(o) ==
    /\ Runs(o, {"backlog", "open"})
    /\ op[o].kind = "retr"
    /\ \/ /\ link[o].st = "backlog" /\ ~Listening(o)
          /\ link' = [link EXCEPT ![o].st = "closed"]
          /\ UNCHANGED copy
       \/ /\ link[o].back # <<>>
          /\ copy' = [copy EXCEPT ![o] = Append(@, Head(link[o].back))]
          /\ link' = [link EXCEPT ![o].back = Tail(@)]
       \/ /\ link[o].back = <<>> /\ link[o].backAll
          /\ link' = [link EXCEPT ![o] = Empty("read", link[o].by)]
          /\ UNCHANGED copy
    /\ UNCHANGED linkUnchanged

\* A client ends: its streams end, and what it sent may or may not arrive.
\* Bound: while it runs a transfer.
crash(c) ==
    /\ up /\ c \notin gone
    /\ \E o \in Ops : link[o].by = c /\ link[o].st \in {"opening", "backlog", "open"}
    /\ Fails
    /\ gone' = gone \cup {c}
    /\ failed' = failed \cup {c} \cup {Who(o) : o \in {o \in Ops : link[o].by = c}}
    /\ \E n \in 0..Len(inbox[c]) : inbox' = [inbox EXCEPT ![c] = SubSeq(@, 1, n)]
    /\ replies' = {r \in replies : r.to # c}
    /\ link' = [o \in Ops |-> IF link[o].by = c THEN [link[o] EXCEPT !.sentAll = TRUE]
                              ELSE link[o]]
    /\ UNCHANGED <<op, megser, ftpConn, acceptSocket_, socket, fileTimeMap, exists,
                   disk, thread, copy, announced, up, confused>>

-----------------------------------------------------------------------------
\* One step of the thread of a connection, other than a failure.
ServerStep(c) ==
    \/ messageCallback(c) \/ nextMessage(c)
    \/ createFile(c) \/ openFile(c) \/ getFilefd(c)
    \/ connectPort(c) \/ bindAddress(c) \/ listenPort(c) \/ tellPort(c)
    \/ acceptBegins(c) \/ accept1(c) \/ stor(c) \/ retr(c)
    \/ info(c) \/ cloe(c) \/ otherMessage(c)

TaskStep(o) ==
    \/ \E r \in {r \in replies : r.op = o} :
          openLocal(r) \/ sendmain(r) \/ printError(r)
    \/ connectData(o) \/ sendData(o) \/ readData(o)

Failure ==
    \/ \E c \in Clients : openFails(c) \/ crash(c)
    \/ \E r \in replies : openLocalFails(r)

Next ==
    \/ \E c \in Clients : upload(c) \/ download(c) \/ ServerStep(c)
    \/ \E o \in Ops : TaskStep(o)
    \/ Failure

Fairness ==
    /\ \A c \in Clients : WF_vars(ServerStep(c))
    /\ \A o \in Ops : WF_vars(TaskStep(o))

Spec == Init /\ [][Next]_vars /\ Fairness

-----------------------------------------------------------------------------
(* Properties.                                                              *)

Hit(c) == c \in failed \cup confused

\* A file that is announced is whole on the server, and a download that has
\* ended has the whole of one upload, unless a failure hit the clients or the
\* server took one of them for another (handleFile.cc:50-84).
FilesIntact ==
    /\ \A a \in announced : Hit(Who(a.op)) \/ disk[a.file] = Whole(a.op)
    /\ \A o \in Ops : link[o].st = "read" =>
          \/ Hit(Who(o))
          \/ \E a \in announced :
                /\ a.file = op[o].file
                /\ Hit(Who(a.op)) \/ copy[o] = Whole(a.op)

Coming(o) ==
    \/ \E r \in replies : r.op = o /\ r.kind \in {"150", "151"}
    \/ link[o].st \in {"opening", "backlog"}

\* A thread that waits in accept has its data connection coming, so that its
\* client's later messages are read, unless a failure hit the client or it
\* was taken for another (handleFile.cc:59, 78); and without such a mistake
\* nothing aborts the server: no client's "cloe" (handleFile.cc:87), and no
\* use of a socket that another thread has bound, or put there unbound, since
\* (handleFile.cc:124-126).
WaitHasCause ==
    /\ \A c \in Clients : At(c, "accept") =>
          Coming(thread[c].listen) \/ Hit(c)
    /\ up \/ confused # {}

Ended(o) ==
    IF op[o].kind = "stor" THEN \E a \in announced : a.op = o
    ELSE \/ link[o].st = "read"
         \/ \E a \in announced : a.file = op[o].file /\ Hit(Who(a.op))

\* Every transfer asked for ends, with the announcement or the whole copy,
\* unless its client was hit.
TransfersEnd ==
    \A o \in Ops :
        op[o].kind # "none" ~> Ended(o) \/ Hit(Who(o)) \/ ~up

============================================================================
