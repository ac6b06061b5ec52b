--------------------------- MODULE TransferProofs ---------------------------
(***************************************************************************)
(* Theorems about Transfer, for any number of clients, names, transfers    *)
(* and failures.                                                           *)
(*                                                                         *)
(* What is shared is only right as long as nobody was mistaken for another *)
(* client, and what is on disk only for clients no failure has hit.  So    *)
(* the invariant speaks of a transfer as long as its client is not in      *)
(* confused, or not hit, and every step that a client's transfer could not *)
(* survive puts him there.                                                 *)
(***************************************************************************)
EXTENDS Transfer, Integers, FiniteSets, FiniteSetTheorems, SequenceTheorems,
        WellFoundedInduction, TLAPS

Chunk == Clients \X Ops \X (1..2)
Message == [type : {"stor", "info", "retr", "cloe", "550"}, op : Ops]
Thread == [pc : {"idle", "next", "stor", "open", "retr", "port", "bind", "listen", "tell",
                 "ported", "accept", "reading", "sending", "info", "cloe", "550"},
           job : Ops \cup {None}, listen : Ops \cup {None},
           file : Files \cup {NoFile}, pos : Nat]
ReplyType == [to : Clients, kind : {"150", "151", "550", "999"}, op : Ops,
              file : Files \cup {NoFile}]
Link == [st : {"none", "opening", "backlog", "open", "closed", "read"},
         by : Clients \cup {None}, n : 0..2, sent : Seq(Chunk),
         sentAll : BOOLEAN, back : Seq(Chunk), backAll : BOOLEAN]

TypeOK ==
    /\ op \in [Ops -> [who : Clients \cup {None},
                       kind : {"stor", "retr", "none"},
                       file : Files \cup {NoFile}]]
    /\ inbox \in [Clients -> Seq(Message)]
    /\ megser \in Seq(Message)
    /\ ftpConn \in Clients \cup {None}
    /\ acceptSocket_ \in Ops \cup {None}
    /\ socket \in [Ops -> {"raw", "bound", "listening"}]
    /\ fileTimeMap \in [Clients -> Files \cup {NoFile}]
    /\ exists \in SUBSET Files
    /\ disk \in [Files -> Seq(Chunk)]
    /\ thread \in [Clients -> Thread]
    /\ replies \in SUBSET ReplyType
    /\ link \in [Ops -> Link]
    /\ copy \in [Ops -> Seq(Chunk)]
    /\ announced \in SUBSET [op : Ops, file : Files \cup {NoFile}]
    /\ up \in BOOLEAN

----------------------------------------------------------------------------
(***************************************************************************)
(* The invariant.                                                          *)
(***************************************************************************)
Elements(s) == {s[i] : i \in DOMAIN s}

\* The transfers asked for.
Asked == {o \in Ops : op[o].kind # "none"}

\* Messages not yet taken by a thread.
Queued == Elements(megser) \cup UNION {Elements(inbox[c]) : c \in Clients}
Msg(t, o) == [type |-> t, op |-> o]
Real(m) == m.type \notin {"cloe", "550"}

Busy(c) == thread[c].pc \notin {"idle", "next"}
Transferring == {"ported", "accept", "reading", "sending"}

\* The thread of o's client is at one of the places P with o.
Doing(o, P) == thread[Who(o)].pc \in P /\ thread[Who(o)].job = o

\* What a thread refers to, and the places that fit a kind of transfer.
ThreadShape(c) ==
    /\ thread[c].pc # "idle" => ftpConn \in Clients
    /\ Busy(c) => Job(c) \in Asked
    /\ thread[c].pc \in {"stor", "open", "reading", "info"} =>
          op[Job(c)].kind = "stor"
    /\ thread[c].pc \in {"retr", "sending"} => op[Job(c)].kind = "retr"
    /\ thread[c].pc \in {"open", "port", "bind", "listen", "tell"} \cup Transferring =>
          thread[c].file \in Files
    /\ thread[c].pc \in {"bind", "listen", "tell"} \cup Transferring =>
          acceptSocket_ \in Asked
    /\ thread[c].pc \in Transferring \ {"ported"} =>
          thread[c].listen \in Asked
    /\ thread[c].pc \in {"reading", "sending"} => link[thread[c].listen].st # "none"
    /\ thread[c].pc # "sending" => thread[c].pos = 0

LinkShape(o) ==
    /\ link[o].n = 2 => link[o].sentAll
    /\ link[o].st = "none" => link[o] = NoLink
    /\ link[o].st # "none" => link[o].by \in Clients

\* What refers to what.
Shape ==
    /\ \A o \in Asked : Who(o) \in Clients
    /\ \A o \in Asked : op[o].kind = "stor" =>
          op[o].file \in Files /\ op[o].file[2] = 0
    /\ \A o \in Asked : \A p \in Ops : p < o => p \in Asked
    /\ \A m \in Queued :
          /\ m.op \in Asked
          /\ m.type \in {"stor", "info"} => op[m.op].kind = "stor"
          /\ m.type = "retr" => op[m.op].kind = "retr"
    /\ \A c \in Clients : ThreadShape(c)
    /\ acceptSocket_ # None => acceptSocket_ \in Asked
    /\ \A r \in replies : r.op \in Asked
    /\ \A a \in announced : a.op \in Asked
    /\ \A o \in Ops : LinkShape(o)
    /\ gone \subseteq failed

\* A client's messages are in the order in which he asked.
Rank(m) == 2 * m.op + (IF m.type = "info" THEN 1 ELSE 0)
ThreadRank(c) == 2 * Job(c) + (IF thread[c].pc = "info" THEN 1 ELSE 0)
AtReal(c) == Busy(c) /\ thread[c].pc \notin {"cloe", "550"}

Before(m, n) == Real(m) /\ Real(n) /\ Who(m.op) = Who(n.op) => Rank(m) < Rank(n)
Precedes == {p \in Message \X Message : Before(p[1], p[2])}
Ordered(s, R) == \A i, j \in DOMAIN s : i < j => <<s[i], s[j]>> \in R

OrderInv ==
    /\ \A c \in Clients : \A m \in Elements(inbox[c]) : Real(m) => Who(m.op) = c
    /\ \A c \in Clients : Ordered(inbox[c], Precedes)
    /\ Ordered(megser, Precedes)
    /\ \A c \in Clients : Elements(megser) \X Elements(inbox[c]) \subseteq Precedes
    /\ \A c \in Clients : \A m \in Queued :
          AtReal(c) /\ Real(m) /\ Who(m.op) = Who(Job(c)) =>
             ThreadRank(c) < Rank(m)
    /\ \A c, d \in Clients :
          c # d /\ AtReal(c) /\ AtReal(d) /\ Who(Job(c)) = Who(Job(d)) =>
             ThreadRank(c) # ThreadRank(d)

\* There are no more files than uploads that have opened theirs.
StorWaits(o) ==
    \/ Msg("stor", o) \in Queued
    \/ \E c \in Clients : thread[c].pc \in {"stor", "open"} /\ Job(c) = o
Served == {o \in Asked : ~StorWaits(o)}
SpaceInv == IsFiniteSet(exists) /\ Cardinality(exists) <= Cardinality(Served)

\* Whoever works for another client, or is told his answers, is confused.
MixInv ==
    /\ \A c \in Clients : Busy(c) =>
          Who(Job(c)) = c \/ {c, Who(Job(c))} \subseteq confused
    /\ \A r \in replies : r.to = Who(r.op) \/ Who(r.op) \in confused
    /\ \A m \in Queued : Real(m) \/ Hit(Who(m.op))
    /\ \A c \in Clients : \A m \in Elements(inbox[c]) :
          Who(m.op) = c \/ Who(m.op) \in confused
    /\ \A c \in Clients : thread[c].pc \in {"cloe", "550"} => Hit(Who(Job(c)))
    /\ \A c \in Clients : thread[c].pc \in {"accept", "reading", "sending"} =>
          Who(thread[c].listen) = c \/ {c, Who(thread[c].listen)} \subseteq confused

\* Nothing has been done for a transfer that was not asked for.
FreshInv ==
    \A o \in Ops \ Asked : link[o] = NoLink /\ copy[o] = <<>> /\ socket[o] = "raw"

\* How far the data connection of o has come, as long as no thread worked
\* for another client than it should.
Told(o) == \E r \in replies : r.op = o /\ r.kind \in {"150", "151"}
Ahead(o) ==
    \/ Msg("stor", o) \in Queued \/ Msg("retr", o) \in Queued
    \/ Doing(o, {"stor", "open", "retr", "port", "bind", "listen", "tell"})

ControlOf(o) ==
    /\ Ahead(o) => link[o].st = "none" /\ ~Told(o)
    /\ Told(o) => Doing(o, {"ported", "accept"}) /\ link[o].st = "none"
    /\ \A r, q \in replies :
          /\ r.op = o /\ r.kind \in {"150", "151"}
          /\ q.op = o /\ q.kind \in {"150", "151"}
          => r = q
    /\ link[o].st \in {"opening", "backlog"} => Doing(o, {"ported", "accept"})
    /\ Doing(o, {"bind", "listen", "tell", "ported"}) =>
          acceptSocket_ = o \/ Who(acceptSocket_) # Who(o)
    /\ Doing(o, {"accept", "reading", "sending"}) =>
          thread[Who(o)].listen = o
    /\ Doing(o, {"reading", "sending"}) => link[o].st = "open"
    /\ link[o].st = "open" => Doing(o, {"reading", "sending"}) \/ link[o].backAll
    /\ link[o].st # "none" => link[o].by = Who(o)
    /\ Doing(o, {"sending"}) => ~link[o].backAll
    /\ link[o].st \in {"none", "opening", "backlog"} => ~link[o].backAll
ControlInv == \A o \in Asked : Who(o) \notin confused => ControlOf(o)

\* The socket of o is in the state in which the thread of its client left it.
Unbound(o) ==
    \/ Msg("stor", o) \in Queued \/ Msg("retr", o) \in Queued
    \/ Doing(o, {"stor", "open", "retr", "port", "bind"})
SocketOf(o) ==
    /\ Unbound(o) => socket[o] = "raw"
    /\ Doing(o, {"tell", "ported"}) => socket[o] = "listening"
SocketInv == \A o \in Asked : Who(o) \notin confused => SocketOf(o)

\* WaitHasCause, from the moment at which the port is told.
WaitInv ==
    \A o \in Asked : ~Hit(Who(o)) =>
        /\ Doing(o, {"ported"}) /\ acceptSocket_ = o => Coming(o)
        /\ Doing(o, {"accept"}) => Coming(o)

\* Without confusion a "cloe" is not read: the thread that would read it
\* waits for the data connection.
CloeInv ==
    confused = {} =>
        /\ \A m \in Elements(megser) : Real(m)
        /\ \A c \in Clients : thread[c].pc \notin {"cloe", "550"}
        /\ \A c \in Clients : \A m \in Elements(inbox[c]) :
              Real(m) \/ /\ Doing(m.op, {"ported", "accept"})
                         /\ link[m.op].st = "none"
                         /\ ~Told(m.op)
        /\ up

\* A file that is written is written by one thread; what is announced, or
\* about to be, is whole and written by none.
Writing(d) ==
    /\ thread[d].pc \in {"port", "bind", "listen", "tell", "ported", "accept", "reading"}
    /\ op[Job(d)].kind = "stor"
Done(f, o) ==
    /\ f \in exists
    /\ f[1] = op[o].file[1]
    /\ disk[f] = Whole(o)
    /\ \A d \in Clients : Writing(d) => thread[d].file # f
Storing(o) ==
    \/ Msg("stor", o) \in Queued
    \/ Doing(o, {"stor", "open", "port", "bind", "listen", "tell", "ported", "accept",
                 "reading"})

\* The file of an upload has the name asked for, and only uploads are announced.
NameInv ==
    /\ \A c \in Clients : thread[c].pc = "open" \/ Writing(c) =>
          thread[c].file[1] = op[Job(c)].file[1]
    /\ \A c \in Clients : Writing(c) => thread[c].file \in exists
    /\ \A r \in replies : r.kind = "999" => op[r.op].kind = "stor"
    /\ \A a \in announced : op[a.op].kind = "stor"

\* An upload under way: its file is its own, and what has been written and
\* what is in the stream are what has been sent.
WritingOf(o) ==
    LET c == Who(o)
        f == thread[c].file
    IN  /\ Doing(o, {"open", "port", "bind", "listen", "tell", "ported", "accept",
                     "reading"}) =>
              fileTimeMap[c] = f
        /\ Doing(o, {"port", "bind", "listen", "tell", "ported", "accept", "reading"}) =>
              f \in exists /\ \A d \in Clients \ {c} : Writing(d) => thread[d].file # f
        /\ Doing(o, {"port", "bind", "listen", "tell", "ported", "accept"}) =>
              disk[f] = <<>>
        /\ Doing(o, {"reading"}) =>
              disk[f] \o link[o].sent = SubSeq(Whole(o), 1, link[o].n)
        /\ link[o].st \in {"none", "opening", "backlog"} =>
              link[o].sent = SubSeq(Whole(o), 1, link[o].n)
        /\ link[o].st \in {"none", "opening", "backlog", "open"} =>
              (link[o].sentAll <=> link[o].n = 2)
        /\ link[o].st # "read"

\* An upload that is over, from the end of its stream to its announcement.
OverOf(o) ==
    LET c == Who(o)
    IN  /\ Msg("info", o) \in Queued /\ ~Storing(o) =>
              /\ Done(fileTimeMap[c], o)
              /\ ~Busy(c)
              /\ \A m \in Queued : Who(m.op) = c => m.op >= o
        /\ Doing(o, {"info"}) => Done(fileTimeMap[c], o)
        /\ \A r \in replies : r.op = o /\ r.kind = "999" => Done(r.file, o)
        /\ \A a \in announced : a.op = o => Done(a.file, o)

UploadInv ==
    \A o \in Asked : ~Hit(Who(o)) /\ op[o].kind = "stor" =>
        WritingOf(o) /\ OverOf(o)

\* How much of the file of a download has been put into its stream.
Got(o) ==
    IF link[o].backAll \/ link[o].st = "read" THEN 2
    ELSE IF Doing(o, {"sending"}) THEN thread[Who(o)].pos ELSE 0

Source(o) == {a \in announced : a.file = op[o].file}
DownloadOf(o) ==
    /\ Doing(o, {"port", "bind", "listen", "tell", "ported", "accept", "sending"}) =>
          thread[Who(o)].file = op[o].file
    /\ link[o].backAll => link[o].st = "open"
    /\ link[o].st = "read" => link[o].back = <<>>
    /\ \E a \in Source(o) :
          \/ Hit(Who(a.op))
          \/ /\ Doing(o, {"sending"}) => thread[Who(o)].pos \in {0, 1}
             /\ copy[o] \o link[o].back = SubSeq(Whole(a.op), 1, Got(o))
DownloadInv ==
    \A o \in Asked : ~Hit(Who(o)) /\ op[o].kind = "retr" => DownloadOf(o)

TransferInv ==
    /\ TypeOK /\ Shape /\ OrderInv /\ SpaceInv /\ MixInv /\ FreshInv
    /\ ControlInv /\ SocketInv /\ WaitInv /\ CloeInv
    /\ NameInv /\ UploadInv /\ DownloadInv

----------------------------------------------------------------------------
(***************************************************************************)
(* Facts about sequences and names.                                        *)
(***************************************************************************)
LEMMA ElementsOfConcat ==
    ASSUME NEW S, NEW s \in Seq(S), NEW t \in Seq(S)
    PROVE  Elements(s \o t) = Elements(s) \cup Elements(t)
<1>1. /\ DOMAIN (s \o t) = 1 .. Len(s) + Len(t)
      /\ DOMAIN s = 1 .. Len(s) /\ DOMAIN t = 1 .. Len(t)
      /\ Len(s) \in Nat /\ Len(t) \in Nat
      /\ \A i \in 1 .. Len(s) + Len(t) :
            (s \o t)[i] = IF i <= Len(s) THEN s[i] ELSE t[i - Len(s)]
  OBVIOUS
<1> DEFINE u == s \o t
<1> HIDE DEF u
<1>2. ASSUME NEW x \in Elements(u) PROVE x \in Elements(s) \cup Elements(t)
  <2>1. PICK i \in 1 .. Len(s) + Len(t) : x = u[i]
    BY <1>1, <1>2 DEF Elements, u
  <2>2. CASE i <= Len(s)
    BY <1>1, <2>1, <2>2 DEF Elements, u
  <2>3. CASE i > Len(s)
    <3>1. i - Len(s) \in DOMAIN t /\ x = t[i - Len(s)]
      BY <1>1, <2>1, <2>3 DEF u
    <3> QED BY <3>1 DEF Elements
  <2> QED BY <1>1, <2>1, <2>2, <2>3
<1>3. ASSUME NEW x \in Elements(s) PROVE x \in Elements(u)
  <2>1. PICK i \in 1 .. Len(s) : x = s[i]
    BY <1>1, <1>3 DEF Elements
  <2>2. i \in DOMAIN u /\ x = u[i]
    BY <1>1, <2>1 DEF u
  <2> QED BY <2>2 DEF Elements
<1>4. ASSUME NEW x \in Elements(t) PROVE x \in Elements(u)
  <2>1. PICK i \in 1 .. Len(t) : x = t[i]
    BY <1>1, <1>4 DEF Elements
  <2>2. i + Len(s) \in DOMAIN u /\ x = u[i + Len(s)]
    BY <1>1, <2>1 DEF u
  <2> QED BY <2>2 DEF Elements
<1> QED BY <1>2, <1>3, <1>4 DEF u

LEMMA ElementsOfSplit ==
    ASSUME NEW S, NEW s \in Seq(S), NEW n \in 0 .. Len(s)
    PROVE  /\ SubSeq(s, 1, n) \in Seq(S) /\ SubSeq(s, n + 1, Len(s)) \in Seq(S)
           /\ Elements(s) = Elements(SubSeq(s, 1, n))
                              \cup Elements(SubSeq(s, n + 1, Len(s)))
<1>1. SubSeq(s, 1, n) \in Seq(S) /\ SubSeq(s, n + 1, Len(s)) \in Seq(S)
  OBVIOUS
<1>2. SubSeq(s, 1, n) \o SubSeq(s, n + 1, Len(s)) = SubSeq(s, 1, Len(s))
  <2>1. Len(s) \in Nat
    OBVIOUS
  <2>2. /\ 1 \in 1 .. Len(s) + 1 /\ n \in 1 - 1 .. Len(s)
        /\ Len(s) \in n .. Len(s)
    BY <2>1
  <2> QED BY <2>2, ConcatAdjacentSubSeq
<1>3. SubSeq(s, 1, Len(s)) = s
  BY SubSeqFull
<1> DEFINE a == SubSeq(s, 1, n)
       b == SubSeq(s, n + 1, Len(s))
<1>4. a \in Seq(S) /\ b \in Seq(S) /\ a \o b = s
  BY <1>1, <1>2, <1>3
<1> HIDE DEF a, b
<1>5. Elements(a \o b) = Elements(a) \cup Elements(b)
  BY <1>4, ElementsOfConcat
<1> QED BY <1>4, <1>5 DEF a, b

LEMMA ElementsOfTail ==
    ASSUME NEW S, NEW s \in Seq(S), s # <<>>
    PROVE  /\ Head(s) \in S /\ Tail(s) \in Seq(S)
           /\ Elements(s) = {Head(s)} \cup Elements(Tail(s))
<1>1. /\ Len(s) \in Nat \ {0} /\ DOMAIN s = 1 .. Len(s) /\ Head(s) = s[1]
      /\ Tail(s) \in Seq(S) /\ DOMAIN Tail(s) = 1 .. Len(s) - 1
      /\ \A i \in 1 .. Len(s) - 1 : Tail(s)[i] = s[i + 1]
  OBVIOUS
<1> DEFINE t == Tail(s)
           h == Head(s)
<1> HIDE DEF t, h
<1>2. ASSUME NEW x \in Elements(s) PROVE x = h \/ x \in Elements(t)
  <2>1. PICK i \in 1 .. Len(s) : x = s[i]
    BY <1>1, <1>2 DEF Elements
  <2>2. CASE i # 1
    <3>1. i - 1 \in DOMAIN t /\ x = t[i - 1]
      BY <1>1, <2>1, <2>2 DEF t
    <3> QED BY <3>1 DEF Elements
  <2> QED BY <1>1, <2>1, <2>2 DEF h
<1>3. ASSUME NEW x \in Elements(t) PROVE x \in Elements(s)
  <2>1. PICK i \in 1 .. Len(s) - 1 : x = t[i]
    BY <1>1, <1>3 DEF Elements, t
  <2>2. i + 1 \in DOMAIN s /\ x = s[i + 1]
    BY <1>1, <2>1 DEF t
  <2> QED BY <2>2 DEF Elements
<1>4. h \in Elements(s)
  BY <1>1 DEF Elements, h
<1>5. Head(s) \in S
  BY <1>1
<1> QED BY <1>1, <1>2, <1>3, <1>4, <1>5 DEF t, h

LEMMA ElementsOfAppend ==
    ASSUME NEW S, NEW s \in Seq(S), NEW e \in S
    PROVE  Append(s, e) \in Seq(S) /\ Elements(Append(s, e)) = Elements(s) \cup {e}
<1>1. Append(s, e) = s \o <<e>> /\ <<e>> \in Seq(S)
  OBVIOUS
<1>2. Elements(<<e>>) = {e}
  BY DEF Elements
<1>3. Elements(s \o <<e>>) = Elements(s) \cup Elements(<<e>>)
  BY <1>1, ElementsOfConcat, Zenon
<1>4. Append(s, e) \in Seq(S)
  OBVIOUS
<1> QED BY <1>1, <1>2, <1>3, <1>4

\* What an upload consists of.
LEMMA TwoChunks ==
    ASSUME NEW c \in Clients, NEW o \in Ops
    PROVE  /\ Chunks(c, o) \in Seq(Chunk) /\ Len(Chunks(c, o)) = 2
           /\ SubSeq(Chunks(c, o), 1, 0) = <<>>
           /\ SubSeq(Chunks(c, o), 1, 2) = Chunks(c, o)
           /\ \A n \in 0 .. 1 :
                 /\ Chunks(c, o)[n + 1] \in Chunk
                 /\ SubSeq(Chunks(c, o), 1, n + 1) =
                       Append(SubSeq(Chunks(c, o), 1, n), Chunks(c, o)[n + 1])
<1>1. \A k \in 1 .. 2 : <<c, o, k>> \in Chunk
  BY DEF Chunk
<1> DEFINE w == Chunks(c, o)
<1>2. w \in Seq(Chunk) /\ Len(w) = 2
  BY <1>1 DEF Chunks
<1> HIDE DEF w
<1>3. SubSeq(w, 1, 0) = <<>>
  BY SubSeqEmpty
<1>4. SubSeq(w, 1, 2) = w
  BY <1>2, SubSeqFull
<1>5. ASSUME NEW n \in 0 .. 1
      PROVE  w[n + 1] \in Chunk /\ SubSeq(w, 1, n + 1) = Append(SubSeq(w, 1, n), w[n + 1])
  <2>1. w[n + 1] \in Chunk
    BY <1>2
  <2>2. SubSeq(w, 1, n + 1) = SubSeq(w, 1, n) \o <<w[n + 1]>>
    <3>1. 1 \in 1 .. Len(w) /\ n + 1 \in 1 .. Len(w) /\ n + 1 - 1 = n
      BY <1>2
    <3> QED BY <1>2, <3>1, SubSeqRecursiveSecond
  <2>3. SubSeq(w, 1, n) \in Seq(Chunk)
    BY <1>2
  <2>4. SubSeq(w, 1, n) \o <<w[n + 1]>> = Append(SubSeq(w, 1, n), w[n + 1])
    BY <2>1, <2>3
  <2> QED BY <2>1, <2>2, <2>4
<1> QED BY <1>2, <1>3, <1>4, <1>5 DEF w

\* What has been read and what is still to be read are what was there.
LEMMA MovedPart ==
    ASSUME NEW S, NEW d \in Seq(S), NEW s \in Seq(S), NEW n \in 0 .. Len(s)
    PROVE  (d \o SubSeq(s, 1, n)) \o SubSeq(s, n + 1, Len(s)) = d \o s
<1>1. /\ Len(s) \in Nat /\ 1 \in 1 .. Len(s) + 1 /\ n \in 1 - 1 .. Len(s)
      /\ Len(s) \in n .. Len(s)
  OBVIOUS
<1>2. SubSeq(s, 1, n) \o SubSeq(s, n + 1, Len(s)) = s
  BY <1>1, ConcatAdjacentSubSeq, SubSeqFull
<1>3. SubSeq(s, 1, n) \in Seq(S) /\ SubSeq(s, n + 1, Len(s)) \in Seq(S)
  OBVIOUS
<1> DEFINE a == SubSeq(s, 1, n)
       b == SubSeq(s, n + 1, Len(s))
<1>4. a \in Seq(S) /\ b \in Seq(S)
  BY <1>3
<1>5. a \o b = s
  BY <1>2
<1> HIDE DEF a, b
<1>6. (d \o a) \o b = d \o (a \o b)
  BY <1>4, ConcatAssociative, SMTT(60)
<1> QED BY <1>5, <1>6 DEF a, b

LEMMA HeadMoved ==
    ASSUME NEW S, NEW d \in Seq(S), NEW s \in Seq(S), s # <<>>
    PROVE  Append(d, Head(s)) \o Tail(s) = d \o s
<1> DEFINE h == <<Head(s)>>
<1>1. Head(s) \in S /\ h \in Seq(S) /\ Tail(s) \in Seq(S)
  OBVIOUS
<1>2. Append(d, Head(s)) = d \o h /\ s = h \o Tail(s)
  BY <1>1
<1>3. (d \o h) \o Tail(s) = d \o (h \o Tail(s))
  BY <1>1, ConcatAssociative
<1> QED BY <1>2, <1>3

LEMMA AppendedLater ==
    ASSUME NEW S, NEW d \in Seq(S), NEW s \in Seq(S), NEW e \in S
    PROVE  d \o Append(s, e) = Append(d \o s, e)
<1>1. Append(s, e) = s \o <<e>> /\ <<e>> \in Seq(S)
  OBVIOUS
<1>2. d \o (s \o <<e>>) = (d \o s) \o <<e>>
  BY <1>1, ConcatAssociative
<1>3. d \o s \in Seq(S)
  OBVIOUS
<1>4. (d \o s) \o <<e>> = Append(d \o s, e)
  BY <1>3
<1> QED BY <1>1, <1>2, <1>4

\* A sequence of two parts is ordered when the parts and their pairs are.
LEMMA OrderedConcat ==
    ASSUME NEW S, NEW s \in Seq(S), NEW t \in Seq(S), NEW R
    PROVE  Ordered(s \o t, R) <=>
              Ordered(s, R) /\ Ordered(t, R) /\ Elements(s) \X Elements(t) \subseteq R
<1>1. /\ DOMAIN (s \o t) = 1 .. Len(s) + Len(t)
      /\ DOMAIN s = 1 .. Len(s) /\ DOMAIN t = 1 .. Len(t)
      /\ Len(s) \in Nat /\ Len(t) \in Nat
      /\ \A i \in 1 .. Len(s) + Len(t) :
            (s \o t)[i] = IF i <= Len(s) THEN s[i] ELSE t[i - Len(s)]
  OBVIOUS
<1> DEFINE u == s \o t
           k == Len(s)
           l == Len(t)
<1>2. /\ DOMAIN u = 1 .. k + l /\ DOMAIN s = 1 .. k /\ DOMAIN t = 1 .. l
      /\ k \in Nat /\ l \in Nat
      /\ \A i \in 1 .. k : i \in 1 .. k + l /\ u[i] = s[i]
      /\ \A i \in 1 .. l : i + k \in 1 .. k + l /\ u[i + k] = t[i]
  BY <1>1
<1> HIDE DEF u, k, l
<1>3. ASSUME Ordered(u, R)
      PROVE  Ordered(s, R) /\ Ordered(t, R) /\ Elements(s) \X Elements(t) \subseteq R
  <2>1. Ordered(s, R)
    BY <1>2, <1>3 DEF Ordered
  <2>2. ASSUME NEW i \in 1 .. l, NEW j \in 1 .. l, i < j PROVE <<t[i], t[j]>> \in R
    <3>1. i + k \in DOMAIN u /\ j + k \in DOMAIN u /\ i + k < j + k
      BY <1>2, <2>2
    <3>2. <<u[i + k], u[j + k]>> \in R
      BY <1>3, <3>1 DEF Ordered
    <3> QED BY <1>2, <3>2
  <2>3. ASSUME NEW x \in Elements(s), NEW y \in Elements(t) PROVE <<x, y>> \in R
    <3>1. PICK i \in 1 .. k : x = s[i]
      BY <1>2 DEF Elements
    <3>2. PICK j \in 1 .. l : y = t[j]
      BY <1>2 DEF Elements
    <3>3. i \in DOMAIN u /\ j + k \in DOMAIN u /\ i < j + k
      BY <1>2, <3>1, <3>2
    <3>4. <<u[i], u[j + k]>> \in R
      BY <1>3, <3>3 DEF Ordered
    <3> QED BY <1>2, <3>1, <3>2, <3>4
  <2>4. Elements(s) \X Elements(t) \subseteq R
    BY <2>3
  <2>5. Ordered(t, R)
    BY <1>2, <2>2 DEF Ordered
  <2> QED BY <2>1, <2>4, <2>5
<1>4. ASSUME Ordered(s, R), Ordered(t, R), Elements(s) \X Elements(t) \subseteq R
      PROVE  Ordered(u, R)
  <2> SUFFICES ASSUME NEW i \in 1 .. k + l, NEW j \in 1 .. k + l, i < j
               PROVE  <<u[i], u[j]>> \in R
    BY <1>2 DEF Ordered
  <2>1. ASSUME NEW n \in 1 .. k + l, n > k PROVE n - k \in 1 .. l /\ u[n] = t[n - k]
    <3>1. n - k \in 1 .. l
      BY <1>2, <2>1
    <3>2. (n - k) + k = n
      BY <1>2
    <3>3. u[(n - k) + k] = t[n - k]
      BY <1>2, <3>1
    <3> QED BY <3>1, <3>2, <3>3
  <2>2. CASE j <= k
    <3>1. i \in 1 .. k /\ j \in 1 .. k
      BY <1>2, <2>2
    <3>2. <<s[i], s[j]>> \in R
      BY <1>2, <1>4, <3>1 DEF Ordered
    <3> QED BY <1>2, <3>1, <3>2
  <2>3. CASE i > k
    <3>1. i - k \in 1 .. l /\ j - k \in 1 .. l /\ i - k < j - k
      BY <1>2, <2>1, <2>3
    <3>2. <<t[i - k], t[j - k]>> \in R
      BY <1>2, <1>4, <3>1 DEF Ordered
    <3>3. u[i] = t[i - k] /\ u[j] = t[j - k]
      <4>1. j > k
        BY <1>2, <2>3
      <4> QED BY <2>1, <2>3, <4>1
    <3> QED BY <3>2, <3>3
  <2>4. CASE i <= k /\ j > k
    <3>1. i \in DOMAIN s /\ u[i] = s[i]
      BY <1>2, <2>4
    <3>4. j - k \in DOMAIN t /\ u[j] = t[j - k]
      BY <1>2, <2>1, <2>4
    <3>2. u[i] \in Elements(s) /\ u[j] \in Elements(t)
      BY <3>1, <3>4 DEF Elements
    <3>3. <<u[i], u[j]>> \in Elements(s) \X Elements(t)
      BY <3>2
    <3> QED BY <1>4, <3>3
  <2> QED BY <1>2, <2>2, <2>3, <2>4
<1> QED BY <1>3, <1>4 DEF u

LEMMA SplitAt ==
    ASSUME NEW S, NEW s \in Seq(S), NEW n \in 0 .. Len(s)
    PROVE  /\ SubSeq(s, 1, n) \in Seq(S) /\ SubSeq(s, n + 1, Len(s)) \in Seq(S)
           /\ SubSeq(s, 1, n) \o SubSeq(s, n + 1, Len(s)) = s
<1>1. SubSeq(s, 1, n) \in Seq(S) /\ SubSeq(s, n + 1, Len(s)) \in Seq(S)
  OBVIOUS
<1>2. /\ Len(s) \in Nat /\ 1 \in 1 .. Len(s) + 1 /\ n \in 1 - 1 .. Len(s)
      /\ Len(s) \in n .. Len(s)
  OBVIOUS
<1> QED BY <1>1, <1>2, ConcatAdjacentSubSeq, SubSeqFull

\* A set of numbers has a least one.
LEMMA LeastNumber ==
    ASSUME NEW T \in SUBSET Nat, T # {}
    PROVE  \E k \in T : \A j \in T : ~(j < k)
<1>1. PICK k \in T : \A j \in T : <<j, k>> \notin OpToRel(<, Nat)
  BY NatLessThanWellFounded, WFMin, Zenon
<1> QED BY <1>1 DEF OpToRel

\* createFile finds a name that no file has.
LEMMA FreeNameFound ==
    ASSUME TypeOK, SpaceInv, NEW n \in Names
    PROVE  FreeName(<<n, 0>>) \in Files /\ FreeName(<<n, 0>>)[1] = n
<1> DEFINE T == {k \in 0 .. MaxOps : <<n, k>> \notin exists}
<1>1. T # {}
  <2> SUFFICES ASSUME T = {} PROVE FALSE
    OBVIOUS
  <2> DEFINE f == [k \in 0 .. MaxOps |-> <<n, k>>]
  <2>1. f \in Injection(0 .. MaxOps, exists)
    BY DEF Injection, IsInjective
  <2>2. Cardinality(0 .. MaxOps) <= Cardinality(exists)
    BY <2>1, FS_Injection DEF SpaceInv
  <2>3. Cardinality(0 .. MaxOps) = MaxOps + 1
    BY FS_Interval, TransferAssumption
  <2>4. IsFiniteSet(Ops) /\ Cardinality(Ops) = MaxOps
    BY FS_Interval, TransferAssumption DEF Ops
  <2>5. Cardinality(Served) <= Cardinality(Ops) /\ IsFiniteSet(Served)
    BY <2>4, FS_Subset DEF Served, Asked
  <2>6. Cardinality(Served) \in Nat /\ Cardinality(exists) \in Nat
    BY <2>5, FS_CardinalityType DEF SpaceInv
  <2> QED BY <2>2, <2>3, <2>4, <2>5, <2>6, TransferAssumption DEF SpaceInv
<1>2. PICK k \in T : \A j \in T : ~(j < k)
  <2>1. T \in SUBSET Nat
    OBVIOUS
  <2> QED BY <1>1, <2>1, LeastNumber
<1>3. \A j \in 0 .. (k - 1) : <<n, j>> \in exists
  BY <1>2, TransferAssumption
<1> DEFINE P(i) == <<n, i>> \notin exists /\ \A j \in 0 .. (i - 1) : <<n, j>> \in exists
<1>4. \E i \in 0 .. MaxOps : P(i)
  BY <1>2, <1>3
<1>5. (CHOOSE i \in 0 .. MaxOps : P(i)) \in 0 .. MaxOps
  BY <1>4
<1> DEFINE K == CHOOSE i \in 0 .. MaxOps : P(i)
<1>6. FreeName(<<n, 0>>) = <<n, K>>
  BY DEF FreeName
<1>7. K \in 0 .. MaxOps
  BY <1>5
<1> HIDE DEF K
<1> QED BY <1>6, <1>7 DEF Files

----------------------------------------------------------------------------
(***************************************************************************)
(* Types.                                                                  *)
(***************************************************************************)
LEMMA EmptyIsLink ==
    ASSUME NEW t \in {"none", "closed", "read"}, NEW d \in Clients \cup {None}
    PROVE  Empty(t, d) \in Link
<1>1. <<>> \in Seq(Chunk)
  OBVIOUS
<1> QED BY <1>1 DEF Empty, Link

\* What a change of some fields leaves alone.
LEMMA LinkFields ==
    ASSUME NEW l \in Link, NEW x, NEW y, NEW z
    PROVE  /\ LET k == [l EXCEPT !.st = x]
              IN  /\ k.st = x /\ k.by = l.by /\ k.n = l.n /\ k.sent = l.sent
                  /\ k.sentAll = l.sentAll /\ k.back = l.back /\ k.backAll = l.backAll
           /\ LET k == [l EXCEPT !.sent = x]
              IN  /\ k.st = l.st /\ k.by = l.by /\ k.n = l.n /\ k.sent = x
                  /\ k.sentAll = l.sentAll /\ k.back = l.back /\ k.backAll = l.backAll
           /\ LET k == [l EXCEPT !.back = x]
              IN  /\ k.st = l.st /\ k.by = l.by /\ k.n = l.n /\ k.sent = l.sent
                  /\ k.sentAll = l.sentAll /\ k.back = x /\ k.backAll = l.backAll
           /\ LET k == [l EXCEPT !.sentAll = x]
              IN  /\ k.st = l.st /\ k.by = l.by /\ k.n = l.n /\ k.sent = l.sent
                  /\ k.sentAll = x /\ k.back = l.back /\ k.backAll = l.backAll
           /\ LET k == [l EXCEPT !.back = x, !.backAll = y]
              IN  /\ k.st = l.st /\ k.by = l.by /\ k.n = l.n /\ k.sent = l.sent
                  /\ k.sentAll = l.sentAll /\ k.back = x /\ k.backAll = y
           /\ LET k == [l EXCEPT !.st = x, !.by = y]
              IN  /\ k.st = x /\ k.by = y /\ k.n = l.n /\ k.sent = l.sent
                  /\ k.sentAll = l.sentAll /\ k.back = l.back /\ k.backAll = l.backAll
           /\ LET k == [l EXCEPT !.n = x, !.sentAll = y, !.sent = z]
              IN  /\ k.st = l.st /\ k.by = l.by /\ k.n = x /\ k.sent = z
                  /\ k.sentAll = y /\ k.back = l.back /\ k.backAll = l.backAll
BY DEF Link

LEMMA InitOK == Init => TypeOK /\ Shape
<1> SUFFICES ASSUME Init PROVE TypeOK /\ Shape
  OBVIOUS
<1> DEFINE c == CHOOSE c \in Clients : TRUE
<1>1. c \in Clients
  BY TransferAssumption
<1> HIDE DEF c
<1>2. PICK n \in Names :
        /\ op = [o \in Ops |-> IF o = 1 THEN [who |-> c, kind |-> "stor", file |-> <<n, 0>>]
                               ELSE [who |-> None, kind |-> "none", file |-> NoFile]]
        /\ exists = {<<n, 0>>}
        /\ disk = [f \in Files |-> IF f = <<n, 0>> THEN Whole(1) ELSE <<>>]
        /\ announced = {[op |-> 1, file |-> <<n, 0>>]}
  BY DEF Init, c
<1>3. /\ inbox = [d \in Clients |-> <<>>] /\ megser = <<>>
      /\ ftpConn = None /\ acceptSocket_ = None
      /\ socket = [o \in Ops |-> "raw"]
      /\ fileTimeMap = [d \in Clients |-> NoFile]
      /\ thread = [d \in Clients |-> Idle] /\ replies = {}
      /\ link = [o \in Ops |-> NoLink] /\ copy = [o \in Ops |-> <<>>]
      /\ up = TRUE /\ gone = {} /\ failed = {}
  BY DEF Init
<1>4. 1 \in Ops /\ <<n, 0>> \in Files
  BY TransferAssumption DEF Ops, Files
<1>5. Whole(1) \in Seq(Chunk)
  <2>1. Who(1) = c
    BY <1>2, <1>4 DEF Who
  <2> QED BY <1>1, <1>4, <2>1, TwoChunks DEF Whole
<1>6. <<>> \in Seq(Chunk) /\ <<>> \in Seq(Message)
  OBVIOUS
<1>7. Idle \in Thread /\ NoLink \in Link
  BY <1>6, EmptyIsLink DEF Idle, Thread, NoLink
<1>8. TypeOK
  <2>1. op \in [Ops -> [who : Clients \cup {None},
                        kind : {"stor", "retr", "none"},
                        file : Files \cup {NoFile}]]
    BY <1>1, <1>2, <1>4
  <2>2. disk \in [Files -> Seq(Chunk)]
    BY <1>2, <1>5, <1>6
  <2>3. /\ inbox \in [Clients -> Seq(Message)] /\ megser \in Seq(Message)
        /\ ftpConn \in Clients \cup {None} /\ acceptSocket_ \in Ops \cup {None}
        /\ socket \in [Ops -> {"raw", "bound", "listening"}]
        /\ fileTimeMap \in [Clients -> Files \cup {NoFile}]
        /\ thread \in [Clients -> Thread] /\ replies \in SUBSET ReplyType
        /\ link \in [Ops -> Link] /\ copy \in [Ops -> Seq(Chunk)] /\ up \in BOOLEAN
    BY <1>3, <1>6, <1>7
  <2>4. exists \in SUBSET Files /\ announced \in SUBSET [op : Ops, file : Files \cup {NoFile}]
    BY <1>2, <1>4
  <2> QED BY <2>1, <2>2, <2>3, <2>4 DEF TypeOK
<1>9. Shape
  <2>1. Asked = {1} /\ Who(1) = c /\ op[1].kind = "stor" /\ op[1].file = <<n, 0>>
    BY <1>2, <1>4 DEF Asked, Who
  <2>2. Queued = {}
    BY <1>3 DEF Queued, Elements
  <2>3. \A d \in Clients : thread[d].pc = "idle" /\ thread[d].pos = 0
    BY <1>3 DEF Idle
  <2>4. \A o \in Ops : link[o] = NoLink /\ link[o].n = 0 /\ link[o].st = "none"
    BY <1>3 DEF NoLink, Empty
  <2> QED BY <1>1, <1>2, <1>3, <1>4, <2>1, <2>2, <2>3, <2>4
          DEF Shape, ThreadShape, LinkShape, Busy, Transferring, Ops
<1> QED BY <1>8, <1>9

\* Answers that may come of a step.
LEMMA ReplyOK ==
    ASSUME TypeOK, NEW k \in {"150", "151", "550", "999"}, NEW o \in Ops,
           NEW f \in Files \cup {NoFile}, ftpConn \in Clients
    PROVE  /\ Reply(k, o, f) \in SUBSET ReplyType
           /\ \A r \in Reply(k, o, f) :
                 \/ r \in replies
                 \/ /\ r = [to |-> ftpConn, kind |-> k, op |-> o, file |-> f]
                    /\ ftpConn \notin gone
           /\ \A r \in replies : r \in Reply(k, o, f)
BY DEF Reply, ReplyType, TypeOK

LEMMA IdleIsThread == Idle \in Thread /\ [Idle EXCEPT !.pc = "next"] \in Thread
BY DEF Idle, Thread

\* A thread that takes up a file.
LEMMA FileIsThread ==
    ASSUME NEW t \in Thread, NEW p \in {"open", "port"}, NEW f \in Files
    PROVE  [t EXCEPT !.pc = p, !.file = f] \in Thread
BY DEF Thread

\* A function set at one point to a value of its range keeps its type.
LEMMA SetKeepsType ==
    ASSUME NEW D, NEW S, NEW f \in [D -> S], NEW d, NEW v \in S
    PROVE  [f EXCEPT ![d] = v] \in [D -> S]
OBVIOUS

\* Every action of a server thread keeps the types.
LEMMA ServerTypes ==
    ASSUME TypeOK, Shape, SpaceInv, NEW c \in Clients,
           ServerStep(c) \/ openFails(c)
    PROVE  TypeOK'
<1> USE DEF TypeOK
<1>0. /\ thread[c] \in Thread /\ Job(c) \in Ops \cup {None}
      /\ thread[c].pc \notin {"idle", "next"} => Job(c) \in Ops /\ ftpConn \in Clients
      /\ thread[c].pc \in {"bind", "listen", "tell", "ported", "accept", "reading",
                           "sending"} =>
            acceptSocket_ \in Ops
      /\ thread[c].pc \in {"accept", "reading", "sending"} => thread[c].listen \in Ops
      /\ thread[c].pc \in {"open", "port", "bind", "listen", "tell", "ported", "accept",
                           "reading", "sending"} =>
            thread[c].file \in Files
  BY DEF Shape, ThreadShape, Busy, Job, Thread, Asked, Transferring
<1>a. ASSUME NEW p \in {"idle", "next", "stor", "open", "retr", "port", "bind", "listen",
                        "tell", "ported", "accept", "reading", "sending", "info",
                        "cloe", "550"}, Goes(c, p)
      PROVE  thread' \in [Clients -> Thread]
  <2>1. [thread[c] EXCEPT !.pc = p] \in Thread
    BY <1>0, <1>a DEF Thread
  <2>2. thread' = [thread EXCEPT ![c] = [thread[c] EXCEPT !.pc = p]]
    BY <1>a DEF Goes
  <2>3. thread \in [Clients -> Thread]
    OBVIOUS
  <2> QED BY <2>1, <2>2, <2>3
<1>b. Ends(c) => thread' \in [Clients -> Thread]
  BY IdleIsThread DEF Ends
<1>1. ASSUME messageCallback(c) PROVE TypeOK'
  <2>1. PICK n \in 1 .. Len(inbox[c]) :
          /\ megser' = megser \o SubSeq(inbox[c], 1, n)
          /\ inbox' = [inbox EXCEPT ![c] = SubSeq(@, n + 1, Len(@))]
    BY <1>1 DEF messageCallback
  <2>2. SubSeq(inbox[c], 1, n) \in Seq(Message)
        /\ SubSeq(inbox[c], n + 1, Len(inbox[c])) \in Seq(Message)
    <3>1. inbox[c] \in Seq(Message) /\ n \in 0 .. Len(inbox[c])
      BY <2>1
    <3> QED BY <3>1, ElementsOfSplit
  <2>3. megser' \in Seq(Message) /\ inbox' \in [Clients -> Seq(Message)]
    BY <2>1, <2>2
  <2>4. thread' \in [Clients -> Thread]
    BY <1>1, <1>a DEF messageCallback
  <2> QED BY <1>1, <2>3, <2>4 DEF messageCallback
<1>2. ASSUME nextMessage(c) PROVE TypeOK'
  <2>1. CASE megser = <<>>
    <3>1. thread' \in [Clients -> Thread]
      BY <1>2, <2>1, IdleIsThread DEF nextMessage
    <3> QED BY <1>2, <2>1, <3>1 DEF nextMessage
  <2>2. CASE megser # <<>>
    <3>1. Head(megser) \in Message /\ Tail(megser) \in Seq(Message)
      BY <2>2, ElementsOfTail
    <3>2. thread' = [thread EXCEPT ![c].pc = Head(megser).type,
                                   ![c].job = Head(megser).op]
          /\ megser' = Tail(megser)
      BY <1>2, <2>2 DEF nextMessage
    <3>3. Head(megser).type \in {"stor", "info", "retr", "cloe", "550"}
          /\ Head(megser).op \in Ops
      BY <3>1 DEF Message
    <3>4. thread' \in [Clients -> Thread]
      <4> DEFINE t == Head(megser).type
                 o == Head(megser).op
      <4> HIDE DEF t, o
      <4>1. t \in {"stor", "info", "retr", "cloe", "550"} /\ o \in Ops
            /\ thread' = [thread EXCEPT ![c].pc = t, ![c].job = o]
        BY <3>2, <3>3 DEF t, o
      <4>2. [thread[c] EXCEPT !.pc = t, !.job = o] \in Thread
        BY <4>1 DEF Thread
      <4>3. thread' = [thread EXCEPT ![c] = [thread[c] EXCEPT !.pc = t, !.job = o]]
        BY <4>1
      <4> QED BY <4>2, <4>3
    <3> QED BY <1>2, <2>2, <3>1, <3>2, <3>4 DEF nextMessage
  <2> QED BY <2>1, <2>2
<1>3. ASSUME createFile(c) PROVE TypeOK'
  <2>1. op[Job(c)].kind = "stor" /\ Job(c) \in Asked
    BY <1>3 DEF createFile, At, Shape, ThreadShape, Busy
  <2>2. PICK n \in Names : op[Job(c)].file = <<n, 0>>
    <3>1. op[Job(c)].file \in Files /\ op[Job(c)].file[2] = 0
      BY <2>1 DEF Shape
    <3> QED BY <3>1 DEF Files
  <2>3. FreeName(op[Job(c)].file) \in Files
    BY <2>2, FreeNameFound
  <2> DEFINE name == FreeName(op[Job(c)].file)
  <2>4. /\ thread' = [thread EXCEPT ![c].pc = "open", ![c].file = name]
        /\ fileTimeMap' = [fileTimeMap EXCEPT ![ftpConn] = name]
    BY <1>3 DEF createFile
  <2> HIDE DEF name
  <2>5. thread' \in [Clients -> Thread] /\ fileTimeMap' \in [Clients -> Files \cup {NoFile}]
    <3>3. name \in Files
      BY <2>3 DEF name
    <3>1. [thread[c] EXCEPT !.pc = "open", !.file = name] \in Thread
      BY <1>0, <3>3, FileIsThread
    <3>2. thread' = [thread EXCEPT ![c] = [thread[c] EXCEPT !.pc = "open", !.file = name]]
      BY <2>4
    <3>4. thread \in [Clients -> Thread] /\ fileTimeMap \in [Clients -> Files \cup {NoFile}]
      OBVIOUS
    <3>5. thread' \in [Clients -> Thread]
      BY <3>1, <3>2, <3>4, SetKeepsType
    <3>6. fileTimeMap' \in [Clients -> Files \cup {NoFile}]
      BY <2>4, <3>3, <3>4, SetKeepsType
    <3> QED BY <3>5, <3>6
  <2> QED BY <1>3, <2>5 DEF createFile
<1>4. ASSUME openFile(c) PROVE TypeOK'
  <2>1. thread[c].file \in Files
    BY <1>0, <1>4 DEF openFile, At
  <2>2. exists' \in SUBSET Files /\ disk' \in [Files -> Seq(Chunk)]
    BY <1>4, <2>1 DEF openFile
  <2>3. thread' \in [Clients -> Thread]
    BY <1>4, <1>a DEF openFile
  <2> QED BY <1>4, <2>2, <2>3 DEF openFile
<1>5. ASSUME openFails(c) PROVE TypeOK'
  <2>1. Job(c) \in Ops /\ ftpConn \in Clients
    BY <1>0, <1>5 DEF openFails, At
  <2>2. replies' \in SUBSET ReplyType
    BY <1>5, <2>1, ReplyOK DEF openFails
  <2>3. thread' \in [Clients -> Thread]
    BY <1>5, <1>b DEF openFails
  <2> QED BY <1>5, <2>2, <2>3 DEF openFails
<1>6. ASSUME getFilefd(c) PROVE TypeOK'
  <2> DEFINE f == op[Job(c)].file
  <2>1. CASE f \in exists
    <3>1. thread' = [thread EXCEPT ![c].pc = "port", ![c].file = f]
      BY <1>6, <2>1 DEF getFilefd
    <3>2. f \in Files
      BY <2>1
    <3> HIDE DEF f
    <3>3. thread' \in [Clients -> Thread]
      <4>1. [thread[c] EXCEPT !.pc = "port", !.file = f] \in Thread
        BY <1>0, <3>2, FileIsThread
      <4>2. thread' = [thread EXCEPT ![c] = [thread[c] EXCEPT !.pc = "port", !.file = f]]
        BY <3>1
      <4> QED BY <4>1, <4>2
    <3> QED BY <1>6, <3>3 DEF getFilefd
  <2>2. CASE f \notin exists
    <3>1. thread' \in [Clients -> Thread]
      BY <1>6, <1>b, <2>2 DEF getFilefd
    <3> QED BY <1>6, <3>1 DEF getFilefd
  <2> QED BY <2>1, <2>2
<1>7. ASSUME connectPort(c) PROVE TypeOK'
  <2>1. Job(c) \in Ops
    BY <1>0, <1>7 DEF connectPort, At
  <2>2. thread' \in [Clients -> Thread]
    BY <1>7, <1>a DEF connectPort
  <2> QED BY <1>7, <2>1, <2>2 DEF connectPort
<1>c. ASSUME bindAddress(c) \/ listenPort(c) PROVE TypeOK'
  <2>1. acceptSocket_ \in Ops
    BY <1>0, <1>c DEF bindAddress, listenPort, At
  <2>2. socket' \in [Ops -> {"raw", "bound", "listening"}] /\ up' \in BOOLEAN
    BY <1>c, <2>1 DEF bindAddress, listenPort
  <2>3. thread' \in [Clients -> Thread]
    BY <1>c, <1>a DEF bindAddress, listenPort
  <2> QED BY <1>c, <2>2, <2>3 DEF bindAddress, listenPort
<1>d. ASSUME tellPort(c) PROVE TypeOK'
  <2>1. Job(c) \in Ops /\ ftpConn \in Clients /\ thread[c].file \in Files
    BY <1>0, <1>d DEF tellPort, At
  <2>2. replies' \in SUBSET ReplyType
    BY <1>d, <2>1, ReplyOK DEF tellPort
  <2>3. thread' \in [Clients -> Thread]
    BY <1>d, <1>a DEF tellPort
  <2> QED BY <1>d, <2>1, <2>2, <2>3 DEF tellPort
<1>8. ASSUME acceptBegins(c) PROVE TypeOK'
  <2>1. thread' = [thread EXCEPT ![c].pc = "accept", ![c].listen = acceptSocket_]
    BY <1>8 DEF acceptBegins
  <2>2. thread' \in [Clients -> Thread]
    <3>1. [thread[c] EXCEPT !.pc = "accept", !.listen = acceptSocket_] \in Thread
      BY DEF Thread
    <3>2. thread' = [thread EXCEPT ![c] = [thread[c] EXCEPT
                        !.pc = "accept", !.listen = acceptSocket_]]
      BY <2>1
    <3> QED BY <3>1, <3>2
  <2> QED BY <1>8, <2>2 DEF acceptBegins
<1>9. ASSUME accept1(c) PROVE TypeOK'
  <2>1. thread[c].listen \in Ops
    BY <1>0, <1>9 DEF accept1, At
  <2>2. link' \in [Ops -> Link]
    <3> DEFINE s == thread[c].listen
    <3>1. [link[s] EXCEPT !.st = "open"] \in Link
      <4>1. link[s] \in Link
        BY <2>1
      <4> HIDE DEF s
      <4> QED BY <4>1 DEF Link
    <3>2. link' = [link EXCEPT ![s] = [link[s] EXCEPT !.st = "open"]]
      BY <1>9 DEF accept1
    <3> QED BY <2>1, <3>1, <3>2
  <2>3. thread' \in [Clients -> Thread]
    BY <1>9, <1>a DEF accept1
  <2> QED BY <1>9, <2>2, <2>3 DEF accept1
<1>10. ASSUME stor(c) PROVE TypeOK'
  <2> DEFINE s == thread[c].listen
             f == thread[c].file
  <2>1. s \in Ops /\ f \in Files
    BY <1>0, <1>10 DEF stor, At
  <2>2. CASE \E n \in 1..Len(link[s].sent) :
                 /\ disk' = [disk EXCEPT ![f] = @ \o SubSeq(link[s].sent, 1, n)]
                 /\ link' = [link EXCEPT ![s].sent = SubSeq(@, n + 1, Len(@))]
                 /\ thread' = thread
    <3>1. PICK n \in 1..Len(link[s].sent) :
                 /\ disk' = [disk EXCEPT ![f] = @ \o SubSeq(link[s].sent, 1, n)]
                 /\ link' = [link EXCEPT ![s].sent = SubSeq(@, n + 1, Len(@))]
      BY <2>2
    <3> DEFINE a == SubSeq(link[s].sent, 1, n)
               b == SubSeq(link[s].sent, n + 1, Len(link[s].sent))
    <3>2. a \in Seq(Chunk) /\ b \in Seq(Chunk)
      <4>1. link[s].sent \in Seq(Chunk) /\ n \in 0 .. Len(link[s].sent)
        BY <2>1, <3>1 DEF Link
      <4> QED BY <4>1, ElementsOfSplit
    <3>3. disk' = [disk EXCEPT ![f] = @ \o a] /\ link' = [link EXCEPT ![s].sent = b]
      BY <3>1
    <3> HIDE DEF a, b, s, f
    <3>4. disk' \in [Files -> Seq(Chunk)]
      <4>1. disk[f] \o a \in Seq(Chunk)
        BY <2>1, <3>2
      <4> QED BY <3>3, <4>1
    <3>5. link' \in [Ops -> Link]
      <4>1. [link[s] EXCEPT !.sent = b] \in Link
        BY <2>1, <3>2 DEF Link
      <4>2. link' = [link EXCEPT ![s] = [link[s] EXCEPT !.sent = b]]
        BY <3>3
      <4> QED BY <2>1, <4>1, <4>2
    <3> QED BY <1>10, <2>2, <3>4, <3>5 DEF stor
  <2>3. CASE /\ Ends(c) /\ disk' = disk
             /\ link' = [link EXCEPT ![s] = Empty("closed", link[s].by)]
    <3>1. thread' \in [Clients -> Thread]
      BY <1>b, <2>3
    <3>2. link' \in [Ops -> Link]
      <4>1. Empty("closed", link[s].by) \in Link
        <5>1. link[s].by \in Clients \cup {None}
          BY <2>1 DEF Link
        <5> QED BY <5>1, EmptyIsLink
      <4> QED BY <2>1, <2>3, <4>1
    <3> QED BY <1>10, <2>3, <3>1, <3>2 DEF stor
  <2> QED BY <1>10, <2>2, <2>3 DEF stor
<1>11. ASSUME retr(c) PROVE TypeOK'
  <2> DEFINE s == thread[c].listen
             f == disk[thread[c].file]
             pos == thread[c].pos
             more == pos < Len(f) /\ link[s].by \notin gone
             last == pos + 1 >= Len(f) \/ ~more
             b == IF more THEN Append(link[s].back, f[pos + 1]) ELSE link[s].back
  <2>1. s \in Ops /\ f \in Seq(Chunk) /\ pos \in Nat /\ link[s] \in Link
    BY <1>0, <1>11 DEF retr, At, Thread
  <2>2. b \in Seq(Chunk)
    <3>1. link[s].back \in Seq(Chunk)
      BY <2>1 DEF Link
    <3>2. pos < Len(f) => f[pos + 1] \in Chunk
      <4> HIDE DEF f, pos
      <4> QED BY <2>1
    <3> HIDE DEF s, f, pos
    <3> QED BY <3>1, <3>2
  <2>3. link' = [link EXCEPT ![s].back = b, ![s].backAll = last]
    BY <1>11 DEF retr
  <2>4. last \in BOOLEAN
    OBVIOUS
  <2>5. IF last THEN Ends(c) ELSE thread' = [thread EXCEPT ![c].pos = pos + 1]
    BY <1>11 DEF retr
  <2> HIDE DEF b, last, s, more, f
  <2>6. link' \in [Ops -> Link]
    BY <2>1, <2>2, <2>3, <2>4 DEF Link
  <2>7. thread' \in [Clients -> Thread]
    <3>1. CASE last
      BY <1>b, <2>5, <3>1
    <3>2. CASE ~last
      <4>1. [thread[c] EXCEPT !.pos = pos + 1] \in Thread
        <5>1. pos \in Nat /\ thread[c] \in Thread
          BY <2>1
        <5> DEFINE k == pos + 1
        <5>2. k \in Nat
          BY <5>1
        <5> HIDE DEF k
        <5>3. [thread[c] EXCEPT !.pos = k] \in Thread
          BY <5>1, <5>2 DEF Thread
        <5> QED BY <5>3 DEF k
      <4>2. thread' = [thread EXCEPT ![c] = [thread[c] EXCEPT !.pos = pos + 1]]
        BY <2>5, <3>2
      <4> QED BY <4>1, <4>2
    <3> QED BY <3>1, <3>2
  <2> QED BY <1>11, <2>6, <2>7 DEF retr
<1>12. ASSUME info(c) PROVE TypeOK'
  <2>1. Job(c) \in Ops /\ ftpConn \in Clients
    BY <1>0, <1>12 DEF info, At
  <2>2. replies' \in SUBSET ReplyType
    BY <1>12, <2>1, ReplyOK DEF info
  <2>3. thread' \in [Clients -> Thread]
    BY <1>12, <1>b DEF info
  <2> QED BY <1>12, <2>2, <2>3 DEF info
<1>13. ASSUME cloe(c) PROVE TypeOK'
  <2>1. thread' \in [Clients -> Thread] /\ up' \in BOOLEAN
    BY <1>13, <1>b DEF cloe
  <2> QED BY <1>13, <2>1 DEF cloe
<1>14. ASSUME otherMessage(c) PROVE TypeOK'
  <2>1. thread' \in [Clients -> Thread]
    BY <1>14, <1>b DEF otherMessage
  <2> QED BY <1>14, <2>1 DEF otherMessage
<1> QED BY <1>1, <1>2, <1>3, <1>4, <1>5, <1>6, <1>7, <1>8, <1>9, <1>10,
           <1>11, <1>12, <1>13, <1>14, <1>c, <1>d DEF ServerStep

\* What a client sends that could not open its file.
LEMMA ExcuseOK ==
    ASSUME TypeOK, NEW r \in replies
    PROVE  /\ Excuse(r) \in Seq(Message)
           /\ \A m \in Elements(Excuse(r)) : m.op = r.op /\ ~Real(m)
<1>1. r.op \in Ops
  BY DEF TypeOK, ReplyType
<1> DEFINE a == [type |-> "550", op |-> r.op]
           b == [type |-> "cloe", op |-> r.op]
<1>2. a \in Message /\ b \in Message
  BY <1>1 DEF Message
<1>3. /\ a.op = r.op /\ ~Real(a)
      /\ b.op = r.op /\ ~Real(b)
  BY DEF Real
<1>4. Excuse(r) = IF r.kind = "151" THEN <<a>> \o <<b>> ELSE <<b>>
  BY DEF Excuse
<1> HIDE DEF a, b
<1>5. <<a>> \in Seq(Message) /\ <<b>> \in Seq(Message) /\ <<>> \in Seq(Message)
  BY <1>2
<1>6. Elements(<<b>>) = {b} /\ Elements(<<a>>) = {a}
  BY DEF Elements
<1>7. Elements(<<a>> \o <<b>>) = {a} \cup {b}
  <2> DEFINE s == <<a>>
             t == <<b>>
  <2>1. s \in Seq(Message) /\ t \in Seq(Message) /\ Elements(s) = {a} /\ Elements(t) = {b}
    BY <1>5, <1>6
  <2> HIDE DEF s, t
  <2>2. Elements(s \o t) = {a} \cup {b}
    BY <2>1, ElementsOfConcat
  <2> QED BY <2>2 DEF s, t
<1>8. <<a>> \o <<b>> \in Seq(Message)
  BY <1>5
<1>9. CASE r.kind = "151"
  <2>1. Excuse(r) = <<a>> \o <<b>>
    BY <1>4, <1>9
  <2> QED BY <1>3, <1>7, <1>8, <2>1
<1>10. CASE r.kind # "151"
  <2>1. Excuse(r) = <<b>>
    BY <1>4, <1>10
  <2> QED BY <1>3, <1>5, <1>6, <2>1
<1> QED BY <1>9, <1>10

\* Every action of a client keeps the types.
LEMMA ClientTypes ==
    ASSUME TypeOK, Shape,
           \/ \E o \in Ops : TaskStep(o)
           \/ \E c \in Clients : upload(c) \/ download(c) \/ crash(c)
           \/ \E r \in replies : openLocalFails(r)
    PROVE  TypeOK'
<1> USE DEF TypeOK
<1>0. \A r \in replies : r.op \in Ops /\ r.to \in Clients
  BY DEF ReplyType
<1>1. ASSUME NEW r \in replies, openLocal(r) PROVE TypeOK'
  <2>1. [link[r.op] EXCEPT !.st = "opening", !.by = r.to] \in Link
    <3> DEFINE l == link[r.op]
               d == r.to
    <3>1. l \in Link /\ d \in Clients
      BY <1>0
    <3> HIDE DEF l, d
    <3>2. [l EXCEPT !.st = "opening"] \in Link
      BY <3>1 DEF Link
    <3> DEFINE k == [l EXCEPT !.st = "opening"]
    <3>3. k \in Link
      BY <3>2
    <3> HIDE DEF k
    <3>4. [k EXCEPT !.by = d] \in Link
      BY <3>1, <3>3 DEF Link
    <3> QED BY <3>4 DEF k, l, d
  <2>2. link' = [link EXCEPT ![r.op] = [link[r.op] EXCEPT !.st = "opening", !.by = r.to]]
    BY <1>1 DEF openLocal
  <2>3. link' \in [Ops -> Link]
    BY <1>0, <2>1, <2>2
  <2> QED BY <1>1, <2>3 DEF openLocal, clientUnchanged
<1>2. ASSUME NEW r \in replies, sendmain(r) PROVE TypeOK'
  <2>1. announced' \in SUBSET [op : Ops, file : Files \cup {NoFile}]
    BY <1>2 DEF sendmain, ReplyType
  <2> QED BY <1>2, <2>1 DEF sendmain, clientUnchanged
<1>3. ASSUME NEW r \in replies, printError(r) PROVE TypeOK'
  BY <1>3 DEF printError, clientUnchanged
<1>4. ASSUME NEW o \in Ops, connectData(o) PROVE TypeOK'
  <2>1. PICK t \in {"backlog", "closed"} : link' = [link EXCEPT ![o].st = t]
    BY <1>4 DEF connectData
  <2>2. [link[o] EXCEPT !.st = t] \in Link
    BY DEF Link
  <2>3. link' \in [Ops -> Link]
    BY <2>1, <2>2
  <2> QED BY <1>4, <2>3 DEF connectData, linkUnchanged, clientUnchanged
<1>5. ASSUME NEW o \in Ops, sendData(o) PROVE TypeOK'
  <2>1. CASE link' = [link EXCEPT ![o].st = "closed"]
    <3>1. [link[o] EXCEPT !.st = "closed"] \in Link
      BY DEF Link
    <3>2. link' \in [Ops -> Link]
      BY <2>1, <3>1
    <3> QED BY <1>5, <3>2 DEF sendData, linkUnchanged, clientUnchanged
  <2> DEFINE n == link[o].n + 1
             w == Chunks(link[o].by, o)
             z == (n = 2)
             q == Append(link[o].sent, w[n])
  <2>2. CASE link' = [link EXCEPT ![o].n = n, ![o].sentAll = z, ![o].sent = q]
    <3>1. link[o].st # "none" /\ ~link[o].sentAll
      BY <1>5 DEF sendData, Runs
    <3>2. link[o].by \in Clients /\ link[o].n # 2 /\ link[o].n \in 0 .. 2
          /\ link[o].sent \in Seq(Chunk)
      <4>1. LinkShape(o)
        BY DEF Shape
      <4>2. link[o] \in Link
        OBVIOUS
      <4>3. link[o].n \in 0 .. 2 /\ link[o].sent \in Seq(Chunk)
        BY <4>2 DEF Link
      <4> QED BY <3>1, <4>1, <4>3 DEF LinkShape
    <3>3. w[n] \in Chunk /\ n \in 0 .. 2 /\ z \in BOOLEAN
      BY <3>2, TwoChunks
    <3>4. q \in Seq(Chunk)
      BY <3>2, <3>3
    <3> HIDE DEF n, z, q
    <3>5. [link[o] EXCEPT !.n = n, !.sentAll = z, !.sent = q] \in Link
      <4> DEFINE k == [link[o] EXCEPT !.n = n]
      <4>1. k \in Link
        BY <3>3 DEF Link
      <4> HIDE DEF k
      <4> DEFINE i == [k EXCEPT !.sentAll = z]
      <4>2. i \in Link
        BY <3>3, <4>1 DEF Link
      <4> HIDE DEF i
      <4>3. [i EXCEPT !.sent = q] \in Link
        BY <3>4, <4>2 DEF Link
      <4> QED BY <4>3 DEF i, k
    <3>6. link' = [link EXCEPT ![o] = [link[o] EXCEPT !.n = n, !.sentAll = z, !.sent = q]]
      BY <2>2
    <3>7. link' \in [Ops -> Link]
      BY <3>5, <3>6
    <3> QED BY <1>5, <3>7 DEF sendData, linkUnchanged, clientUnchanged
  <2> QED BY <1>5, <2>1, <2>2 DEF sendData
<1>6. ASSUME NEW o \in Ops, readData(o) PROVE TypeOK'
  <2>1. CASE link' = [link EXCEPT ![o].st = "closed"] /\ copy' = copy
    <3>1. [link[o] EXCEPT !.st = "closed"] \in Link
      BY DEF Link
    <3>2. link' \in [Ops -> Link]
      BY <2>1, <3>1
    <3> QED BY <1>6, <2>1, <3>2 DEF readData, linkUnchanged, clientUnchanged
  <2>2. CASE /\ link[o].back # <<>>
             /\ copy' = [copy EXCEPT ![o] = Append(@, Head(link[o].back))]
             /\ link' = [link EXCEPT ![o].back = Tail(@)]
    <3> DEFINE b == link[o].back
               t == Tail(b)
    <3>1. b \in Seq(Chunk)
      BY DEF Link
    <3>2. Head(b) \in Chunk /\ t \in Seq(Chunk)
      BY <2>2, <3>1, ElementsOfTail
    <3>3. copy' \in [Ops -> Seq(Chunk)]
      <4>1. Append(copy[o], Head(b)) \in Seq(Chunk)
        BY <3>2
      <4> QED BY <2>2, <4>1
    <3>4. link' = [link EXCEPT ![o] = [link[o] EXCEPT !.back = t]]
      BY <2>2
    <3> HIDE DEF t
    <3>5. [link[o] EXCEPT !.back = t] \in Link
      BY <3>2 DEF Link
    <3>6. link' \in [Ops -> Link]
      BY <3>4, <3>5
    <3> QED BY <1>6, <3>3, <3>6 DEF readData, linkUnchanged, clientUnchanged
  <2>3. CASE link' = [link EXCEPT ![o] = Empty("read", link[o].by)] /\ copy' = copy
    <3>1. link[o].by \in Clients \cup {None}
      BY DEF Link
    <3>2. Empty("read", link[o].by) \in Link
      BY <3>1, EmptyIsLink
    <3>3. link' \in [Ops -> Link]
      BY <2>3, <3>2
    <3> QED BY <1>6, <2>3, <3>3 DEF readData, linkUnchanged, clientUnchanged
  <2> QED BY <1>6, <2>1, <2>2, <2>3 DEF readData
<1>7. ASSUME NEW c \in Clients, NEW k \in {"stor", "retr"},
             NEW f \in Files \cup {NoFile}, NEW ms \in Seq({"stor", "info", "retr"}),
             ask(c, k, f, ms)
      PROVE  TypeOK'
  <2>1. PICK o \in NextOp :
          /\ op' = [op EXCEPT ![o] = [who |-> c, kind |-> k, file |-> f]]
          /\ inbox' = [inbox EXCEPT ![c] = @ \o [i \in DOMAIN ms |->
                                                    [type |-> ms[i], op |-> o]]]
    BY <1>7 DEF ask
  <2> DEFINE new == [i \in DOMAIN ms |-> [type |-> ms[i], op |-> o]]
  <2>2. new \in Seq(Message)
    <3>1. \A i \in 1 .. Len(ms) : ms[i] \in {"stor", "info", "retr"}
      OBVIOUS
    <3>2. DOMAIN ms = 1 .. Len(ms) /\ Len(ms) \in Nat
      OBVIOUS
    <3>3. o \in Ops
      BY DEF NextOp
    <3>4. \A i \in 1 .. Len(ms) : [type |-> ms[i], op |-> o] \in Message
      BY <3>1, <3>3 DEF Message
    <3> QED BY <3>2, <3>4, IsASeq
  <2>3. inbox' \in [Clients -> Seq(Message)]
    <3> HIDE DEF new
    <3>1. inbox' = [inbox EXCEPT ![c] = inbox[c] \o new]
      BY <2>1 DEF new
    <3>2. inbox[c] \o new \in Seq(Message)
      BY <2>2
    <3> QED BY <3>1, <3>2
  <2>4. op' \in [Ops -> [who : Clients \cup {None}, kind : {"stor", "retr", "none"},
                         file : Files \cup {NoFile}]]
    BY <2>1
  <2> QED BY <1>7, <2>3, <2>4 DEF ask
<1>8. ASSUME NEW c \in Clients, upload(c) PROVE TypeOK'
  <2>1. PICK n \in Names : ask(c, "stor", <<n, 0>>, <<"stor", "info">>)
    BY <1>8 DEF upload
  <2>2. <<n, 0>> \in Files
    BY TransferAssumption DEF Files
  <2>3. <<"stor", "info">> \in Seq({"stor", "info", "retr"})
    OBVIOUS
  <2> QED BY <1>7, <2>1, <2>2, <2>3
<1>9. ASSUME NEW c \in Clients, download(c) PROVE TypeOK'
  <2>1. PICK f \in {a.file : a \in announced} : ask(c, "retr", f, <<"retr">>)
    BY <1>9 DEF download
  <2>2. f \in Files \cup {NoFile}
    OBVIOUS
  <2>3. <<"retr">> \in Seq({"stor", "info", "retr"})
    OBVIOUS
  <2> QED BY <1>7, <2>1, <2>2, <2>3
<1>10. ASSUME NEW r \in replies, openLocalFails(r) PROVE TypeOK'
  <2>1. Excuse(r) \in Seq(Message)
    BY <1>10, ExcuseOK
  <2>2. inbox' = [inbox EXCEPT ![r.to] = @ \o Excuse(r)]
    BY <1>10 DEF openLocalFails
  <2>3. inbox' \in [Clients -> Seq(Message)]
    <3>1. inbox[r.to] \o Excuse(r) \in Seq(Message)
      BY <1>0, <2>1
    <3> QED BY <1>0, <2>2, <3>1
  <2> QED BY <1>10, <2>3 DEF openLocalFails, clientUnchanged
<1>11. ASSUME NEW c \in Clients, crash(c) PROVE TypeOK'
  <2>1. PICK n \in 0 .. Len(inbox[c]) : inbox' = [inbox EXCEPT ![c] = SubSeq(@, 1, n)]
    BY <1>11 DEF crash
  <2>2. inbox' \in [Clients -> Seq(Message)]
    <3>1. inbox[c] \in Seq(Message)
      OBVIOUS
    <3>2. SubSeq(inbox[c], 1, n) \in Seq(Message)
      BY <3>1, ElementsOfSplit
    <3>3. inbox \in [Clients -> Seq(Message)]
      OBVIOUS
    <3> QED BY <2>1, <3>2, <3>3
  <2>3. link' = [o \in Ops |-> IF link[o].by = c THEN [link[o] EXCEPT !.sentAll = TRUE]
                               ELSE link[o]]
    BY <1>11 DEF crash
  <2>4. \A o \in Ops : [link[o] EXCEPT !.sentAll = TRUE] \in Link
    <3>1. ASSUME NEW l \in Link PROVE [l EXCEPT !.sentAll = TRUE] \in Link
      BY DEF Link
    <3> QED BY <3>1
  <2>5. link' \in [Ops -> Link]
    BY <2>3, <2>4
  <2> QED BY <1>11, <2>2, <2>5 DEF crash
<1> QED BY <1>1, <1>2, <1>3, <1>4, <1>5, <1>6, <1>8, <1>9, <1>10, <1>11
        DEF TaskStep

LEMMA TypeStep ==
    ASSUME TypeOK, Shape, SpaceInv, [Next]_vars
    PROVE  TypeOK'
<1>1. CASE UNCHANGED vars
  BY <1>1 DEF vars, TypeOK
<1> QED BY <1>1, ServerTypes, ClientTypes DEF Next, Failure

----------------------------------------------------------------------------
(***************************************************************************)
(* What each step does to the messages that are queued.                    *)
(***************************************************************************)
LEMMA QueuedSame ==
    ASSUME inbox' = inbox, megser' = megser
    PROVE  Queued' = Queued
BY DEF Queued

LEMMA QueuedMoved ==
    ASSUME TypeOK, NEW c \in Clients, messageCallback(c)
    PROVE  /\ Queued' = Queued
           /\ \A d \in Clients : Elements(inbox'[d]) \subseteq Elements(inbox[d])
           /\ Elements(megser') \subseteq Elements(megser) \cup Elements(inbox[c])
<1>1. PICK n \in 1 .. Len(inbox[c]) :
        /\ megser' = megser \o SubSeq(inbox[c], 1, n)
        /\ inbox' = [inbox EXCEPT ![c] = SubSeq(@, n + 1, Len(@))]
  BY DEF messageCallback
<1> DEFINE a == SubSeq(inbox[c], 1, n)
           b == SubSeq(inbox[c], n + 1, Len(inbox[c]))
<1>2. a \in Seq(Message) /\ b \in Seq(Message)
      /\ Elements(inbox[c]) = Elements(a) \cup Elements(b)
  <2>1. inbox[c] \in Seq(Message) /\ n \in 0 .. Len(inbox[c])
    BY <1>1 DEF TypeOK
  <2> QED BY <2>1, ElementsOfSplit
<1>3. inbox'[c] = b /\ \A d \in Clients \ {c} : inbox'[d] = inbox[d]
  <2>1. inbox \in [Clients -> Seq(Message)]
    BY DEF TypeOK
  <2> QED BY <1>1, <2>1
<1>4. Elements(megser') = Elements(megser) \cup Elements(a)
  <2>1. megser \in Seq(Message) /\ megser' = megser \o a
    BY <1>1 DEF TypeOK
  <2> HIDE DEF a
  <2> QED BY <1>2, <2>1, ElementsOfConcat
<1> HIDE DEF a, b
<1>5. Elements(inbox'[c]) = Elements(b)
      /\ \A d \in Clients \ {c} : Elements(inbox'[d]) = Elements(inbox[d])
  BY <1>3
<1>6. Queued' = Elements(megser') \cup UNION {Elements(inbox'[d]) : d \in Clients}
  BY DEF Queued, Elements
<1>7. ASSUME NEW m \in Queued PROVE m \in Queued'
  <2>1. CASE m \in Elements(megser)
    BY <1>4, <1>6, <2>1
  <2>2. ASSUME NEW d \in Clients, m \in Elements(inbox[d]) PROVE m \in Queued'
    <3>1. m \in Elements(inbox'[d]) \/ m \in Elements(megser')
      BY <1>2, <1>4, <1>5, <2>2
    <3> QED BY <1>6, <3>1
  <2> QED BY <2>1, <2>2 DEF Queued
<1>8. ASSUME NEW m \in Queued' PROVE m \in Queued
  <2>1. CASE m \in Elements(megser')
    <3>1. m \in Elements(megser) \/ m \in Elements(inbox[c])
      BY <1>2, <1>4, <2>1
    <3> QED BY <3>1 DEF Queued
  <2>2. ASSUME NEW d \in Clients, m \in Elements(inbox'[d]) PROVE m \in Queued
    <3>1. m \in Elements(inbox[d])
      BY <1>2, <1>5, <2>2
    <3> QED BY <3>1 DEF Queued
  <2> QED BY <1>6, <2>1, <2>2
<1> QED BY <1>2, <1>4, <1>5, <1>7, <1>8

LEMMA QueuedTaken ==
    ASSUME TypeOK, megser # <<>>, megser' = Tail(megser), inbox' = inbox
    PROVE  /\ Head(megser) \in Message
           /\ Queued = Queued' \cup {Head(megser)}
           /\ Elements(megser) = Elements(megser') \cup {Head(megser)}
<1>1. /\ Head(megser) \in Message /\ Tail(megser) \in Seq(Message)
      /\ Elements(megser) = {Head(megser)} \cup Elements(Tail(megser))
  BY ElementsOfTail DEF TypeOK
<1>2. Queued' = Elements(Tail(megser)) \cup UNION {Elements(inbox[d]) : d \in Clients}
  BY DEF Queued
<1> QED BY <1>1, <1>2 DEF Queued

LEMMA QueuedAsked ==
    ASSUME TypeOK, NEW c \in Clients, NEW o \in Ops,
           NEW ms \in Seq({"stor", "info", "retr"}), megser' = megser,
           inbox' = [inbox EXCEPT ![c] = @ \o [i \in DOMAIN ms |-> Msg(ms[i], o)]]
    PROVE  /\ Queued' = Queued \cup {Msg(t, o) : t \in Elements(ms)}
           /\ Elements(inbox'[c]) = Elements(inbox[c]) \cup {Msg(t, o) : t \in Elements(ms)}
           /\ \A d \in Clients \ {c} : Elements(inbox'[d]) = Elements(inbox[d])
<1> DEFINE new == [i \in DOMAIN ms |-> Msg(ms[i], o)]
<1>1. DOMAIN ms = 1 .. Len(ms) /\ Len(ms) \in Nat
      /\ \A i \in 1 .. Len(ms) : ms[i] \in {"stor", "info", "retr"}
  OBVIOUS
<1>2. new \in Seq(Message)
  <2>1. \A i \in 1 .. Len(ms) : Msg(ms[i], o) \in Message
    BY <1>1 DEF Message, Msg
  <2> QED BY <1>1, <2>1, IsASeq
<1>3. Elements(new) = {Msg(t, o) : t \in Elements(ms)}
  BY DEF Elements
<1> HIDE DEF new
<1>4. inbox'[c] = inbox[c] \o new /\ \A d \in Clients \ {c} : inbox'[d] = inbox[d]
  BY DEF TypeOK, new
<1>5. Elements(inbox'[c]) = Elements(inbox[c]) \cup Elements(new)
  <2>1. inbox[c] \in Seq(Message)
    BY DEF TypeOK
  <2>2. Elements(inbox[c] \o new) = Elements(inbox[c]) \cup Elements(new)
    BY <1>2, <2>1, ElementsOfConcat
  <2> QED BY <1>4, <2>2
<1>6. Queued' = Elements(megser) \cup UNION {Elements(inbox'[d]) : d \in Clients}
  BY DEF Queued, Elements
<1>7. \A d \in Clients \ {c} : Elements(inbox'[d]) = Elements(inbox[d])
  BY <1>4
<1>8. ASSUME NEW m \in Queued' PROVE m \in Queued \cup Elements(new)
  BY <1>5, <1>6, <1>7, <1>8 DEF Queued
<1>9. ASSUME NEW m \in Queued \cup Elements(new) PROVE m \in Queued'
  BY <1>5, <1>6, <1>7, <1>9 DEF Queued
<1> QED BY <1>3, <1>5, <1>7, <1>8, <1>9

LEMMA QueuedFailed ==
    ASSUME TypeOK, NEW r \in replies, openLocalFails(r)
    PROVE  /\ Queued' = Queued \cup Elements(Excuse(r))
           /\ Elements(inbox'[r.to]) = Elements(inbox[r.to]) \cup Elements(Excuse(r))
           /\ \A d \in Clients \ {r.to} : Elements(inbox'[d]) = Elements(inbox[d])
<1>1. r.op \in Ops /\ r.to \in Clients
  BY DEF TypeOK, ReplyType
<1>2. Excuse(r) \in Seq(Message)
  BY ExcuseOK
<1>3. inbox' = [inbox EXCEPT ![r.to] = @ \o Excuse(r)] /\ megser' = megser
  BY DEF openLocalFails, clientUnchanged
<1>4. inbox'[r.to] = inbox[r.to] \o Excuse(r)
      /\ \A d \in Clients \ {r.to} : inbox'[d] = inbox[d]
  BY <1>1, <1>3 DEF TypeOK
<1>5. Elements(inbox'[r.to]) = Elements(inbox[r.to]) \cup Elements(Excuse(r))
  <2>1. inbox[r.to] \in Seq(Message)
    BY <1>1 DEF TypeOK
  <2> QED BY <1>2, <1>4, <2>1, ElementsOfConcat
<1>6. Queued' = Elements(megser) \cup UNION {Elements(inbox'[d]) : d \in Clients}
  BY <1>3 DEF Queued, Elements
<1>7. \A d \in Clients \ {r.to} : Elements(inbox'[d]) = Elements(inbox[d])
  BY <1>4
<1>8. ASSUME NEW m \in Queued' PROVE m \in Queued \cup Elements(Excuse(r))
  BY <1>5, <1>6, <1>7, <1>8 DEF Queued
<1>9. ASSUME NEW m \in Queued \cup Elements(Excuse(r)) PROVE m \in Queued'
  BY <1>1, <1>5, <1>6, <1>7, <1>9 DEF Queued
<1> QED BY <1>5, <1>7, <1>8, <1>9

LEMMA QueuedLost ==
    ASSUME TypeOK, NEW c \in Clients, crash(c)
    PROVE  /\ Queued' \subseteq Queued
           /\ \A m \in Queued : m \in Queued' \/ m \in Elements(inbox[c])
           /\ \A d \in Clients : Elements(inbox'[d]) \subseteq Elements(inbox[d])
<1>1. PICK n \in 0 .. Len(inbox[c]) : inbox' = [inbox EXCEPT ![c] = SubSeq(@, 1, n)]
  BY DEF crash
<1>2. megser' = megser
  BY DEF crash
<1>3. Elements(SubSeq(inbox[c], 1, n)) \subseteq Elements(inbox[c])
  BY <1>1, ElementsOfSplit DEF TypeOK
<1>4. inbox'[c] = SubSeq(inbox[c], 1, n) /\ \A d \in Clients \ {c} : inbox'[d] = inbox[d]
  BY <1>1 DEF TypeOK
<1>5. Elements(inbox'[c]) \subseteq Elements(inbox[c])
      /\ \A d \in Clients \ {c} : Elements(inbox'[d]) = Elements(inbox[d])
  BY <1>3, <1>4
<1>6. Queued' = Elements(megser) \cup UNION {Elements(inbox'[d]) : d \in Clients}
  BY <1>2 DEF Queued, Elements
<1>7. ASSUME NEW m \in Queued PROVE m \in Queued' \/ m \in Elements(inbox[c])
  <2>1. CASE m \in Elements(megser)
    BY <1>6, <2>1
  <2>2. ASSUME NEW d \in Clients, m \in Elements(inbox[d])
        PROVE  m \in Queued' \/ m \in Elements(inbox[c])
    BY <1>5, <1>6, <2>2
  <2> QED BY <2>1, <2>2 DEF Queued
<1>8. ASSUME NEW m \in Queued' PROVE m \in Queued
  BY <1>5, <1>6, <1>8 DEF Queued
<1> QED BY <1>5, <1>7, <1>8

----------------------------------------------------------------------------
(***************************************************************************)
(* What no step takes back, and the shape.                                 *)
(***************************************************************************)
LEMMA Mono ==
    ASSUME TypeOK, [Next]_vars
    PROVE  /\ failed \subseteq failed' /\ confused \subseteq confused'
           /\ \A o \in Asked : o \in Asked' /\ op'[o] = op[o]
           /\ exists \subseteq exists' /\ announced \subseteq announced'
<1>1. ASSUME op' = op PROVE \A o \in Asked : o \in Asked' /\ op'[o] = op[o]
  BY <1>1 DEF Asked
<1>2. ASSUME NEW c \in Clients, ServerStep(c) \/ openFails(c)
      PROVE  /\ op' = op /\ failed \subseteq failed' /\ confused \subseteq confused'
             /\ exists \subseteq exists' /\ announced \subseteq announced'
  BY <1>2 DEF ServerStep, messageCallback, nextMessage, createFile, openFile, openFails,
       getFilefd, connectPort, bindAddress, listenPort, tellPort, acceptBegins, accept1,
       stor, retr, info, cloe, otherMessage, Mixed, history
<1>3. ASSUME NEW o \in Ops, TaskStep(o)
      PROVE  /\ op' = op /\ failed \subseteq failed' /\ confused \subseteq confused'
             /\ exists \subseteq exists' /\ announced \subseteq announced'
  BY <1>3 DEF TaskStep, openLocal, sendmain, printError, connectData, sendData, readData,
       linkUnchanged, clientUnchanged
<1>4. ASSUME NEW r \in replies, openLocalFails(r)
      PROVE  /\ op' = op /\ failed \subseteq failed' /\ confused \subseteq confused'
             /\ exists \subseteq exists' /\ announced \subseteq announced'
  BY <1>4 DEF openLocalFails, clientUnchanged
<1>5. ASSUME NEW c \in Clients, crash(c)
      PROVE  /\ op' = op /\ failed \subseteq failed' /\ confused \subseteq confused'
             /\ exists \subseteq exists' /\ announced \subseteq announced'
  BY <1>5 DEF crash
<1>6. ASSUME NEW c \in Clients, NEW k \in {"stor", "retr"}, NEW f, NEW ms, ask(c, k, f, ms)
      PROVE  /\ failed \subseteq failed' /\ confused \subseteq confused'
             /\ \A o \in Asked : o \in Asked' /\ op'[o] = op[o]
             /\ exists \subseteq exists' /\ announced \subseteq announced'
  <2>1. PICK o \in NextOp : op' = [op EXCEPT ![o] = [who |-> c, kind |-> k, file |-> f]]
    BY <1>6 DEF ask
  <2>2. o \notin Asked
    BY DEF NextOp, Asked
  <2>3. \A p \in Asked : op'[p] = op[p] /\ p \in Asked'
    BY <2>1, <2>2 DEF Asked, TypeOK
  <2> QED BY <1>6, <2>3 DEF ask, history
<1>7. ASSUME NEW c \in Clients, upload(c) \/ download(c)
      PROVE  /\ failed \subseteq failed' /\ confused \subseteq confused'
             /\ \A o \in Asked : o \in Asked' /\ op'[o] = op[o]
             /\ exists \subseteq exists' /\ announced \subseteq announced'
  BY <1>6, <1>7 DEF upload, download
<1>8. CASE UNCHANGED vars
  BY <1>1, <1>8 DEF vars
<1> QED BY <1>1, <1>2, <1>3, <1>4, <1>5, <1>7, <1>8 DEF Next, Failure

\* Where its steps take a thread.
Step(c, from, to) ==
    /\ thread[c].pc = from /\ thread'[c].pc = to
    /\ thread'[c].job = thread[c].job /\ thread'[c].pos = thread[c].pos
Finishes(c, from) == thread[c].pc = from /\ thread'[c] = [Idle EXCEPT !.pc = "next"]
SameFile(c) == thread'[c].file = thread[c].file
SameListen(c) == thread'[c].listen = thread[c].listen

LEMMA Moves ==
    ASSUME TypeOK, NEW c \in Clients
    PROVE  /\ messageCallback(c) =>
                 Step(c, "idle", "next") /\ SameFile(c) /\ SameListen(c)
           /\ nextMessage(c) /\ megser = <<>> =>
                 thread[c].pc = "next" /\ thread'[c] = Idle
           /\ nextMessage(c) /\ megser # <<>> =>
                 /\ thread[c].pc = "next" /\ thread'[c].pc = Head(megser).type
                 /\ thread'[c].job = Head(megser).op /\ thread'[c].pos = thread[c].pos
                 /\ SameFile(c) /\ SameListen(c)
           /\ createFile(c) =>
                 /\ Step(c, "stor", "open") /\ SameListen(c)
                 /\ thread'[c].file = FreeName(op[Job(c)].file)
           /\ openFile(c) => Step(c, "open", "port") /\ SameFile(c) /\ SameListen(c)
           /\ openFails(c) => Finishes(c, "open")
           /\ getFilefd(c) /\ op[Job(c)].file \in exists =>
                 /\ Step(c, "retr", "port") /\ SameListen(c)
                 /\ thread'[c].file = op[Job(c)].file
           /\ getFilefd(c) /\ op[Job(c)].file \notin exists => Finishes(c, "retr")
           /\ connectPort(c) => Step(c, "port", "bind") /\ SameFile(c) /\ SameListen(c)
           /\ bindAddress(c) => Step(c, "bind", "listen") /\ SameFile(c) /\ SameListen(c)
           /\ listenPort(c) => Step(c, "listen", "tell") /\ SameFile(c) /\ SameListen(c)
           /\ tellPort(c) => Step(c, "tell", "ported") /\ SameFile(c) /\ SameListen(c)
           /\ acceptBegins(c) =>
                 /\ Step(c, "ported", "accept") /\ SameFile(c)
                 /\ thread'[c].listen = acceptSocket_
           /\ accept1(c) =>
                 /\ Step(c, "accept", IF op[Job(c)].kind = "stor" THEN "reading" ELSE "sending")
                 /\ SameFile(c) /\ SameListen(c)
           /\ stor(c) =>
                 Finishes(c, "reading") \/ (thread' = thread /\ thread[c].pc = "reading")
           /\ retr(c) =>
                 \/ Finishes(c, "sending")
                 \/ /\ thread[c].pc = "sending" /\ thread'[c].pc = "sending"
                    /\ thread'[c].job = thread[c].job /\ SameFile(c) /\ SameListen(c)
                    /\ thread'[c].pos = thread[c].pos + 1
           /\ info(c) => Finishes(c, "info")
           /\ cloe(c) => Finishes(c, "cloe")
           /\ otherMessage(c) => Finishes(c, "550")
           /\ ServerStep(c) \/ openFails(c) =>
                 \A d \in Clients \ {c} : thread'[d] = thread[d]
<1>1. thread[c] \in Thread /\ thread \in [Clients -> Thread]
  BY DEF TypeOK
<1> DEFINE Others == \A d \in Clients \ {c} : thread'[d] = thread[d]
<1>2. ASSUME NEW p, Goes(c, p)
      PROVE  /\ Others /\ thread'[c].pc = p /\ thread'[c].job = thread[c].job
             /\ thread'[c].pos = thread[c].pos /\ SameFile(c) /\ SameListen(c)
  BY <1>1, <1>2 DEF Goes, Thread, SameFile, SameListen
<1>3. ASSUME Ends(c) PROVE Others /\ thread'[c] = [Idle EXCEPT !.pc = "next"]
  BY <1>1, <1>3 DEF Ends
<1>4. ASSUME NEW t, thread' = [thread EXCEPT ![c] = t] PROVE Others /\ thread'[c] = t
  BY <1>1, <1>4
<1>5. messageCallback(c) =>
         Others /\ Step(c, "idle", "next") /\ SameFile(c) /\ SameListen(c)
  BY <1>2 DEF messageCallback, At, Step
<1>6. nextMessage(c) /\ megser = <<>> =>
         Others /\ thread[c].pc = "next" /\ thread'[c] = Idle
  BY <1>1 DEF nextMessage, At
<1>7. nextMessage(c) /\ megser # <<>> =>
         /\ Others /\ thread[c].pc = "next" /\ thread'[c].pc = Head(megser).type
         /\ thread'[c].job = Head(megser).op /\ thread'[c].pos = thread[c].pos
         /\ SameFile(c) /\ SameListen(c)
  <2> DEFINE t == Head(megser).type
             o == Head(megser).op
  <2>1. nextMessage(c) /\ megser # <<>> =>
           thread[c].pc = "next" /\ thread' = [thread EXCEPT ![c] =
                                        [thread[c] EXCEPT !.pc = t, !.job = o]]
    BY DEF nextMessage, At
  <2> HIDE DEF t, o
  <2>2. LET n == [thread[c] EXCEPT !.pc = t, !.job = o]
        IN  /\ n.pc = t /\ n.job = o /\ n.pos = thread[c].pos
            /\ n.file = thread[c].file /\ n.listen = thread[c].listen
    BY <1>1 DEF Thread
  <2>3. nextMessage(c) /\ megser # <<>> =>
         /\ Others /\ thread[c].pc = "next" /\ thread'[c].pc = t
         /\ thread'[c].job = o /\ thread'[c].pos = thread[c].pos
         /\ SameFile(c) /\ SameListen(c)
    BY <1>4, <2>1, <2>2 DEF SameFile, SameListen
  <2> QED BY <2>3 DEF t, o
<1>8. ASSUME NEW p, NEW f, thread' = [thread EXCEPT ![c].pc = p, ![c].file = f]
      PROVE  /\ Others /\ thread'[c].pc = p /\ thread'[c].job = thread[c].job
             /\ thread'[c].pos = thread[c].pos /\ SameListen(c) /\ thread'[c].file = f
  BY <1>1, <1>8 DEF Thread, SameListen
<1>9. createFile(c) =>
         /\ Others /\ Step(c, "stor", "open") /\ SameListen(c)
         /\ thread'[c].file = FreeName(op[Job(c)].file)
  <2> DEFINE name == FreeName(op[Job(c)].file)
  <2>1. createFile(c) =>
           thread[c].pc = "stor" /\ thread' = [thread EXCEPT ![c].pc = "open", ![c].file = name]
    BY DEF createFile, At
  <2> HIDE DEF name
  <2>2. createFile(c) =>
           Others /\ Step(c, "stor", "open") /\ SameListen(c) /\ thread'[c].file = name
    BY <1>8, <2>1 DEF Step
  <2> QED BY <2>2 DEF name
<1>10. openFile(c) => Others /\ Step(c, "open", "port") /\ SameFile(c) /\ SameListen(c)
  BY <1>2 DEF openFile, At, Step
<1>11. openFails(c) => Others /\ Finishes(c, "open")
  BY <1>3 DEF openFails, At, Finishes
<1>12. getFilefd(c) /\ op[Job(c)].file \in exists =>
         /\ Others /\ Step(c, "retr", "port") /\ SameListen(c)
         /\ thread'[c].file = op[Job(c)].file
  BY <1>8 DEF getFilefd, At, Step
<1>13. getFilefd(c) /\ op[Job(c)].file \notin exists => Others /\ Finishes(c, "retr")
  BY <1>3 DEF getFilefd, At, Finishes
<1>14. /\ connectPort(c) =>
             Others /\ Step(c, "port", "bind") /\ SameFile(c) /\ SameListen(c)
       /\ bindAddress(c) =>
             Others /\ Step(c, "bind", "listen") /\ SameFile(c) /\ SameListen(c)
       /\ listenPort(c) =>
             Others /\ Step(c, "listen", "tell") /\ SameFile(c) /\ SameListen(c)
       /\ tellPort(c) =>
             Others /\ Step(c, "tell", "ported") /\ SameFile(c) /\ SameListen(c)
  BY <1>2 DEF connectPort, bindAddress, listenPort, tellPort, At, Step
<1>15. acceptBegins(c) =>
         /\ Others /\ Step(c, "ported", "accept") /\ SameFile(c)
         /\ thread'[c].listen = acceptSocket_
  BY <1>1 DEF acceptBegins, At, Step, SameFile, Thread
<1>16. accept1(c) =>
         /\ Others
         /\ Step(c, "accept", IF op[Job(c)].kind = "stor" THEN "reading" ELSE "sending")
         /\ SameFile(c) /\ SameListen(c)
  BY <1>2 DEF accept1, At, Step
<1>17. stor(c) =>
         /\ Others
         /\ Finishes(c, "reading") \/ (thread' = thread /\ thread[c].pc = "reading")
  BY <1>3 DEF stor, At, Finishes
<1>18. retr(c) =>
         /\ Others
         /\ \/ Finishes(c, "sending")
            \/ /\ thread[c].pc = "sending" /\ thread'[c].pc = "sending"
               /\ thread'[c].job = thread[c].job /\ SameFile(c) /\ SameListen(c)
               /\ thread'[c].pos = thread[c].pos + 1
  <2>1. retr(c) => /\ thread[c].pc = "sending"
                   /\ Ends(c) \/ thread' = [thread EXCEPT ![c].pos = thread[c].pos + 1]
    BY DEF retr, At
  <2> DEFINE k == thread[c].pos + 1
  <2> HIDE DEF k
  <2>2. ASSUME thread' = [thread EXCEPT ![c].pos = k]
        PROVE  /\ Others /\ thread'[c].pc = thread[c].pc /\ thread'[c].pos = k
               /\ thread'[c].job = thread[c].job /\ SameFile(c) /\ SameListen(c)
    BY <1>1, <2>2 DEF Thread, SameFile, SameListen
  <2> QED BY <1>3, <2>1, <2>2 DEF Finishes, k
<1>19. info(c) => Others /\ Finishes(c, "info")
  BY <1>3 DEF info, At, Finishes
<1>20. /\ cloe(c) => Others /\ Finishes(c, "cloe")
       /\ otherMessage(c) => Others /\ Finishes(c, "550")
  BY <1>3 DEF cloe, otherMessage, At, Finishes
<1> HIDE DEF Others
<1>21. ServerStep(c) \/ openFails(c) => Others
  BY <1>5, <1>6, <1>7, <1>9, <1>10, <1>11, <1>12, <1>13, <1>14, <1>15, <1>16, <1>17,
     <1>18, <1>19, <1>20, Zenon DEF ServerStep
<1>22. ServerStep(c) \/ openFails(c) => \A d \in Clients \ {c} : thread'[d] = thread[d]
  BY <1>21 DEF Others
<1> QED BY <1>5, <1>6, <1>7, <1>9, <1>10, <1>11, <1>12, <1>13, <1>14, <1>15, <1>16,
           <1>17, <1>18, <1>19, <1>20, <1>22

\* Messages, answers, sockets and connections are of transfers asked for.
LEMMA ShapeKept ==
    ASSUME TypeOK, TypeOK', Shape, op' = op,
           \A m \in Queued' : m \in Queued \/ (~Real(m) /\ m.op \in Asked),
           \A c \in Clients : ThreadShape(c)',
           acceptSocket_' # acceptSocket_ => acceptSocket_' \in Asked,
           \A r \in replies' : r \in replies \/ r.op \in Asked,
           \A a \in announced' : a \in announced \/ a.op \in Asked,
           \A o \in Ops : link'[o] = link[o] \/ LinkShape(o)',
           gone' \subseteq failed'
    PROVE  Shape'
<1>1. Asked' = Asked
  BY DEF Asked
<1>2. \A m \in Queued' :
          /\ m.op \in Asked
          /\ m.type \in {"stor", "info"} => op[m.op].kind = "stor"
          /\ m.type = "retr" => op[m.op].kind = "retr"
  BY DEF Shape, Real
<1>3. \A o \in Ops : LinkShape(o)'
  BY DEF Shape, LinkShape
<1>4. /\ acceptSocket_' # None => acceptSocket_' \in Asked
      /\ \A r \in replies' : r.op \in Asked
      /\ \A a \in announced' : a.op \in Asked
  BY DEF Shape
<1>5. /\ \A o \in Asked : Who(o)' \in Clients
      /\ \A o \in Asked : op'[o].kind = "stor" =>
            op'[o].file \in Files /\ op'[o].file[2] = 0
      /\ \A o \in Asked : \A p \in Ops : p < o => p \in Asked
  BY DEF Shape, Who
<1> QED BY <1>1, <1>2, <1>3, <1>4, <1>5, Zenon DEF Shape

\* The threads that do not step.
LEMMA OtherThreads ==
    ASSUME TypeOK, Shape, op' = op, NEW c \in Clients, NEW d \in Clients \ {c},
           thread'[d] = thread[d],
           ftpConn' = ftpConn \/ ftpConn' \in Clients,
           acceptSocket_' = acceptSocket_ \/ acceptSocket_' \in Asked,
           \A o \in Ops : link[o].st # "none" => link'[o].st # "none"
    PROVE  ThreadShape(d)'
<1>1. Asked' = Asked
  BY DEF Asked
<1>2. thread[d].pc \in {"reading", "sending"} => thread[d].listen \in Ops
  BY DEF Shape, ThreadShape, Transferring, Asked
<1> QED BY <1>1, <1>2 DEF Shape, ThreadShape, Busy, Job

\* The threads keep the shape.
LEMMA ServerShape ==
    ASSUME TypeOK, TypeOK', Shape, SpaceInv, NEW c \in Clients,
           ServerStep(c) \/ openFails(c)
    PROVE  Shape'
<1>0. /\ Queued' \subseteq Queued /\ op' = op
      /\ gone' = gone /\ failed \subseteq failed' /\ announced' = announced
      /\ \A d \in Clients \ {c} : thread'[d] = thread[d]
  <2>1. Queued' \subseteq Queued
    <3>1. CASE messageCallback(c)
      BY <3>1, QueuedMoved
    <3>2. CASE nextMessage(c)
      <4>1. CASE megser = <<>>
        BY <3>2, <4>1, QueuedSame DEF nextMessage
      <4>2. CASE megser # <<>>
        BY <3>2, <4>2, QueuedTaken DEF nextMessage
      <4> QED BY <4>1, <4>2
    <3>3. CASE ~messageCallback(c) /\ ~nextMessage(c)
      <4>1. inbox' = inbox /\ megser' = megser
        BY <3>3 DEF ServerStep, createFile, openFile, openFails, getFilefd, connectPort,
           bindAddress, listenPort, tellPort,
           acceptBegins, accept1, stor, retr, info, cloe, otherMessage
      <4> QED BY <4>1, QueuedSame
    <3> QED BY <3>1, <3>2, <3>3
  <2>2. op' = op /\ gone' = gone /\ failed \subseteq failed' /\ announced' = announced
    BY DEF ServerStep, messageCallback, nextMessage, createFile, openFile, openFails,
       getFilefd, connectPort, bindAddress, listenPort, tellPort, acceptBegins, accept1,
       stor, retr, info, cloe, otherMessage, history
  <2>3. \A d \in Clients \ {c} : thread'[d] = thread[d]
    BY Moves
  <2> QED BY <2>1, <2>2, <2>3

<1>1. /\ ThreadShape(c) /\ thread[c] \in Thread /\ Asked' = Asked
      /\ \A o \in Asked : o \in Ops
  BY <1>0 DEF Shape, TypeOK, Asked
<1>2. ASSUME NEW p, Goes(c, p)
      PROVE  /\ thread'[c].pc = p /\ thread'[c].job = thread[c].job
             /\ thread'[c].listen = thread[c].listen /\ thread'[c].file = thread[c].file
             /\ thread'[c].pos = thread[c].pos
  BY <1>2 DEF Goes, TypeOK, Thread
<1>p. thread'[c].pc # "sending" => thread'[c].pos = 0
  <2>1. thread[c].pc # "sending" => thread[c].pos = 0
    BY <1>1 DEF ThreadShape
  <2>2. Idle.pos = 0 /\ [Idle EXCEPT !.pc = "next"].pos = 0
    BY DEF Idle
  <2>3. CASE nextMessage(c)
    BY <2>1, <2>2, <2>3, Moves
  <2>4. CASE getFilefd(c)
    BY <2>1, <2>2, <2>4, Moves DEF Step, Finishes
  <2>5. CASE ~nextMessage(c) /\ ~getFilefd(c)
    BY <2>1, <2>2, <2>5, Moves DEF ServerStep, Step, Finishes
  <2> QED BY <2>3, <2>4, <2>5
<1>3. ASSUME Ends(c), ftpConn' = ftpConn, thread[c].pc # "idle" PROVE ThreadShape(c)'
  <2>1. thread'[c].pc = "next" /\ ftpConn \in Clients
    BY <1>1, <1>3 DEF Ends, Idle, TypeOK, ThreadShape
  <2> QED BY <1>p, <1>3, <2>1 DEF ThreadShape, Busy, Transferring
<1>4. ASSUME ThreadShape(c)', ftpConn' = ftpConn \/ ftpConn' \in Clients,
             acceptSocket_' = acceptSocket_ \/ acceptSocket_' \in Asked,
             \A r \in replies' : r \in replies \/ r.op \in Asked,
             \A o \in Ops : link'[o] = link[o] \/
                (LinkShape(o)' /\ (link[o].st # "none" => link'[o].st # "none"))
      PROVE  Shape'
  <2>1. \A d \in Clients : ThreadShape(d)'
    BY <1>0, <1>4, OtherThreads
  <2>2. gone' \subseteq failed'
    BY <1>0 DEF Shape
  <2> QED BY <1>0, <1>4, <2>1, <2>2, ShapeKept
<1>5. CASE messageCallback(c)
  <2>1. thread'[c].pc = "next"
    BY <1>2, <1>5 DEF messageCallback
  <2>2. ThreadShape(c)'
    BY <1>p, <1>5, <2>1 DEF messageCallback, ThreadShape, Busy, Transferring
  <2> QED BY <1>4, <1>5, <2>2 DEF messageCallback
<1>6. CASE nextMessage(c)
  <2>1. CASE megser = <<>>
    <3>1. thread'[c].pc = "idle"
      BY <1>6, <2>1 DEF nextMessage, Idle, TypeOK
    <3>2. ThreadShape(c)'
      BY <1>p, <3>1 DEF ThreadShape, Busy, Transferring
    <3> QED BY <1>4, <1>6, <2>1, <3>2 DEF nextMessage
  <2>2. CASE megser # <<>>
    <3> DEFINE h == Head(megser)
    <3>1. h \in Queued /\ h \in Message
      BY <1>6, <2>2, QueuedTaken DEF nextMessage
    <3>2. /\ h.op \in Asked
          /\ h.type \in {"stor", "info"} => op[h.op].kind = "stor"
          /\ h.type = "retr" => op[h.op].kind = "retr"
      BY <3>1 DEF Shape
    <3>3. thread'[c].pc = h.type /\ thread'[c].job = h.op
      BY <1>6, <2>2 DEF nextMessage, TypeOK, Thread
    <3>4. ftpConn \in Clients /\ ftpConn' = ftpConn
      BY <1>1, <1>6 DEF nextMessage, At, ThreadShape
    <3>5. h.type \in {"stor", "info", "retr", "cloe", "550"}
      BY <3>1 DEF Message
    <3> HIDE DEF h
    <3>6. ThreadShape(c)'
      BY <1>p, <1>0, <1>1, <3>2, <3>3, <3>4, <3>5 DEF ThreadShape, Busy, Transferring, Job
    <3> QED BY <1>4, <1>6, <2>2, <3>6 DEF nextMessage
  <2> QED BY <2>1, <2>2
<1>7. CASE createFile(c)
  <2> DEFINE name == FreeName(op[Job(c)].file)
  <2>1. thread' = [thread EXCEPT ![c].pc = "open", ![c].file = name]
    BY <1>7 DEF createFile
  <2>2. thread[c].pc = "stor" /\ op[Job(c)].kind = "stor" /\ Job(c) \in Asked
    BY <1>1, <1>7 DEF createFile, At, ThreadShape, Busy
  <2>3. PICK n \in Names : op[Job(c)].file = <<n, 0>>
    <3>1. op[Job(c)].file \in Files /\ op[Job(c)].file[2] = 0
      BY <2>2 DEF Shape
    <3> QED BY <3>1 DEF Files
  <2>4. name \in Files
    BY <2>3, FreeNameFound
  <2> HIDE DEF name
  <2>5. thread'[c].pc = "open" /\ thread'[c].job = thread[c].job /\ thread'[c].file = name
    BY <2>1 DEF TypeOK, Thread
  <2>6. ThreadShape(c)'
    BY <1>p, <1>0, <1>1, <1>7, <2>2, <2>4, <2>5 DEF createFile, ThreadShape, Busy,
       Transferring, Job
  <2> QED BY <1>4, <1>7, <2>6 DEF createFile
<1>8. CASE openFile(c)
  <2>1. thread[c].pc = "open" /\ thread'[c].pc = "port" /\ thread'[c].job = thread[c].job
        /\ thread'[c].file = thread[c].file
    BY <1>2, <1>8 DEF openFile, At
  <2>2. ThreadShape(c)'
    BY <1>p, <1>0, <1>1, <1>8, <2>1 DEF openFile, ThreadShape, Busy, Transferring, Job
  <2> QED BY <1>4, <1>8, <2>2 DEF openFile
<1>9. CASE openFails(c)
  <2>1. thread[c].pc = "open" /\ Job(c) \in Asked /\ ftpConn \in Clients
    BY <1>1, <1>9 DEF openFails, At, ThreadShape, Busy
  <2>2. \A r \in replies' : r \in replies \/ r.op \in Asked
    BY <1>1, <1>9, <2>1, ReplyOK DEF openFails
  <2>3. ThreadShape(c)'
    BY <1>3, <1>9, <2>1 DEF openFails
  <2> QED BY <1>4, <1>9, <2>2, <2>3 DEF openFails
<1>10. CASE getFilefd(c)
  <2> DEFINE f == op[Job(c)].file
  <2>1. thread[c].pc = "retr"
    BY <1>10 DEF getFilefd, At
  <2>2. CASE f \notin exists
    <3>1. ThreadShape(c)'
      BY <1>3, <1>10, <2>1, <2>2 DEF getFilefd
    <3> QED BY <1>4, <1>10, <3>1 DEF getFilefd
  <2>3. CASE f \in exists
    <3>1. thread' = [thread EXCEPT ![c].pc = "port", ![c].file = f] /\ f \in Files
      BY <1>10, <2>3 DEF getFilefd, TypeOK
    <3> HIDE DEF f
    <3>2. thread'[c].pc = "port" /\ thread'[c].job = thread[c].job /\ thread'[c].file = f
      BY <3>1 DEF TypeOK, Thread
    <3>3. ThreadShape(c)'
      BY <1>p, <1>0, <1>1, <1>10, <2>1, <3>1, <3>2 DEF getFilefd, ThreadShape, Busy,
         Transferring, Job
    <3> QED BY <1>4, <1>10, <3>3 DEF getFilefd
  <2> QED BY <2>2, <2>3
<1>11. CASE connectPort(c)
  <2>1. thread[c].pc = "port" /\ Job(c) \in Asked /\ ftpConn \in Clients
        /\ thread[c].file \in Files
    BY <1>1, <1>11 DEF connectPort, At, ThreadShape, Busy
  <2>2. thread'[c].pc = "bind" /\ thread'[c].job = thread[c].job
        /\ thread'[c].file = thread[c].file
    BY <1>2, <1>11 DEF connectPort
  <2>3. acceptSocket_' \in Asked
    BY <1>11, <2>1 DEF connectPort
  <2>4. ThreadShape(c)'
    BY <1>p, <1>0, <1>1, <1>11, <2>1, <2>2, <2>3
       DEF connectPort, ThreadShape, Busy, Transferring, Job
  <2> QED BY <1>4, <1>11, <2>3, <2>4 DEF connectPort
<1>18. CASE bindAddress(c) \/ listenPort(c)
  <2>1. thread[c].pc \in {"bind", "listen"} /\ Job(c) \in Asked /\ ftpConn \in Clients
        /\ thread[c].file \in Files /\ acceptSocket_ \in Asked
    BY <1>1, <1>18 DEF bindAddress, listenPort, At, ThreadShape, Busy
  <2>2. thread'[c].pc \in {"listen", "tell"} /\ thread'[c].job = thread[c].job
        /\ thread'[c].file = thread[c].file
    BY <1>2, <1>18 DEF bindAddress, listenPort
  <2>3. ThreadShape(c)'
    BY <1>p, <1>0, <1>1, <1>18, <2>1, <2>2
       DEF bindAddress, listenPort, ThreadShape, Busy, Transferring, Job
  <2> QED BY <1>4, <1>18, <2>3 DEF bindAddress, listenPort
<1>19. CASE tellPort(c)
  <2>1. thread[c].pc = "tell" /\ Job(c) \in Asked /\ ftpConn \in Clients
        /\ thread[c].file \in Files /\ acceptSocket_ \in Asked
    BY <1>1, <1>19 DEF tellPort, At, ThreadShape, Busy
  <2>2. \A r \in replies' : r \in replies \/ r.op \in Asked
    BY <1>1, <1>19, <2>1, ReplyOK DEF tellPort
  <2>3. thread'[c].pc = "ported" /\ thread'[c].job = thread[c].job
        /\ thread'[c].file = thread[c].file
    BY <1>2, <1>19 DEF tellPort
  <2>4. ThreadShape(c)'
    BY <1>p, <1>0, <1>1, <1>19, <2>1, <2>3 DEF tellPort, ThreadShape, Busy, Transferring,
       Job
  <2> QED BY <1>4, <1>19, <2>2, <2>4 DEF tellPort
<1>12. CASE acceptBegins(c)
  <2>1. thread[c].pc = "ported" /\ acceptSocket_ \in Asked
    BY <1>1, <1>12 DEF acceptBegins, At, ThreadShape, Transferring
  <2>2. thread'[c].pc = "accept" /\ thread'[c].job = thread[c].job
        /\ thread'[c].file = thread[c].file /\ thread'[c].listen = acceptSocket_
    BY <1>12 DEF acceptBegins, TypeOK, Thread
  <2>3. ThreadShape(c)'
    BY <1>p, <1>0, <1>1, <1>12, <2>1, <2>2 DEF acceptBegins, ThreadShape, Busy,
       Transferring, Job
  <2> QED BY <1>4, <1>12, <2>3 DEF acceptBegins
<1>13. CASE accept1(c)
  <2> DEFINE s == thread[c].listen
  <2>1. thread[c].pc = "accept" /\ s \in Asked /\ link[s].st = "backlog"
        /\ op[Job(c)].kind \in {"stor", "retr"}
    BY <1>1, <1>13 DEF accept1, At, ThreadShape, Transferring, Busy, Asked, TypeOK
  <2>2. /\ thread'[c].pc = IF op[Job(c)].kind = "stor" THEN "reading" ELSE "sending"
        /\ thread'[c].job = thread[c].job
        /\ thread'[c].file = thread[c].file /\ thread'[c].listen = thread[c].listen
    BY <1>2, <1>13 DEF accept1
  <2>3. ThreadShape(c)'
    BY <1>p, <1>0, <1>1, <1>13, <2>1, <2>2 DEF accept1, ThreadShape, Busy, Transferring, Job
  <2>4. link' = [link EXCEPT ![s].st = "open"]
    BY <1>13 DEF accept1
  <2> HIDE DEF s
  <2>5. \A o \in Ops : link'[o] = link[o] \/
           (o = s /\ link'[o].st = "open" /\ link'[o].n = link[o].n
              /\ link'[o].sentAll = link[o].sentAll /\ link'[o].by = link[o].by)
    BY <2>4 DEF TypeOK, Link
  <2>6. \A o \in Ops : link'[o] = link[o] \/
                (LinkShape(o)' /\ (link[o].st # "none" => link'[o].st # "none"))
    BY <2>1, <2>5 DEF Shape, LinkShape
  <2> QED BY <1>4, <1>13, <2>3, <2>6 DEF accept1
<1>14. CASE stor(c)
  <2> DEFINE s == thread[c].listen
  <2>1. thread[c].pc = "reading" /\ s \in Asked
    BY <1>1, <1>14 DEF stor, At, ThreadShape, Transferring
  <2>2. CASE Ends(c) /\ link' = [link EXCEPT ![s] = Empty("closed", link[s].by)]
             /\ link[s].sentAll
    <3>1. ThreadShape(c)'
      BY <1>3, <1>14, <2>1, <2>2 DEF stor
    <3>2. \A o \in Ops : link'[o] = link[o] \/
             (o = s /\ link'[o].st = "closed" /\ link'[o].n = 0 /\ link'[o].by = link[o].by)
      BY <2>2 DEF TypeOK, Empty
    <3>3. link[s].by \in Clients
      <4>1. link[s].st # "none"
        BY <1>1, <2>1, <2>2 DEF ThreadShape
      <4> QED BY <2>1, <4>1 DEF Shape, LinkShape, Asked
    <3>4. \A o \in Ops : link'[o] = link[o] \/
                (LinkShape(o)' /\ (link[o].st # "none" => link'[o].st # "none"))
      BY <3>2, <3>3 DEF LinkShape
    <3> QED BY <1>4, <1>14, <3>1, <3>4 DEF stor
  <2>3. ASSUME thread' = thread, NEW n \in 1..Len(link[s].sent),
               link' = [link EXCEPT ![s].sent = SubSeq(@, n + 1, Len(@))]
        PROVE  Shape'
    <3> DEFINE q == SubSeq(link[s].sent, n + 1, Len(link[s].sent))
    <3>2. link' = [link EXCEPT ![s].sent = q]
      BY <2>3
    <3>3. link[s].by \in Clients /\ link[s].st # "none"
      <4>1. link[s].st # "none"
        BY <1>1, <2>1 DEF ThreadShape
      <4> QED BY <2>1, <4>1 DEF Shape, LinkShape, Asked
    <3> HIDE DEF q, s
    <3>4. \A o \in Ops : link'[o] = link[o] \/
             (o = s /\ link'[o].st = link[o].st /\ link'[o].n = link[o].n
                /\ link'[o].sentAll = link[o].sentAll /\ link'[o].by = link[o].by)
      BY <3>2 DEF TypeOK, Link
    <3>5. \A o \in Ops : link'[o] = link[o] \/
                (LinkShape(o)' /\ (link[o].st # "none" => link'[o].st # "none"))
      BY <3>3, <3>4 DEF Shape, LinkShape
    <3>6. ThreadShape(c)'
      <4>1. thread[c].listen \in Ops
        BY <1>1, <2>1 DEF s
      <4> QED BY <1>p, <1>0, <1>1, <1>14, <2>3, <3>5, <4>1 DEF stor, ThreadShape, Busy, Job
    <3> QED BY <1>4, <1>14, <3>5, <3>6 DEF stor
  <2> QED BY <1>14, <2>2, <2>3 DEF stor
<1>15. CASE retr(c)
  <2> DEFINE s == thread[c].listen
             last == \/ thread[c].pos + 1 >= Len(disk[thread[c].file])
                     \/ ~(/\ thread[c].pos < Len(disk[thread[c].file])
                          /\ link[s].by \notin gone)
  <2>1. thread[c].pc = "sending" /\ s \in Asked
    BY <1>1, <1>15 DEF retr, At, ThreadShape, Transferring
  <2>2. PICK b : link' = [link EXCEPT ![s].back = b, ![s].backAll = last]
    BY <1>15 DEF retr
  <2>3. IF last THEN Ends(c) ELSE thread' = [thread EXCEPT ![c].pos = thread[c].pos + 1]
    BY <1>15 DEF retr
  <2> HIDE DEF last
  <2> HIDE DEF s
  <2>5. \A o \in Ops : link'[o] = link[o] \/
           (o = s /\ link'[o].st = link[o].st /\ link'[o].n = link[o].n
              /\ link'[o].sentAll = link[o].sentAll /\ link'[o].by = link[o].by)
    <3>0. link \in [Ops -> Link] /\ s \in Ops
      BY <1>1, <2>1 DEF TypeOK, s
    <3>1. link[s] \in Link /\ \A o \in Ops \ {s} : link'[o] = link[o]
      BY <2>2, <3>0
    <3>2. link'[s] = [link[s] EXCEPT !.back = b, !.backAll = last]
      BY <2>2, <3>0
    <3>3. link'[s].st = link[s].st /\ link'[s].n = link[s].n
          /\ link'[s].sentAll = link[s].sentAll /\ link'[s].by = link[s].by
      BY <3>1, <3>2, LinkFields
    <3> QED BY <3>1, <3>3
  <2>6. link[s].st # "none"
    BY <1>1, <2>1 DEF ThreadShape, s
  <2>7. \A o \in Ops : link'[o] = link[o] \/
           (LinkShape(o)' /\ (link[o].st # "none" => link'[o].st # "none"))
    BY <2>5, <2>6 DEF Shape, LinkShape
  <2>8. ThreadShape(c)'
    <3>1. CASE last
      BY <1>3, <1>15, <2>1, <2>3, <3>1 DEF retr
    <3>2. CASE ~last
      <4>1. thread'[c].pc = "sending" /\ thread'[c].job = thread[c].job
            /\ thread'[c].file = thread[c].file /\ thread'[c].listen = thread[c].listen
        <5>1. thread' = [thread EXCEPT ![c] = [thread[c] EXCEPT !.pos = thread[c].pos + 1]]
          BY <2>3, <3>2
        <5>2. thread'[c] = [thread[c] EXCEPT !.pos = thread[c].pos + 1] /\ thread[c] \in Thread
          BY <5>1 DEF TypeOK
        <5> QED BY <2>1, <5>2 DEF Thread
      <4>2. thread[c].listen \in Ops
        BY <1>1, <2>1 DEF s
      <4> QED BY <1>p, <1>0, <1>1, <1>15, <2>1, <2>7, <4>1, <4>2 DEF retr, ThreadShape,
         Busy, Transferring, Job
    <3> QED BY <3>1, <3>2
  <2> QED BY <1>4, <1>15, <2>7, <2>8 DEF retr
<1>16. CASE info(c)
  <2>1. thread[c].pc = "info" /\ Job(c) \in Asked /\ ftpConn \in Clients
    BY <1>1, <1>16 DEF info, At, ThreadShape, Busy
  <2>2. \A r \in replies' : r \in replies \/ r.op \in Asked
    <3>1. fileTimeMap[ftpConn] \in Files \cup {NoFile}
      BY <2>1 DEF TypeOK
    <3> QED BY <1>1, <1>16, <2>1, <3>1, ReplyOK DEF info
  <2>3. ThreadShape(c)'
    BY <1>3, <1>16, <2>1 DEF info
  <2> QED BY <1>4, <1>16, <2>2, <2>3 DEF info
<1>17. CASE cloe(c) \/ otherMessage(c)
  <2>1. ThreadShape(c)'
    BY <1>3, <1>17 DEF cloe, otherMessage, At
  <2> QED BY <1>4, <1>17, <2>1 DEF cloe, otherMessage
<1> QED BY <1>5, <1>6, <1>7, <1>8, <1>9, <1>10, <1>11, <1>12, <1>13, <1>14,
           <1>15, <1>16, <1>17, <1>18, <1>19 DEF ServerStep

\* What is asked for is the next transfer, and is queued.
Messages(k, o) ==
    IF k = "stor" THEN <<Msg("stor", o), Msg("info", o)>> ELSE <<Msg("retr", o)>>

Asks(c, o, k, f) ==
    /\ o \in Ops /\ o \notin Asked /\ \A p \in Ops : p < o => p \in Asked
    /\ confused = {} /\ c \notin gone /\ up
    /\ \/ k = "stor" /\ f \in Files /\ f[2] = 0
       \/ k = "retr" /\ \E a \in announced : a.file = f
    /\ op' = [op EXCEPT ![o] = [who |-> c, kind |-> k, file |-> f]]
    /\ inbox' = [inbox EXCEPT ![c] = @ \o Messages(k, o)]
    /\ Asked' = Asked \cup {o}
    /\ Elements(Messages(k, o)) = IF k = "stor" THEN {Msg("stor", o), Msg("info", o)}
                                  ELSE {Msg("retr", o)}
    /\ Queued' = Queued \cup Elements(Messages(k, o))
    /\ Elements(inbox'[c]) = Elements(inbox[c]) \cup Elements(Messages(k, o))
    /\ \A d \in Clients \ {c} : inbox'[d] = inbox[d]
    /\ UNCHANGED <<megser, ftpConn, acceptSocket_, fileTimeMap, exists, disk,
                   thread, replies, link, copy, announced, up, gone, faults, history>>

LEMMA AskIsAsks ==
    ASSUME TypeOK, NEW c \in Clients, upload(c) \/ download(c)
    PROVE  \E o \in Ops, k \in {"stor", "retr"}, f \in Files \cup {NoFile} :
              Asks(c, o, k, f)
<1>1. ASSUME NEW k \in {"stor", "retr"}, NEW f \in Files \cup {NoFile},
             \/ k = "stor" /\ f \in Files /\ f[2] = 0
             \/ k = "retr" /\ \E a \in announced : a.file = f,
             NEW ms \in Seq({"stor", "info", "retr"}), ask(c, k, f, ms),
             ms = IF k = "stor" THEN <<"stor", "info">> ELSE <<"retr">>
      PROVE  \E o \in Ops : Asks(c, o, k, f)
  <2>1. PICK o \in NextOp :
          /\ c \notin gone /\ up /\ confused = {}
          /\ op' = [op EXCEPT ![o] = [who |-> c, kind |-> k, file |-> f]]
          /\ inbox' = [inbox EXCEPT ![c] = @ \o [i \in DOMAIN ms |-> Msg(ms[i], o)]]
          /\ UNCHANGED <<megser, ftpConn, acceptSocket_, fileTimeMap, exists, disk,
                         thread, replies, link, copy, announced, up, gone, faults, history>>
    BY <1>1 DEF ask, Msg
  <2>2. o \in Ops /\ o \notin Asked /\ \A p \in Ops : p < o => p \in Asked
    <3>1. o \in Ops /\ op[o].kind = "none" /\ \A p \in 1 .. (o - 1) : op[p].kind # "none"
      BY DEF NextOp
    <3> QED BY <3>1, TransferAssumption DEF Asked, Ops
  <2>3. [i \in DOMAIN ms |-> Msg(ms[i], o)] = Messages(k, o)
    <3>1. CASE k = "stor"
      <4>1. [i \in 1 .. 2 |-> Msg(<<"stor", "info">>[i], o)]
              = <<Msg("stor", o), Msg("info", o)>>
        OBVIOUS
      <4> QED BY <1>1, <3>1, <4>1 DEF Messages
    <3>2. CASE k = "retr"
      <4>1. [i \in 1 .. 1 |-> Msg(<<"retr">>[i], o)] = <<Msg("retr", o)>>
        OBVIOUS
      <4> QED BY <1>1, <3>2, <4>1 DEF Messages
    <3> QED BY <3>1, <3>2
  <2>4. inbox' = [inbox EXCEPT ![c] = @ \o Messages(k, o)]
    BY <2>1, <2>3
  <2>5. Elements(ms) = IF k = "stor" THEN {"stor", "info"} ELSE {"retr"}
    BY <1>1 DEF Elements
  <2>6. Elements(Messages(k, o)) = IF k = "stor" THEN {Msg("stor", o), Msg("info", o)}
                                   ELSE {Msg("retr", o)}
    BY DEF Messages, Elements
  <2>7. {Msg(t, o) : t \in Elements(ms)} = Elements(Messages(k, o))
    BY <2>5, <2>6
  <2>8. /\ Queued' = Queued \cup Elements(Messages(k, o))
        /\ Elements(inbox'[c]) = Elements(inbox[c]) \cup Elements(Messages(k, o))
    <3>1. megser' = megser
      BY <2>1
    <3>2. inbox' = [inbox EXCEPT ![c] = @ \o [i \in DOMAIN ms |-> Msg(ms[i], o)]]
      BY <2>1
    <3>3. /\ Queued' = Queued \cup {Msg(t, o) : t \in Elements(ms)}
          /\ Elements(inbox'[c]) = Elements(inbox[c]) \cup {Msg(t, o) : t \in Elements(ms)}
      BY <2>2, <3>1, <3>2, QueuedAsked
    <3> QED BY <2>7, <3>3
  <2>9. \A d \in Clients \ {c} : inbox'[d] = inbox[d]
    BY <2>4 DEF TypeOK
  <2>10. Asked' = Asked \cup {o}
    BY <1>1, <2>1, <2>2 DEF Asked, TypeOK
  <2> QED BY <1>1, <2>1, <2>2, <2>4, <2>6, <2>8, <2>9, <2>10 DEF Asks
<1>2. CASE upload(c)
  <2>1. PICK n \in Names : ask(c, "stor", <<n, 0>>, <<"stor", "info">>)
    BY <1>2 DEF upload
  <2>2. <<n, 0>> \in Files /\ <<n, 0>>[2] = 0
    <3>1. 0 \in 0 .. MaxOps
      BY TransferAssumption
    <3> QED BY <3>1 DEF Files
  <2>3. <<"stor", "info">> \in Seq({"stor", "info", "retr"})
    OBVIOUS
  <2> QED BY <1>1, <2>1, <2>2, <2>3
<1>3. CASE download(c)
  <2>1. PICK a \in announced : ask(c, "retr", a.file, <<"retr">>)
    BY <1>3 DEF download
  <2>2. a.file \in Files \cup {NoFile}
    BY DEF TypeOK
  <2>3. <<"retr">> \in Seq({"stor", "info", "retr"})
    OBVIOUS
  <2> QED BY <1>1, <2>1, <2>2, <2>3
<1> QED BY <1>2, <1>3

\* What the clients do keeps the shape.
LEMMA AskShape ==
    ASSUME TypeOK, TypeOK', Shape, NEW c \in Clients, upload(c) \/ download(c)
    PROVE  Shape'
<1>1. PICK o \in Ops, k \in {"stor", "retr"}, f \in Files \cup {NoFile} : Asks(c, o, k, f)
  BY AskIsAsks
<1>2. /\ op'[o] = [who |-> c, kind |-> k, file |-> f]
      /\ \A p \in Asked : op'[p] = op[p] /\ p \in Ops /\ p # o
      /\ Asked' = Asked \cup {o}
  BY <1>1 DEF Asks, TypeOK, Asked
<1>3. UNCHANGED <<acceptSocket_, ftpConn, thread, replies, announced, link, gone, failed>>
  BY <1>1 DEF Asks, history
<1>4. \A p \in Asked' : Who(p)' \in Clients
  BY <1>2 DEF Shape, Who
<1>5. \A p \in Asked' : op'[p].kind = "stor" => op'[p].file \in Files /\ op'[p].file[2] = 0
  BY <1>1, <1>2 DEF Shape, Asks
<1>6. \A p \in Asked' : \A q \in Ops : q < p => q \in Asked'
  BY <1>1, <1>2 DEF Shape, Asks
<1>7. ASSUME NEW m \in Queued'
      PROVE  /\ m.op \in Asked'
             /\ m.type \in {"stor", "info"} => op'[m.op].kind = "stor"
             /\ m.type = "retr" => op'[m.op].kind = "retr"
  <2>1. CASE m \in Queued
    BY <1>2, <2>1 DEF Shape
  <2>2. CASE m \notin Queued
    <3>1. m \in IF k = "stor" THEN {Msg("stor", o), Msg("info", o)} ELSE {Msg("retr", o)}
      BY <1>1, <1>7, <2>2 DEF Asks
    <3> QED BY <1>2, <3>1 DEF Msg
  <2> QED BY <2>1, <2>2
<1>8. \A d \in Clients : ThreadShape(d)'
  <2> TAKE d \in Clients
  <2>1. ThreadShape(d)
    BY DEF Shape
  <2>2. Job(d)' = Job(d) /\ (Busy(d)' <=> Busy(d))
    BY <1>3 DEF Job, Busy
  <2>3. thread[d].pc \in {"stor", "open", "reading", "info", "retr", "sending"} => Busy(d)
    BY DEF Busy
  <2> QED BY <1>2, <1>3, <2>1, <2>2, <2>3 DEF ThreadShape
<1>9. \A p \in Ops : LinkShape(p)'
  BY <1>3 DEF Shape, LinkShape
<1>10. /\ acceptSocket_' # None => acceptSocket_' \in Asked'
       /\ \A r \in replies' : r.op \in Asked'
       /\ \A a \in announced' : a.op \in Asked'
       /\ gone' \subseteq failed'
  BY <1>2, <1>3 DEF Shape
<1> QED BY <1>4, <1>5, <1>6, <1>7, <1>8, <1>9, <1>10, Zenon DEF Shape

LEMMA TaskShape ==
    ASSUME TypeOK, TypeOK', Shape,
           \/ \E o \in Ops : TaskStep(o)
           \/ \E r \in replies : openLocalFails(r)
           \/ \E c \in Clients : crash(c)
    PROVE  Shape'
<1>1. ASSUME op' = op, thread' = thread, ftpConn' = ftpConn, acceptSocket_' = acceptSocket_,
             gone' \subseteq failed',
             \A m \in Queued' : m \in Queued \/ (~Real(m) /\ m.op \in Asked),
             \A r \in replies' : r \in replies,
             \A a \in announced' : a \in announced \/ a.op \in Asked,
             \A o \in Ops : link'[o] = link[o] \/
                (LinkShape(o)' /\ (link[o].st # "none" => link'[o].st # "none"))
      PROVE  Shape'
  <2>1. Asked' = Asked /\ \A o \in Ops : link[o].st # "none" => link'[o].st # "none"
    BY <1>1 DEF Asked
  <2>2. \A d \in Clients : ThreadShape(d)'
    <3> TAKE d \in Clients
    <3>1. ThreadShape(d) /\ (thread[d].pc \in {"reading", "sending"} =>
             thread[d].listen \in Ops)
      BY DEF Shape, ThreadShape, Transferring, Asked
    <3> QED BY <1>1, <2>1, <3>1 DEF ThreadShape, Busy, Job
  <2> QED BY <1>1, <2>2, ShapeKept
<1>2. ASSUME NEW r \in replies, openLocal(r) PROVE Shape'
  <2>1. r.op \in Ops /\ r.to \in Clients /\ Queued' = Queued
    BY <1>2, QueuedSame DEF openLocal, clientUnchanged, TypeOK, ReplyType
  <2>2. \A o \in Ops : link'[o] = link[o] \/
           (link'[o].st = "opening" /\ link'[o].n = link[o].n
              /\ link'[o].sentAll = link[o].sentAll /\ link'[o].by = r.to)
    <3>1. link' = [link EXCEPT ![r.op].st = "opening", ![r.op].by = r.to]
      BY <1>2 DEF openLocal
    <3>2. link'[r.op] = [link[r.op] EXCEPT !.st = "opening", !.by = r.to]
          /\ link[r.op] \in Link /\ \A o \in Ops \ {r.op} : link'[o] = link[o]
      BY <2>1, <3>1 DEF TypeOK
    <3> DEFINE l == link[r.op]
    <3>3. l \in Link /\ link'[r.op] = [l EXCEPT !.st = "opening", !.by = r.to]
      BY <3>2
    <3> HIDE DEF l
    <3>4. /\ link'[r.op].st = "opening" /\ link'[r.op].n = l.n
          /\ link'[r.op].sentAll = l.sentAll /\ link'[r.op].by = r.to
      BY <3>3 DEF Link
    <3> QED BY <3>2, <3>4 DEF l
  <2>3. \A o \in Ops : link'[o] = link[o] \/ (LinkShape(o)' /\ link'[o].st # "none")
    BY <2>1, <2>2 DEF Shape, LinkShape
  <2> QED BY <1>1, <1>2, <2>1, <2>3 DEF openLocal, clientUnchanged, Shape
<1>3. ASSUME NEW r \in replies, sendmain(r) \/ printError(r) PROVE Shape'
  <2>1. Queued' = Queued
    BY <1>3, QueuedSame DEF sendmain, printError, clientUnchanged
  <2>2. \A a \in announced' : a \in announced \/ a.op \in Asked
    BY <1>3 DEF sendmain, printError, Shape
  <2> QED BY <1>1, <1>3, <2>1, <2>2 DEF sendmain, printError, clientUnchanged, Shape
<1>4. ASSUME NEW o \in Ops, connectData(o) \/ sendData(o) \/ readData(o) PROVE Shape'
  <2>1. Queued' = Queued
    BY <1>4, QueuedSame DEF connectData, sendData, readData, linkUnchanged, clientUnchanged
  <2>2. link[o].st \in {"opening", "backlog", "open"} /\ link[o] \in Link
        /\ link[o].by \in Clients
    BY <1>4 DEF connectData, sendData, readData, Runs, TypeOK, Shape, LinkShape
  <2>3. LinkShape(o)' /\ link'[o].st # "none" /\ \A p \in Ops \ {o} : link'[p] = link[p]
    <3>1. ASSUME NEW st \in {"closed", "backlog"}, link' = [link EXCEPT ![o].st = st]
          PROVE  LinkShape(o)' /\ link'[o].st # "none" /\ \A p \in Ops \ {o} : link'[p] = link[p]
      <4>1. /\ link'[o] = [link[o] EXCEPT !.st = st]
            /\ \A p \in Ops \ {o} : link'[p] = link[p]
        BY <3>1 DEF TypeOK
      <4>2. LinkShape(o)
        BY DEF Shape
      <4>3. /\ link'[o].st = st /\ link'[o].by = link[o].by /\ link'[o].n = link[o].n
            /\ link'[o].sentAll = link[o].sentAll
        BY <2>2, <4>1, LinkFields
      <4> QED BY <2>2, <4>1, <4>2, <4>3 DEF LinkShape
    <3>2. CASE connectData(o)
      BY <3>1, <3>2 DEF connectData
    <3>3. CASE sendData(o)
      <4>1. CASE link[o].st = "backlog" /\ ~Listening(o)
        BY <3>1, <3>3, <4>1 DEF sendData
      <4>2. CASE ~(link[o].st = "backlog" /\ ~Listening(o))
        <5> DEFINE k == link[o].n + 1
                   x == Chunks(link[o].by, o)[k]
        <5>1. link' = [link EXCEPT ![o].n = k, ![o].sentAll = (k = 2), ![o].sent = Append(@, x)]
          BY <3>3, <4>2 DEF sendData
        <5> HIDE DEF k, x
        <5>2. link'[o] = [link[o] EXCEPT !.n = k, !.sentAll = (k = 2), !.sent = Append(@, x)]
              /\ \A p \in Ops \ {o} : link'[p] = link[p]
          BY <5>1 DEF TypeOK
        <5>3. link'[o].st = link[o].st /\ link'[o].n = k /\ link'[o].sentAll = (k = 2)
              /\ link'[o].by = link[o].by
          BY <2>2, <5>2 DEF Link
        <5> QED BY <2>2, <5>2, <5>3 DEF LinkShape
      <4> QED BY <4>1, <4>2
    <3>4. CASE readData(o)
      <4>1. CASE link' = [link EXCEPT ![o].st = "closed"]
        BY <3>1, <4>1
      <4>2. CASE link' = [link EXCEPT ![o].back = Tail(@)]
        <5>1. /\ link'[o] = [link[o] EXCEPT !.back = Tail(link[o].back)]
              /\ \A p \in Ops \ {o} : link'[p] = link[p]
          BY <4>2 DEF TypeOK
        <5>2. LinkShape(o)
          BY DEF Shape
        <5>3. /\ link'[o].st = link[o].st /\ link'[o].by = link[o].by /\ link'[o].n = link[o].n
              /\ link'[o].sentAll = link[o].sentAll
          BY <2>2, <5>1, LinkFields
        <5> QED BY <2>2, <5>1, <5>2, <5>3 DEF LinkShape
      <4>3. CASE link' = [link EXCEPT ![o] = Empty("read", link[o].by)]
        BY <2>2, <4>3 DEF TypeOK, Empty, LinkShape
      <4> QED BY <3>4, <4>1, <4>2, <4>3 DEF readData
    <3> QED BY <1>4, <3>2, <3>3, <3>4
  <2> QED BY <1>1, <1>4, <2>1, <2>3
          DEF connectData, sendData, readData, linkUnchanged, clientUnchanged, Shape
<1>5. ASSUME NEW r \in replies, openLocalFails(r) PROVE Shape'
  <2>1. Queued' = Queued \cup Elements(Excuse(r)) /\ r.op \in Asked
    BY <1>5, QueuedFailed DEF Shape
  <2>2. \A m \in Queued' : m \in Queued \/ (~Real(m) /\ m.op \in Asked)
    BY <2>1, ExcuseOK
  <2> QED BY <1>1, <1>5, <2>2 DEF openLocalFails, clientUnchanged, Shape
<1>6. ASSUME NEW c \in Clients, crash(c) PROVE Shape'
  <2>1. Queued' \subseteq Queued
    BY <1>6, QueuedLost
  <2>2. \A o \in Ops : link'[o] = link[o] \/
           (link'[o] = [link[o] EXCEPT !.sentAll = TRUE] /\ link[o].by = c)
    BY <1>6 DEF crash
  <2>3. \A o \in Ops : link'[o] = link[o] \/
           (link'[o].st = link[o].st /\ link'[o].n = link[o].n /\ link'[o].sentAll
              /\ link'[o].by = c /\ link[o].by = c)
    <3> TAKE o \in Ops
    <3> DEFINE l == link[o]
    <3>1. l \in Link
      BY DEF TypeOK
    <3>2. link'[o] = l \/ (link'[o] = [l EXCEPT !.sentAll = TRUE] /\ l.by = c)
      BY <2>2
    <3> HIDE DEF l
    <3>3. link'[o] = l \/ (link'[o].st = l.st /\ link'[o].n = l.n /\ link'[o].sentAll
                             /\ link'[o].by = c /\ l.by = c)
      BY <3>1, <3>2 DEF Link
    <3> QED BY <3>3 DEF l
  <2>4. \A o \in Ops : link[o].by = c => link[o].st # "none"
    <3>1. NoLink.by = None
      BY DEF NoLink, Empty
    <3> QED BY <3>1, TransferAssumption DEF Shape, LinkShape
  <2>5. \A o \in Ops : link'[o] = link[o] \/ (LinkShape(o)' /\ link'[o].st # "none")
    BY <2>3, <2>4 DEF LinkShape
  <2> QED BY <1>1, <1>6, <2>1, <2>5 DEF crash, Shape
<1> QED BY <1>2, <1>3, <1>4, <1>5, <1>6 DEF TaskStep

LEMMA ShapeStep ==
    ASSUME TypeOK, Shape, SpaceInv, [Next]_vars
    PROVE  TypeOK' /\ Shape'
<1>1. TypeOK'
  BY TypeStep
<1>2. CASE UNCHANGED vars
  <2>1. Queued' = Queued /\ Asked' = Asked
    BY <1>2 DEF vars, Queued, Asked
  <2>2. \A d \in Clients : ThreadShape(d)'
    <3> TAKE d \in Clients
    <3>1. ThreadShape(d)
      BY DEF Shape
    <3> QED BY <1>2, <2>1, <3>1 DEF vars, ThreadShape, Busy, Job
  <2> QED BY <1>1, <1>2, <2>1, <2>2, ShapeKept DEF vars, Shape
<1> QED BY <1>1, <1>2, ServerShape, AskShape, TaskShape DEF Next, Failure

----------------------------------------------------------------------------
(***************************************************************************)
(* The order of a client's messages.                                       *)
(***************************************************************************)
LEMMA PrecedesSame ==
    ASSUME op' = op
    PROVE  Precedes' = Precedes /\ Asked' = Asked /\ \A o : Who(o)' = Who(o)
BY DEF Precedes, Before, Real, Who, Rank, Asked

\* A thread works for the same message as before.
Continues(c) ==
    AtReal(c)' => AtReal(c) /\ Job(c)' = Job(c) /\ ThreadRank(c)' = ThreadRank(c)

LEMMA Continued ==
    ASSUME TypeOK, NEW c \in Clients, ServerStep(c) \/ openFails(c), ~nextMessage(c)
    PROVE  \A d \in Clients : Continues(d)
<1>1. \A d \in Clients \ {c} : thread'[d] = thread[d]
  BY Moves
<1>2. \A d \in Clients \ {c} : Continues(d)
  BY <1>1 DEF Continues, AtReal, Busy, Job, ThreadRank
<1> SUFFICES Continues(c)
  BY <1>2, Zenon
<1>3. Idle.pc = "idle" /\ [Idle EXCEPT !.pc = "next"].pc = "next"
  BY DEF Idle
<1>4. ASSUME thread'[c].job = thread[c].job, thread'[c].pc # "info",
             thread[c].pc \notin {"next", "cloe", "550", "info"},
             thread[c].pc = "idle" => thread'[c].pc = "next"
      PROVE  Continues(c)
  BY <1>4 DEF Continues, AtReal, Busy, Job, ThreadRank
<1>5. ASSUME thread'[c] = [Idle EXCEPT !.pc = "next"] PROVE Continues(c)
  BY <1>3, <1>5 DEF Continues, AtReal, Busy
<1>6. CASE messageCallback(c)
  <2>1. Step(c, "idle", "next")
    BY <1>6, Moves
  <2> QED BY <1>4, <2>1 DEF Step
<1>7. CASE createFile(c)
  <2>1. Step(c, "stor", "open")
    BY <1>7, Moves
  <2> QED BY <1>4, <2>1 DEF Step
<1>8. CASE openFile(c)
  <2>1. Step(c, "open", "port")
    BY <1>8, Moves
  <2> QED BY <1>4, <2>1 DEF Step
<1>9. CASE getFilefd(c)
  <2>1. Step(c, "retr", "port") \/ Finishes(c, "retr")
    BY <1>9, Moves
  <2> QED BY <1>4, <1>5, <2>1 DEF Step, Finishes
<1>10. CASE connectPort(c) \/ bindAddress(c) \/ listenPort(c) \/ tellPort(c)
  <2>1. \/ Step(c, "port", "bind") \/ Step(c, "bind", "listen")
        \/ Step(c, "listen", "tell") \/ Step(c, "tell", "ported")
    BY <1>10, Moves
  <2> QED BY <1>4, <2>1 DEF Step
<1>11. CASE acceptBegins(c)
  <2>1. Step(c, "ported", "accept")
    BY <1>11, Moves
  <2> QED BY <1>4, <2>1 DEF Step
<1>12. CASE accept1(c)
  <2>1. Step(c, "accept", "reading") \/ Step(c, "accept", "sending")
    BY <1>12, Moves
  <2> QED BY <1>4, <2>1 DEF Step
<1>13. CASE stor(c)
  <2>1. Finishes(c, "reading") \/ thread' = thread
    BY <1>13, Moves
  <2>2. thread' = thread => Continues(c)
    BY DEF Continues, AtReal, Busy, Job, ThreadRank
  <2> QED BY <1>5, <2>1, <2>2 DEF Finishes
<1>14. CASE retr(c)
  <2>1. \/ Finishes(c, "sending")
        \/ /\ thread[c].pc = "sending" /\ thread'[c].pc = "sending"
           /\ thread'[c].job = thread[c].job
    BY <1>14, Moves
  <2>2. CASE /\ thread[c].pc = "sending" /\ thread'[c].pc = "sending"
             /\ thread'[c].job = thread[c].job
    BY <2>2 DEF Continues, AtReal, Busy, Job, ThreadRank
  <2> QED BY <1>5, <2>1, <2>2 DEF Finishes
<1>15. CASE openFails(c) \/ info(c) \/ cloe(c) \/ otherMessage(c)
  <2>1. \/ Finishes(c, "open") \/ Finishes(c, "info")
        \/ Finishes(c, "cloe") \/ Finishes(c, "550")
    BY <1>15, Moves
  <2> QED BY <1>5, <2>1 DEF Finishes
<1> QED BY <1>6, <1>7, <1>8, <1>9, <1>10, <1>11, <1>12, <1>13, <1>14, <1>15 DEF ServerStep

LEMMA OrderKept ==
    ASSUME OrderInv, op' = op, inbox' = inbox, megser' = megser,
           \A c \in Clients : Continues(c)
    PROVE  OrderInv'
<1>1. Precedes' = Precedes /\ (\A o : Who(o)' = Who(o)) /\ Queued' = Queued
  BY PrecedesSame, QueuedSame
<1>2. ASSUME NEW c \in Clients, NEW m \in Queued, AtReal(c)', Real(m),
             Who(m.op) = Who(Job(c)') PROVE ThreadRank(c)' < Rank(m)
  BY <1>2 DEF OrderInv, Continues
<1>3. ASSUME NEW c \in Clients, NEW d \in Clients, c # d, AtReal(c)', AtReal(d)',
             Who(Job(c)') = Who(Job(d)') PROVE ThreadRank(c)' # ThreadRank(d)'
  BY <1>3 DEF OrderInv, Continues
<1>4. \A c \in Clients : \A m \in Queued :
          AtReal(c)' /\ Real(m) /\ Who(m.op) = Who(Job(c)') => ThreadRank(c)' < Rank(m)
  BY <1>2
<1>5. \A c, d \in Clients :
          c # d /\ AtReal(c)' /\ AtReal(d)' /\ Who(Job(c)') = Who(Job(d)') =>
             ThreadRank(c)' # ThreadRank(d)'
  BY <1>3
<1> QED BY <1>1, <1>4, <1>5 DEF OrderInv, Real, Rank, Elements

\* Appending to megser what has arrived.
LEMMA OrderMoved ==
    ASSUME TypeOK, OrderInv, NEW c \in Clients, messageCallback(c)
    PROVE  OrderInv'
<1>1. PICK n \in 1 .. Len(inbox[c]) :
        /\ megser' = megser \o SubSeq(inbox[c], 1, n)
        /\ inbox' = [inbox EXCEPT ![c] = SubSeq(@, n + 1, Len(@))]
  BY DEF messageCallback
<1> DEFINE a == SubSeq(inbox[c], 1, n)
           b == SubSeq(inbox[c], n + 1, Len(inbox[c]))
<1>2. a \in Seq(Message) /\ b \in Seq(Message) /\ a \o b = inbox[c]
  <2>1. inbox[c] \in Seq(Message) /\ n \in 0 .. Len(inbox[c])
    BY <1>1 DEF TypeOK
  <2> QED BY <2>1, SplitAt
<1>3. inbox'[c] = b /\ megser' = megser \o a /\ \A d \in Clients \ {c} : inbox'[d] = inbox[d]
  <2>1. inbox \in [Clients -> Seq(Message)]
    BY DEF TypeOK
  <2> QED BY <1>1, <2>1
<1> HIDE DEF a, b
<1>4. op' = op
  BY DEF messageCallback
<1>5. Precedes' = Precedes /\ (\A o : Who(o)' = Who(o)) /\ Queued' = Queued
  BY <1>4, PrecedesSame, QueuedMoved
<1>6. Elements(inbox[c]) = Elements(a) \cup Elements(b)
  <2>1. a \in Seq(Message) /\ b \in Seq(Message)
    BY <1>2
  <2>2. Elements(a \o b) = Elements(a) \cup Elements(b)
    BY <2>1, ElementsOfConcat, SMTT(60)
  <2> QED BY <1>2, <2>2
<1>7. Elements(megser') = Elements(megser) \cup Elements(a)
  BY <1>2, <1>3, ElementsOfConcat DEF TypeOK
<1>8. /\ Ordered(a, Precedes) /\ Ordered(b, Precedes)
      /\ Elements(a) \X Elements(b) \subseteq Precedes
  <2>1. Ordered(a \o b, Precedes)
    BY <1>2 DEF OrderInv
  <2> QED BY <1>2, <2>1, OrderedConcat
<1>9. /\ Ordered(megser, Precedes)
      /\ \A d \in Clients : Elements(megser) \X Elements(inbox[d]) \subseteq Precedes
      /\ \A d \in Clients : \A m \in Elements(inbox[d]) : Real(m) => Who(m.op) = d
      /\ \A d \in Clients : Ordered(inbox[d], Precedes)
  BY DEF OrderInv
<1>10. Ordered(megser', Precedes)
  <2>1. Elements(megser) \X Elements(a) \subseteq Precedes
    BY <1>6, <1>9
  <2> QED BY <1>2, <1>3, <1>8, <1>9, <2>1, OrderedConcat DEF TypeOK
<1>11. \A d \in Clients : \A m \in Elements(inbox'[d]) : Real(m) => Who(m.op) = d
  BY <1>3, <1>6, <1>9
<1>12. \A d \in Clients : Ordered(inbox'[d], Precedes)
  BY <1>3, <1>8, <1>9
<1>13. \A d \in Clients : Elements(megser') \X Elements(inbox'[d]) \subseteq Precedes
  <2> SUFFICES ASSUME NEW d \in Clients, NEW x \in Elements(megser'),
                      NEW y \in Elements(inbox'[d])
               PROVE  <<x, y>> \in Precedes
    OBVIOUS
  <2>1. y \in Elements(inbox[d])
    BY <1>3, <1>6
  <2>2. CASE x \in Elements(megser)
    BY <1>9, <2>1, <2>2
  <2>3. CASE x \in Elements(a)
    <3>1. CASE d = c
      BY <1>3, <1>8, <2>3, <3>1
    <3>2. CASE d # c
      <4>1. x \in Elements(inbox[c]) /\ x \in Message /\ y \in Message
        <5>1. a \in Seq(Message) /\ inbox[d] \in Seq(Message)
          BY <1>2 DEF TypeOK
        <5>2. x \in Message
          BY <2>3, <5>1 DEF Elements
        <5>3. y \in Message
          BY <2>1, <5>1 DEF Elements
        <5> QED BY <1>6, <2>3, <5>2, <5>3
      <4>2. Real(x) /\ Real(y) => Who(x.op) = c /\ Who(y.op) = d
        BY <1>9, <2>1, <4>1
      <4> QED BY <3>2, <4>1, <4>2 DEF Precedes, Before
    <3> QED BY <3>1, <3>2
  <2> QED BY <1>7, <2>2, <2>3
<1>14. \A d \in Clients : Continues(d)
  BY Continued DEF ServerStep, messageCallback, nextMessage, At
<1>15. ASSUME NEW d \in Clients, NEW m \in Queued, AtReal(d)', Real(m),
              Who(m.op) = Who(Job(d)') PROVE ThreadRank(d)' < Rank(m)
  BY <1>14, <1>15 DEF OrderInv, Continues
<1>16. ASSUME NEW e \in Clients, NEW d \in Clients, e # d, AtReal(e)', AtReal(d)',
              Who(Job(e)') = Who(Job(d)') PROVE ThreadRank(e)' # ThreadRank(d)'
  BY <1>14, <1>16 DEF OrderInv, Continues
<1>17. /\ \A d \in Clients : \A m \in Queued :
             AtReal(d)' /\ Real(m) /\ Who(m.op) = Who(Job(d)') => ThreadRank(d)' < Rank(m)
       /\ \A e, d \in Clients :
             e # d /\ AtReal(e)' /\ AtReal(d)' /\ Who(Job(e)') = Who(Job(d)') =>
                ThreadRank(e)' # ThreadRank(d)'
  BY <1>15, <1>16
<1> QED BY <1>5, <1>10, <1>11, <1>12, <1>13, <1>17 DEF OrderInv, Real, Rank, Elements,
   Ordered

\* Taking the first message.
LEMMA OrderTaken ==
    ASSUME TypeOK, OrderInv, NEW c \in Clients, nextMessage(c), megser # <<>>
    PROVE  OrderInv'
<1> DEFINE h == Head(megser)
           t == Tail(megser)
<1>1. /\ h \in Message /\ t \in Seq(Message) /\ <<h>> \in Seq(Message) /\ megser = <<h>> \o t
  <2>1. megser \in Seq(Message)
    BY DEF TypeOK
  <2> QED BY <2>1
<1>2. megser' = t /\ inbox' = inbox /\ op' = op
  BY DEF nextMessage
<1>3. /\ Queued = Queued' \cup {h} /\ Elements(megser) = Elements(t) \cup {h}
  BY <1>2, QueuedTaken
<1>4. /\ thread'[c].pc = h.type /\ thread'[c].job = h.op /\ thread[c].pc = "next"
      /\ \A d \in Clients \ {c} : thread'[d] = thread[d]
  BY Moves DEF ServerStep
<1> HIDE DEF h, t
<1>5. Precedes' = Precedes /\ (\A o : Who(o)' = Who(o))
  BY <1>2, PrecedesSame
<1>6. Ordered(megser, Precedes) /\ \A d \in Clients : Elements(megser) \X Elements(inbox[d]) \subseteq Precedes
  BY DEF OrderInv
<1>7. Ordered(t, Precedes) /\ Elements(<<h>>) \X Elements(t) \subseteq Precedes
  BY <1>1, <1>6, OrderedConcat
<1>8. Elements(<<h>>) = {h}
  BY DEF Elements
<1>9. Queued' = Elements(t) \cup UNION {Elements(inbox[d]) : d \in Clients}
  BY <1>2 DEF Queued, Elements
<1>10. ASSUME NEW m \in Queued' PROVE <<h, m>> \in Precedes
  <2>1. CASE m \in Elements(t)
    BY <1>7, <1>8, <2>1
  <2>2. ASSUME NEW d \in Clients, m \in Elements(inbox[d]) PROVE <<h, m>> \in Precedes
    BY <1>3, <1>6, <2>2
  <2> QED BY <1>9, <2>1, <2>2
<1>11. /\ Job(c)' = h.op /\ (AtReal(c)' => Real(h)) /\ ~AtReal(c)
       /\ ThreadRank(c)' = Rank(h)
  BY <1>1, <1>4 DEF Job, AtReal, Busy, Real, ThreadRank, Rank, Message
<1>12. \A d \in Clients \ {c} : /\ AtReal(d)' <=> AtReal(d)
                                /\ Job(d)' = Job(d) /\ ThreadRank(d)' = ThreadRank(d)
  BY <1>4 DEF Job, AtReal, Busy, ThreadRank
<1>13. ASSUME NEW d \in Clients, NEW m \in Queued', AtReal(d)', Real(m),
              Who(m.op) = Who(Job(d)') PROVE ThreadRank(d)' < Rank(m)
  <2>1. CASE d = c
    <3>1. Before(h, m)
      BY <1>10 DEF Precedes
    <3> QED BY <1>11, <1>13, <2>1, <3>1 DEF Before
  <2>2. CASE d # c
    <3>1. AtReal(d) /\ m \in Queued /\ Who(m.op) = Who(Job(d))
      BY <1>3, <1>12, <1>13, <2>2
    <3> QED BY <1>12, <1>13, <2>2, <3>1 DEF OrderInv
  <2> QED BY <2>1, <2>2
<1>14. ASSUME NEW d \in Clients, d # c, AtReal(c)', AtReal(d)',
              Who(Job(c)') = Who(Job(d)')
       PROVE  ThreadRank(d)' < ThreadRank(c)'
  <2>1. h \in Queued /\ Real(h) /\ AtReal(d) /\ Who(h.op) = Who(Job(d))
    BY <1>3, <1>11, <1>12, <1>14
  <2>2. ThreadRank(d) < Rank(h)
    BY <2>1 DEF OrderInv
  <2> QED BY <1>11, <1>12, <1>14, <2>2
<1>15. ASSUME NEW e \in Clients, NEW d \in Clients, e # d, AtReal(e)', AtReal(d)',
              Who(Job(e)') = Who(Job(d)')
       PROVE  ThreadRank(e)' # ThreadRank(d)'
  <2>0. ASSUME NEW x \in Clients, AtReal(x)' PROVE ThreadRank(x)' \in Int
    <3>1. CASE x = c
      <4>1. Rank(h) \in Int
        BY <1>1 DEF Rank, Message, Ops
      <4> QED BY <1>11, <3>1, <4>1
    <3>2. CASE x # c
      <4>1. thread[x] \in Thread
        BY DEF TypeOK
      <4> QED BY <1>12, <2>0, <3>2, <4>1 DEF ThreadRank, Job, Thread, Ops, None
    <3> QED BY <3>1, <3>2
  <2>1. ThreadRank(e)' \in Int /\ ThreadRank(d)' \in Int
    BY <1>15, <2>0
  <2>2. CASE e = c
    <3>1. ThreadRank(d)' < ThreadRank(e)'
      BY <1>14, <1>15, <2>2
    <3> QED BY <2>1, <3>1
  <2>3. CASE d = c
    <3>1. ThreadRank(e)' < ThreadRank(d)'
      BY <1>14, <1>15, <2>3
    <3> QED BY <2>1, <3>1
  <2>4. CASE e # c /\ d # c
    <3>1. AtReal(e) /\ AtReal(d) /\ Who(Job(e)) = Who(Job(d))
      BY <1>12, <1>15, <2>4
    <3>2. ThreadRank(e) # ThreadRank(d)
      BY <1>15, <3>1 DEF OrderInv
    <3> QED BY <1>12, <2>4, <3>2
  <2> QED BY <2>2, <2>3, <2>4
<1>16. /\ \A d \in Clients : \A m \in Queued' :
             AtReal(d)' /\ Real(m) /\ Who(m.op) = Who(Job(d)') => ThreadRank(d)' < Rank(m)
       /\ \A e, d \in Clients :
             e # d /\ AtReal(e)' /\ AtReal(d)' /\ Who(Job(e)') = Who(Job(d)') =>
                ThreadRank(e)' # ThreadRank(d)'
  BY <1>13, <1>15
<1>17. /\ Ordered(megser', Precedes)
       /\ \A d \in Clients : Elements(megser') \X Elements(inbox'[d]) \subseteq Precedes
       /\ \A d \in Clients : Ordered(inbox'[d], Precedes)
       /\ \A d \in Clients : \A m \in Elements(inbox'[d]) : Real(m) => Who(m.op) = d
  BY <1>2, <1>3, <1>6, <1>7 DEF OrderInv
<1> QED BY <1>5, <1>16, <1>17 DEF OrderInv, Real, Rank, Elements, Ordered

\* Messages that come after all others are put at the end of an inbox.
LEMMA OrderGrown ==
    ASSUME TypeOK, OrderInv, NEW c \in Clients, NEW new \in Seq(Message),
           megser' = megser, inbox' = [inbox EXCEPT ![c] = @ \o new], thread' = thread,
           \A m, n \in Queued : <<m, n>> \in Precedes => <<m, n>> \in Precedes',
           Ordered(new, Precedes'), Queued \X Elements(new) \subseteq Precedes',
           \A m \in Elements(new) : Real(m) => Who(m.op)' = c,
           \A m \in Queued : Who(m.op)' = Who(m.op),
           \A d \in Clients : AtReal(d) => Who(Job(d))' = Who(Job(d)),
           \A d \in Clients : \A m \in Elements(new) : AtReal(d) /\ Real(m) =>
              ThreadRank(d) < Rank(m) \/ Who(m.op)' # Who(Job(d))'
    PROVE  OrderInv'
<1>1. inbox'[c] = inbox[c] \o new /\ (\A d \in Clients \ {c} : inbox'[d] = inbox[d])
      /\ inbox[c] \in Seq(Message)
  BY DEF TypeOK
<1>2. Elements(inbox'[c]) = Elements(inbox[c]) \cup Elements(new)
  <2>1. Elements(inbox[c] \o new) = Elements(inbox[c]) \cup Elements(new)
    BY <1>1, ElementsOfConcat
  <2> QED BY <1>1, <2>1
<1>3. /\ \A d \in Clients : Elements(inbox[d]) \subseteq Queued
      /\ Elements(megser) \subseteq Queued
  BY DEF Queued
<1>4. \A m \in Queued' : m \in Queued \/ m \in Elements(new)
  <2>1. Queued' = Elements(megser) \cup UNION {Elements(inbox'[d]) : d \in Clients}
    BY DEF Queued, Elements
  <2> QED BY <1>1, <1>2, <2>1 DEF Queued
<1>5. ASSUME NEW s, Elements(s) \subseteq Queued, Ordered(s, Precedes)
      PROVE  Ordered(s, Precedes')
  BY <1>5 DEF Ordered, Elements
<1>6. Ordered(megser, Precedes')
  BY <1>3, <1>5 DEF OrderInv
<1>7. \A d \in Clients : Ordered(inbox[d], Precedes')
  BY <1>3, <1>5 DEF OrderInv
<1>8. \A d \in Clients : Ordered(inbox'[d], Precedes')
  <2>1. Elements(inbox[c]) \X Elements(new) \subseteq Precedes'
    BY <1>3
  <2>2. Ordered(inbox[c] \o new, Precedes')
    BY <1>1, <1>7, <2>1, OrderedConcat
  <2> QED BY <1>1, <1>7, <2>2
<1>9. \A d \in Clients : Elements(megser) \X Elements(inbox'[d]) \subseteq Precedes'
  <2> SUFFICES ASSUME NEW d \in Clients, NEW x \in Elements(megser),
                      NEW y \in Elements(inbox'[d])
               PROVE  <<x, y>> \in Precedes'
    OBVIOUS
  <2>1. CASE y \in Elements(inbox[d])
    <3>1. <<x, y>> \in Precedes /\ x \in Queued /\ y \in Queued
      BY <1>3, <2>1 DEF OrderInv
    <3> QED BY <3>1
  <2>2. CASE y \notin Elements(inbox[d])
    <3>1. y \in Elements(new) /\ x \in Queued
      BY <1>1, <1>2, <1>3, <2>2
    <3> QED BY <3>1
  <2> QED BY <2>1, <2>2
<1>10. \A d \in Clients : \A m \in Elements(inbox'[d]) : Real(m) => Who(m.op)' = d
  <2> SUFFICES ASSUME NEW d \in Clients, NEW m \in Elements(inbox'[d]), Real(m)
               PROVE  Who(m.op)' = d
    OBVIOUS
  <2>1. CASE m \in Elements(inbox[d])
    BY <1>3, <2>1 DEF OrderInv
  <2>2. CASE m \notin Elements(inbox[d])
    BY <1>1, <1>2, <2>2
  <2> QED BY <2>1, <2>2
<1>11. \A d \in Clients : /\ AtReal(d)' <=> AtReal(d)
                          /\ Job(d)' = Job(d) /\ ThreadRank(d)' = ThreadRank(d)
  BY DEF AtReal, Busy, Job, ThreadRank
<1>13. ASSUME NEW d \in Clients, NEW m \in Queued', AtReal(d)', Real(m),
              Who(m.op)' = Who(Job(d))' PROVE ThreadRank(d)' < Rank(m)
  <2>1. AtReal(d)
    BY <1>11, <1>13
  <2>2. CASE m \in Queued
    <3>1. Who(m.op) = Who(Job(d))
      BY <1>13, <2>1, <2>2
    <3> QED BY <1>11, <1>13, <2>1, <2>2, <3>1 DEF OrderInv
  <2>3. CASE m \in Elements(new)
    BY <1>11, <1>13, <2>1, <2>3
  <2> QED BY <1>4, <2>2, <2>3
<1>14. ASSUME NEW e \in Clients, NEW d \in Clients, e # d, AtReal(e)', AtReal(d)',
              Who(Job(e))' = Who(Job(d))'
       PROVE  ThreadRank(e)' # ThreadRank(d)'
  <2>1. AtReal(e) /\ AtReal(d)
    BY <1>11, <1>14
  <2>2. Who(Job(e)) = Who(Job(d))
    BY <1>14, <2>1
  <2> QED BY <1>11, <1>14, <2>1, <2>2 DEF OrderInv
<1>15. /\ \A d \in Clients : \A m \in Queued' :
             AtReal(d)' /\ Real(m) /\ Who(m.op)' = Who(Job(d))' => ThreadRank(d)' < Rank(m)
       /\ \A e, d \in Clients :
             e # d /\ AtReal(e)' /\ AtReal(d)' /\ Who(Job(e))' = Who(Job(d))' =>
                ThreadRank(e)' # ThreadRank(d)'
  BY <1>13, <1>14
<1> QED BY <1>6, <1>8, <1>9, <1>10, <1>15 DEF OrderInv, Real, Rank, Elements, Ordered

LEMMA OrderAsked ==
    ASSUME TypeOK, TypeOK', Shape, OrderInv, NEW c \in Clients, upload(c) \/ download(c)
    PROVE  OrderInv'
<1>1. PICK o \in Ops, k \in {"stor", "retr"}, f \in Files \cup {NoFile} : Asks(c, o, k, f)
  BY AskIsAsks
<1>2. /\ op' = [op EXCEPT ![o] = [who |-> c, kind |-> k, file |-> f]]
      /\ o \notin Asked /\ \A p \in Ops : p < o => p \in Asked
      /\ inbox' = [inbox EXCEPT ![c] = @ \o Messages(k, o)]
      /\ Elements(Messages(k, o)) = IF k = "stor" THEN {Msg("stor", o), Msg("info", o)}
                                    ELSE {Msg("retr", o)}
      /\ megser' = megser /\ thread' = thread
  BY <1>1 DEF Asks
<1>3. \A p \in Asked : p \in Ops /\ p < o /\ p # o /\ Who(p)' = Who(p)
  <2>1. ASSUME NEW p \in Asked PROVE p < o
    <3>1. p \in Ops /\ p # o
      BY <1>2 DEF Asked
    <3>2. ~(o < p)
      BY <1>2 DEF Shape
    <3> QED BY <3>1, <3>2 DEF Ops
  <2> QED BY <1>2, <2>1 DEF Who, Asked, TypeOK
<1>4. Who(o)' = c
  BY <1>2 DEF Who, TypeOK
<1>5. Messages(k, o) \in Seq(Message)
  <2>1. \A t \in {"stor", "info", "retr"} : Msg(t, o) \in Message
    BY DEF Msg, Message
  <2> QED BY <2>1 DEF Messages
<1>6. \A m \in Queued : m \in Message /\ m.op \in Asked
  <2>1. \A m \in Queued : m.op \in Asked
    BY DEF Shape
  <2>2. \A s \in Seq(Message) : Elements(s) \subseteq Message
    BY DEF Elements
  <2>3. \A m \in Queued : m \in Message
    BY <2>2 DEF Queued, TypeOK
  <2> QED BY <2>1, <2>3
<1>7. \A m \in Queued : Who(m.op)' = Who(m.op)
  BY <1>3, <1>6
<1>8. ASSUME NEW m \in Queued, NEW n \in Queued, <<m, n>> \in Precedes
      PROVE  <<m, n>> \in Precedes'
  BY <1>7, <1>8 DEF Precedes, Before, Real, Rank
<1>9. \A m \in Elements(Messages(k, o)) :
         m.op = o /\ Rank(m) >= 2 * o /\ m \in Message /\ Rank(m) \in Nat
  <2>1. \A t \in {"stor", "info", "retr"} :
           /\ Msg(t, o).op = o /\ Msg(t, o) \in Message
           /\ Rank(Msg(t, o)) = 2 * o + (IF t = "info" THEN 1 ELSE 0)
    BY DEF Msg, Rank, Message
  <2>2. 2 * o \in Nat
    BY DEF Ops
  <2>3. \A t \in {"stor", "info", "retr"} :
           Rank(Msg(t, o)) >= 2 * o /\ Rank(Msg(t, o)) \in Nat
    BY <2>1, <2>2
  <2> QED BY <1>2, <2>1, <2>3
<1>10. ASSUME NEW p \in Ops, p < o PROVE 2 * p + 1 < 2 * o /\ 2 * p + 0 < 2 * o
  BY <1>10 DEF Ops
<1>11. ASSUME NEW m \in Queued, NEW n \in Elements(Messages(k, o))
       PROVE  <<m, n>> \in Precedes'
  <2>1. Rank(m) < Rank(n)
    <3>1. m.op \in Ops /\ m.op < o
      BY <1>3, <1>6
    <3>2. Rank(m) < 2 * o /\ Rank(m) \in Nat
      BY <1>10, <3>1 DEF Rank, Ops
    <3> QED BY <1>9, <3>2 DEF Ops
  <2> QED BY <1>6, <1>9, <2>1 DEF Precedes, Before, Rank
<1>12. Ordered(Messages(k, o), Precedes')
  <2>1. CASE k = "retr"
    BY <2>1 DEF Ordered, Messages
  <2>2. CASE k = "stor"
    <3>1. Rank(Msg("stor", o)) < Rank(Msg("info", o))
      BY DEF Rank, Msg, Ops
    <3>2. <<Msg("stor", o), Msg("info", o)>> \in Precedes'
      BY <1>2, <1>9, <2>2, <3>1 DEF Precedes, Before, Rank
    <3>3. <<Msg("stor", o), Msg("info", o)>>[1] = Msg("stor", o)
          /\ <<Msg("stor", o), Msg("info", o)>>[2] = Msg("info", o)
          /\ DOMAIN <<Msg("stor", o), Msg("info", o)>> = 1 .. 2
      OBVIOUS
    <3> DEFINE s == <<Msg("stor", o), Msg("info", o)>>
    <3>4. \A i, j \in 1 .. 2 : i < j => i = 1 /\ j = 2
      OBVIOUS
    <3>5. Ordered(s, Precedes')
      BY <3>2, <3>3, <3>4 DEF Ordered
    <3> QED BY <2>2, <3>5 DEF Messages
  <2> QED BY <2>1, <2>2
<1>13. \A m \in Elements(Messages(k, o)) : Real(m) => Who(m.op)' = c
  BY <1>4, <1>9
<1>14. ASSUME NEW d \in Clients, AtReal(d)
       PROVE  /\ Who(Job(d))' = Who(Job(d))
              /\ \A m \in Elements(Messages(k, o)) : ThreadRank(d) < Rank(m)
  <2>1. Job(d) \in Asked
    BY <1>14 DEF AtReal, Shape, ThreadShape
  <2>2. Job(d)' = Job(d)
    BY <1>2 DEF Job
  <2>3. ThreadRank(d) < 2 * o /\ ThreadRank(d) \in Int
    BY <1>3, <1>10, <2>1 DEF ThreadRank, Ops
  <2>4. Who(Job(d))' = Who(Job(d))
    BY <1>3, <2>1, <2>2 DEF Who
  <2> QED BY <1>9, <2>3, <2>4 DEF Ops
<1>15. Queued \X Elements(Messages(k, o)) \subseteq Precedes'
  BY <1>11
<1> DEFINE new == Messages(k, o)
<1> HIDE DEF new
<1>16. new \in Seq(Message) /\ inbox' = [inbox EXCEPT ![c] = @ \o new]
  BY <1>2, <1>5 DEF new
<1>17. /\ Ordered(new, Precedes') /\ Queued \X Elements(new) \subseteq Precedes'
       /\ \A m \in Elements(new) : Real(m) => Who(m.op)' = c
       /\ \A d \in Clients : \A m \in Elements(new) : AtReal(d) /\ Real(m) =>
              ThreadRank(d) < Rank(m) \/ Who(m.op)' # Who(Job(d))'
  BY <1>12, <1>13, <1>14, <1>15 DEF new
<1> QED BY <1>2, <1>7, <1>8, <1>14, <1>16, <1>17, OrderGrown

LEMMA OrderFailed ==
    ASSUME TypeOK, OrderInv, NEW r \in replies, openLocalFails(r)
    PROVE  OrderInv'
<1>1. r.op \in Ops /\ r.to \in Clients
  BY DEF TypeOK, ReplyType
<1> DEFINE new == Excuse(r)
<1>3. op' = op /\ megser' = megser /\ thread' = thread
  BY DEF openLocalFails, clientUnchanged
<1>4. inbox' = [inbox EXCEPT ![r.to] = @ \o new]
  BY DEF openLocalFails
<1> HIDE DEF new
<1>5. new \in Seq(Message) /\ \A m \in Elements(new) : m \in Message /\ ~Real(m)
  <2>1. new \in Seq(Message) /\ \A m \in Elements(new) : ~Real(m)
    BY ExcuseOK DEF new
  <2> QED BY <2>1 DEF Elements
<1>6. Precedes' = Precedes /\ (\A o : Who(o)' = Who(o)) /\ \A d \in Clients : Job(d)' = Job(d)
  BY <1>3, PrecedesSame DEF Job
<1>7. \A n \in Queued : n \in Message
  <2>1. \A s \in Seq(Message) : Elements(s) \subseteq Message
    BY DEF Elements
  <2> QED BY <2>1 DEF Queued, TypeOK
<1>8. Ordered(new, Precedes')
  BY <1>5, <1>6 DEF Ordered, Elements, Precedes, Before
<1>9. Queued \X Elements(new) \subseteq Precedes'
  BY <1>5, <1>6, <1>7 DEF Precedes, Before
<1>10. \A n \in Elements(new) : ~Real(n)
  BY <1>5
<1>11. \A d \in Clients : Who(Job(d))' = Who(Job(d))
  BY <1>3 DEF Who, Job
<1> QED BY <1>1, <1>3, <1>4, <1>5, <1>6, <1>8, <1>9, <1>10, <1>11, OrderGrown

LEMMA OrderLost ==
    ASSUME TypeOK, OrderInv, NEW c \in Clients, crash(c)
    PROVE  OrderInv'
<1>1. PICK n \in 0 .. Len(inbox[c]) : inbox' = [inbox EXCEPT ![c] = SubSeq(@, 1, n)]
  BY DEF crash
<1> DEFINE a == SubSeq(inbox[c], 1, n)
           b == SubSeq(inbox[c], n + 1, Len(inbox[c]))
<1>2. a \in Seq(Message) /\ b \in Seq(Message) /\ a \o b = inbox[c]
  <2>1. inbox[c] \in Seq(Message)
    BY DEF TypeOK
  <2> QED BY <2>1, SplitAt
<1>3. inbox'[c] = a /\ \A d \in Clients \ {c} : inbox'[d] = inbox[d]
  BY <1>1 DEF TypeOK
<1> HIDE DEF a, b
<1>4. op' = op /\ megser' = megser /\ thread' = thread
  BY DEF crash
<1>5. Precedes' = Precedes /\ \A o : Who(o)' = Who(o)
  BY <1>4, PrecedesSame
<1>6. Queued' \subseteq Queued /\ \A d \in Clients : Elements(inbox'[d]) \subseteq Elements(inbox[d])
  BY QueuedLost
<1>7. \A d \in Clients : Ordered(inbox'[d], Precedes)
  <2>1. Ordered(a, Precedes)
    <3>1. Ordered(a \o b, Precedes)
      BY <1>2 DEF OrderInv
    <3> QED BY <1>2, <3>1, OrderedConcat
  <2> QED BY <1>3, <2>1 DEF OrderInv
<1>8. \A d \in Clients : Elements(megser) \X Elements(inbox'[d]) \subseteq Precedes
  BY <1>6 DEF OrderInv
<1>9. \A d \in Clients : \A m \in Elements(inbox'[d]) : Real(m) => Who(m.op) = d
  BY <1>6 DEF OrderInv
<1>10. \A d \in Clients : /\ AtReal(d)' <=> AtReal(d)
                          /\ Job(d)' = Job(d) /\ ThreadRank(d)' = ThreadRank(d)
  BY <1>4 DEF AtReal, Busy, Job, ThreadRank
<1>11. \A d \in Clients : Who(Job(d))' = Who(Job(d))
  BY <1>4 DEF Who, Job
<1>12. /\ \A d \in Clients : \A m \in Queued' :
             AtReal(d)' /\ Real(m) /\ Who(m.op) = Who(Job(d))' => ThreadRank(d)' < Rank(m)
       /\ \A e, d \in Clients :
             e # d /\ AtReal(e)' /\ AtReal(d)' /\ Who(Job(e))' = Who(Job(d))' =>
                ThreadRank(e)' # ThreadRank(d)'
  BY <1>6, <1>10, <1>11 DEF OrderInv
<1> QED BY <1>4, <1>5, <1>7, <1>8, <1>9, <1>12 DEF OrderInv, Real, Rank, Elements, Ordered

LEMMA OrderStep ==
    ASSUME TypeOK, TypeOK', Shape, OrderInv, [Next]_vars
    PROVE  OrderInv'
<1>1. ASSUME UNCHANGED <<op, inbox, megser, thread>> PROVE OrderInv'
  <2>1. \A c \in Clients : Continues(c)
    BY <1>1 DEF Continues, AtReal, Busy, Job, ThreadRank
  <2> QED BY <1>1, <2>1, OrderKept
<1>2. CASE UNCHANGED vars
  BY <1>1, <1>2 DEF vars
<1>3. ASSUME NEW c \in Clients, ServerStep(c) \/ openFails(c) PROVE OrderInv'
  <2>1. CASE messageCallback(c)
    BY <2>1, OrderMoved
  <2>2. CASE nextMessage(c) /\ megser # <<>>
    BY <2>2, OrderTaken
  <2>3. CASE nextMessage(c) /\ megser = <<>>
    <3>1. op' = op /\ inbox' = inbox /\ megser' = megser
      BY <2>3 DEF nextMessage
    <3>2. thread'[c].pc = "idle" /\ \A d \in Clients \ {c} : thread'[d] = thread[d]
      BY <2>3, Moves DEF ServerStep, Idle
    <3>3. \A d \in Clients : Continues(d)
      BY <3>2 DEF Continues, AtReal, Busy, Job, ThreadRank
    <3> QED BY <3>1, <3>3, OrderKept
  <2>4. CASE ~messageCallback(c) /\ ~nextMessage(c)
    <3>1. op' = op /\ inbox' = inbox /\ megser' = megser
      BY <1>3, <2>4 DEF ServerStep, createFile, openFile, openFails, getFilefd,
         connectPort, bindAddress, listenPort, tellPort,
         acceptBegins, accept1, stor, retr, info, cloe, otherMessage
    <3>2. \A d \in Clients : Continues(d)
      BY <1>3, <2>4, Continued
    <3> QED BY <3>1, <3>2, OrderKept
  <2> QED BY <2>1, <2>2, <2>3, <2>4
<1>4. ASSUME NEW o \in Ops, TaskStep(o) PROVE OrderInv'
  BY <1>1, <1>4 DEF TaskStep, openLocal, sendmain, printError, connectData, sendData,
     readData, linkUnchanged, clientUnchanged
<1> QED BY <1>2, <1>3, <1>4, OrderAsked, OrderFailed, OrderLost DEF Next, Failure

----------------------------------------------------------------------------
(***************************************************************************)
(* Files and uploads.                                                      *)
(***************************************************************************)
LEMMA QueuedStep ==
    ASSUME TypeOK, Shape, [Next]_vars
    PROVE  \A m \in Queued' : m \in Queued \/ ~Real(m) \/ m.op \notin Asked
<1>1. ASSUME inbox' = inbox, megser' = megser PROVE Queued' = Queued
  BY <1>1, QueuedSame
<1>2. ASSUME NEW c \in Clients, ServerStep(c) \/ openFails(c) PROVE Queued' \subseteq Queued
  <2>1. CASE messageCallback(c)
    BY <2>1, QueuedMoved
  <2>2. CASE nextMessage(c) /\ megser # <<>>
    BY <2>2, QueuedTaken DEF nextMessage
  <2>3. CASE nextMessage(c) /\ megser = <<>>
    BY <1>1, <2>3 DEF nextMessage
  <2>4. CASE ~messageCallback(c) /\ ~nextMessage(c)
    BY <1>1, <1>2, <2>4 DEF ServerStep, createFile, openFile, openFails, getFilefd,
       connectPort, bindAddress, listenPort, tellPort, acceptBegins, accept1, stor, retr,
       info, cloe, otherMessage
  <2> QED BY <2>1, <2>2, <2>3, <2>4
<1>3. ASSUME NEW o \in Ops, TaskStep(o) PROVE Queued' = Queued
  BY <1>1, <1>3 DEF TaskStep, openLocal, sendmain, printError, connectData, sendData,
     readData, linkUnchanged, clientUnchanged
<1>4. ASSUME NEW c \in Clients, upload(c) \/ download(c)
      PROVE  \A m \in Queued' : m \in Queued \/ m.op \notin Asked
  <2>1. PICK o \in Ops, k \in {"stor", "retr"}, f \in Files \cup {NoFile} : Asks(c, o, k, f)
    BY <1>4, AskIsAsks
  <2>2. /\ o \notin Asked /\ Queued' = Queued \cup Elements(Messages(k, o))
        /\ Elements(Messages(k, o)) = IF k = "stor" THEN {Msg("stor", o), Msg("info", o)}
                                      ELSE {Msg("retr", o)}
    BY <2>1 DEF Asks
  <2>3. \A m \in Elements(Messages(k, o)) : m.op = o
    BY <2>2 DEF Msg
  <2> QED BY <2>2, <2>3
<1>5. ASSUME NEW r \in replies, openLocalFails(r)
      PROVE  \A m \in Queued' : m \in Queued \/ ~Real(m)
  BY <1>5, QueuedFailed, ExcuseOK
<1>6. ASSUME NEW c \in Clients, crash(c) PROVE Queued' \subseteq Queued
  BY <1>6, QueuedLost
<1>7. CASE UNCHANGED vars
  BY <1>1, <1>7 DEF vars
<1> QED BY <1>2, <1>3, <1>4, <1>5, <1>6, <1>7 DEF Next, Failure

LEMMA QueuedType ==
    ASSUME TypeOK
    PROVE  \A m \in Queued : m \in Message /\ m = Msg(m.type, m.op)
<1>1. \A s \in Seq(Message) : Elements(s) \subseteq Message
  BY DEF Elements
<1>2. \A m \in Queued : m \in Message
  BY <1>1 DEF Queued, TypeOK
<1>3. \A m \in Message : m = Msg(m.type, m.op)
  BY DEF Message, Msg
<1> QED BY <1>2, <1>3

\* A thread is changed by its own steps only.
LEMMA ThreadSame ==
    ASSUME TypeOK, [Next]_vars, NEW d \in Clients, ~ServerStep(d), ~openFails(d)
    PROVE  thread'[d] = thread[d]
<1>1. ASSUME NEW c \in Clients, c # d, ServerStep(c) \/ openFails(c)
      PROVE  thread'[d] = thread[d]
  BY <1>1, Moves
<1>2. ASSUME NEW c \in Clients, upload(c) \/ download(c) PROVE thread' = thread
  BY <1>2, AskIsAsks DEF Asks
<1>3. ASSUME NEW o \in Ops, TaskStep(o) PROVE thread' = thread
  BY <1>3 DEF TaskStep, openLocal, sendmain, printError, connectData, sendData,
     readData, linkUnchanged, clientUnchanged
<1>4. ASSUME Failure PROVE thread' = thread \/ \E c \in Clients : openFails(c)
  BY <1>4 DEF Failure, crash, openLocalFails, clientUnchanged
<1> QED BY <1>1, <1>2, <1>3, <1>4 DEF Next, vars

\* What a thread does now it did before, or takes from the messages.
LEMMA Begins ==
    ASSUME TypeOK, [Next]_vars, NEW d \in Clients, Busy(d)'
    PROVE  \/ Busy(d) /\ Job(d)' = Job(d)
           \/ /\ nextMessage(d) /\ megser # <<>> /\ thread[d].pc = "next"
              /\ Msg(thread'[d].pc, Job(d)') = Head(megser) /\ Head(megser) \in Queued
<1>1. ASSUME thread'[d] = thread[d] PROVE Busy(d) /\ Job(d)' = Job(d)
  BY <1>1 DEF Busy, Job
<1>2. ASSUME ServerStep(d) \/ openFails(d), ~nextMessage(d)
      PROVE  Busy(d) /\ Job(d)' = Job(d)
  <2>1. [Idle EXCEPT !.pc = "next"].pc = "next"
    BY DEF Idle
  <2>2. CASE messageCallback(d)
    BY <2>2, Moves DEF Step, Busy
  <2>3. CASE getFilefd(d)
    <3>1. Step(d, "retr", "port") \/ Finishes(d, "retr")
      BY <2>3, Moves
    <3> QED BY <2>1, <3>1 DEF Step, Finishes, Busy, Job
  <2>4. CASE \/ createFile(d) \/ openFile(d)
             \/ connectPort(d) \/ bindAddress(d) \/ listenPort(d) \/ tellPort(d)
             \/ acceptBegins(d) \/ accept1(d)
    <3>1. \/ Step(d, "stor", "open") \/ Step(d, "open", "port") \/ Step(d, "port", "bind")
          \/ Step(d, "bind", "listen") \/ Step(d, "listen", "tell")
          \/ Step(d, "tell", "ported") \/ Step(d, "ported", "accept")
          \/ Step(d, "accept", IF op[Job(d)].kind = "stor" THEN "reading" ELSE "sending")
      BY <2>4, Moves
    <3> QED BY <3>1 DEF Step, Busy, Job
  <2>5. CASE stor(d) \/ retr(d)
    <3>1. \/ Finishes(d, "reading") \/ Finishes(d, "sending") \/ thread' = thread
          \/ thread[d].pc = "sending" /\ thread'[d].job = thread[d].job
      BY <2>5, Moves
    <3> QED BY <2>1, <3>1 DEF Finishes, Busy, Job
  <2>6. CASE openFails(d) \/ info(d) \/ cloe(d) \/ otherMessage(d)
    <3>1. \/ Finishes(d, "open") \/ Finishes(d, "info")
          \/ Finishes(d, "cloe") \/ Finishes(d, "550")
      BY <2>6, Moves
    <3> QED BY <2>1, <3>1 DEF Finishes, Busy
  <2> QED BY <1>2, <2>2, <2>3, <2>4, <2>5, <2>6 DEF ServerStep
<1>3. CASE nextMessage(d) /\ megser = <<>>
  BY <1>3, Moves DEF Idle, Busy
<1>4. CASE nextMessage(d) /\ megser # <<>>
  <2>1. /\ thread[d].pc = "next" /\ thread'[d].pc = Head(megser).type
        /\ Job(d)' = Head(megser).op
    BY <1>4, Moves DEF Job
  <2>2. Head(megser) \in Queued
    BY <1>4, QueuedTaken DEF nextMessage
  <2>3. Head(megser) = Msg(Head(megser).type, Head(megser).op)
    BY <2>2, QueuedType
  <2> QED BY <1>4, <2>1, <2>2, <2>3
<1> QED BY <1>1, <1>2, <1>3, <1>4, ThreadSame

\* A request for an upload is not queued again.
LEMMA ServedKept ==
    ASSUME TypeOK, Shape, Shape', [Next]_vars, NEW o \in Asked, StorWaits(o)'
    PROVE  StorWaits(o)
<1>1. CASE Msg("stor", o) \in Queued'
  <2>1. Msg("stor", o) \in Queued
    BY <1>1, QueuedStep DEF Msg, Real
  <2> QED BY <2>1 DEF StorWaits
<1>2. ASSUME NEW d \in Clients, thread'[d].pc \in {"stor", "open"}, Job(d)' = o
      PROVE  StorWaits(o)
  <2>1. Busy(d)'
    BY <1>2 DEF Busy
  <2>2. CASE thread'[d].pc = "stor" /\ Msg(thread'[d].pc, Job(d)') \in Queued
    BY <1>2, <2>2 DEF StorWaits
  <2>3. CASE thread[d].pc \in {"stor", "open"} /\ Job(d) = o
    BY <2>3 DEF StorWaits
  <2>4. ASSUME thread'[d] = thread[d] PROVE thread[d].pc \in {"stor", "open"} /\ Job(d) = o
    BY <1>2, <2>4 DEF Job
  <2>5. [Idle EXCEPT !.pc = "next"].pc = "next"
    BY DEF Idle
  <2>6. ASSUME ServerStep(d) \/ openFails(d), ~nextMessage(d)
        PROVE  thread[d].pc \in {"stor", "open"} /\ Job(d) = o
    <3>1. CASE getFilefd(d)
      <4>1. Step(d, "retr", "port") \/ Finishes(d, "retr")
        BY <3>1, Moves
      <4> QED BY <1>2, <2>5, <4>1 DEF Step, Finishes
    <3>2. CASE createFile(d)
      <4>1. Step(d, "stor", "open")
        BY <3>2, Moves
      <4> QED BY <1>2, <4>1 DEF Step, Job
    <3>3. CASE ~getFilefd(d) /\ ~createFile(d)
      <4>1. \/ Step(d, "idle", "next") \/ Step(d, "open", "port") \/ Step(d, "port", "bind")
            \/ Step(d, "bind", "listen") \/ Step(d, "listen", "tell")
            \/ Step(d, "tell", "ported") \/ Step(d, "ported", "accept")
            \/ Step(d, "accept", IF op[Job(d)].kind = "stor" THEN "reading" ELSE "sending")
            \/ thread'[d].pc = "next" \/ thread'[d].pc = "sending"
            \/ thread' = thread /\ thread[d].pc = "reading"
        BY <2>5, <2>6, <3>3, Moves DEF ServerStep, Finishes
      <4> QED BY <1>2, <4>1 DEF Step
    <3> QED BY <3>1, <3>2, <3>3
  <2>7. CASE nextMessage(d)
    <3>1. thread[d].pc = "next"
      BY <2>7, Moves
    <3>2. Msg(thread'[d].pc, Job(d)') \in Queued
      BY <2>1, <3>1, Begins DEF Busy
    <3>3. Msg(thread'[d].pc, Job(d)').type = thread'[d].pc
          /\ Msg(thread'[d].pc, Job(d)').type # "open"
      BY <3>2, QueuedType DEF Msg, Message
    <3> QED BY <1>2, <2>2, <3>2, <3>3
  <2> QED BY <2>3, <2>4, <2>6, <2>7, ThreadSame
<1> QED BY <1>1, <1>2 DEF StorWaits

LEMMA SpaceStep ==
    ASSUME TypeOK, TypeOK', Shape, Shape', OrderInv, SpaceInv, [Next]_vars
    PROVE  SpaceInv'
<1>1. IsFiniteSet(Ops)
  BY FS_Interval, TransferAssumption DEF Ops
<1>2. /\ IsFiniteSet(Served) /\ IsFiniteSet(Served')
      /\ Cardinality(Served) \in Nat /\ Cardinality(Served') \in Nat
  BY <1>1, FS_Subset, FS_CardinalityType DEF Served, Asked
<1>3. Served \subseteq Served'
  BY Mono, ServedKept DEF Served
<1>4. IsFiniteSet(exists) /\ Cardinality(exists) \in Nat /\ Cardinality(exists) <= Cardinality(Served)
  BY FS_CardinalityType DEF SpaceInv
<1>5. CASE exists' = exists
  <2>1. Cardinality(Served) <= Cardinality(Served')
    BY <1>2, <1>3, FS_Subset
  <2> QED BY <1>2, <1>4, <1>5, <2>1 DEF SpaceInv
<1>6. ASSUME NEW c \in Clients, openFile(c) PROVE SpaceInv'
  <2> DEFINE o == Job(c)
  <2>1. thread[c].pc = "open" /\ o \in Asked /\ AtReal(c) /\ thread'[c].pc = "port"
    <3>1. Step(c, "open", "port")
      BY <1>6, Moves
    <3> QED BY <3>1 DEF Step, Shape, ThreadShape, Busy, AtReal
  <2>2. /\ inbox' = inbox /\ megser' = megser /\ op' = op
        /\ exists' = exists \cup {thread[c].file}
        /\ \A d \in Clients \ {c} : thread'[d] = thread[d]
    BY <1>6, Moves DEF openFile, ServerStep
  <2>3. o \notin Served
    BY <2>1 DEF Served, StorWaits
  <2>4. Msg("stor", o) \notin Queued
    <3> SUFFICES ASSUME Msg("stor", o) \in Queued PROVE FALSE
      OBVIOUS
    <3>1. ThreadRank(c) < Rank(Msg("stor", o))
      BY <2>1 DEF OrderInv, Real, Msg
    <3>2. ThreadRank(c) = 2 * o + 0 /\ Rank(Msg("stor", o)) = 2 * o + 0
      BY <2>1 DEF ThreadRank, Rank, Msg
    <3>3. o \in Nat
      BY <2>1 DEF Asked, Ops
    <3> QED BY <3>1, <3>2, <3>3
  <2>5. ASSUME NEW d \in Clients \ {c}, thread[d].pc \in {"stor", "open"}, Job(d) = o
        PROVE  FALSE
    <3>1. AtReal(d)
      BY <2>5 DEF AtReal, Busy
    <3>2. ThreadRank(d) # ThreadRank(c)
      BY <2>1, <2>5, <3>1 DEF OrderInv
    <3> QED BY <2>1, <2>5, <3>2 DEF ThreadRank
  <2>6. o \in Served'
    <3>1. o \in Asked' /\ Queued' = Queued
      BY <2>1, <2>2, QueuedSame DEF Asked
    <3>2. ASSUME NEW d \in Clients, thread'[d].pc \in {"stor", "open"}, Job(d)' = o
          PROVE  FALSE
      BY <2>1, <2>2, <2>5, <3>2 DEF Job
    <3> HIDE DEF o
    <3> QED BY <2>4, <3>1, <3>2 DEF Served, StorWaits
  <2> HIDE DEF o
  <2>7. IsFiniteSet(Served \cup {o}) /\ Cardinality(Served \cup {o}) = Cardinality(Served) + 1
    BY <1>2, <2>3, FS_AddElement
  <2>8. Cardinality(Served \cup {o}) <= Cardinality(Served')
    <3>1. Served \cup {o} \subseteq Served'
      BY <1>3, <2>6
    <3> QED BY <1>2, <3>1, FS_Subset
  <2>9. IsFiniteSet(exists') /\ Cardinality(exists') <= Cardinality(exists) + 1
        /\ Cardinality(exists') \in Nat
    <3>1. IsFiniteSet(exists')
          /\ (Cardinality(exists') = Cardinality(exists)
               \/ Cardinality(exists') = Cardinality(exists) + 1)
      BY <1>4, <2>2, FS_AddElement
    <3> QED BY <1>4, <3>1
  <2> QED BY <1>2, <1>4, <2>7, <2>8, <2>9 DEF SpaceInv
<1>7. (\E c \in Clients : openFile(c)) \/ exists' = exists
  <2>1. ASSUME NEW c \in Clients, upload(c) \/ download(c) PROVE exists' = exists
    BY <2>1, AskIsAsks DEF Asks
  <2>2. ASSUME NEW o \in Ops, TaskStep(o) PROVE exists' = exists
    BY <2>2 DEF TaskStep, openLocal, sendmain, printError, connectData, sendData,
       readData, linkUnchanged, clientUnchanged
  <2>3. ASSUME Failure PROVE exists' = exists
    BY <2>3 DEF Failure, crash, openLocalFails, openFails, clientUnchanged
  <2>4. ASSUME NEW c \in Clients, ServerStep(c), ~openFile(c) PROVE exists' = exists
    BY <2>4 DEF ServerStep, messageCallback, nextMessage, createFile, getFilefd,
       connectPort, bindAddress, listenPort, tellPort, acceptBegins, accept1, stor, retr,
       info, cloe, otherMessage
  <2> QED BY <2>1, <2>2, <2>3, <2>4 DEF Next, vars
<1> QED BY <1>5, <1>6, <1>7

LEMMA InitSpace == Init => OrderInv /\ SpaceInv
<1> SUFFICES ASSUME Init PROVE OrderInv /\ SpaceInv
  OBVIOUS
<1>1. TypeOK /\ Shape
  BY InitOK
<1>2. /\ inbox = [d \in Clients |-> <<>>] /\ megser = <<>>
      /\ thread = [d \in Clients |-> Idle]
  BY DEF Init
<1>3. Queued = {} /\ Elements(megser) = {} /\ \A d \in Clients : Elements(inbox[d]) = {}
  BY <1>2 DEF Queued, Elements
<1>4. \A d \in Clients : thread[d].pc = "idle"
  BY <1>2 DEF Idle
<1>5. OrderInv
  BY <1>2, <1>3, <1>4 DEF OrderInv, Ordered, AtReal, Busy
<1>6. 1 \in Served
  <2>1. 1 \in Asked
    BY TransferAssumption DEF Init, Asked, Ops
  <2> QED BY <1>3, <1>4, <2>1 DEF Served, StorWaits
<1>7. \E f : exists = {f}
  BY DEF Init
<1>8. IsFiniteSet(exists) /\ Cardinality(exists) = 1
  BY <1>7, FS_Singleton
<1>9. IsFiniteSet(Ops)
  BY FS_Interval, TransferAssumption DEF Ops
<1>10. IsFiniteSet(Served) /\ Cardinality(Served) \in Nat
  BY <1>9, FS_Subset, FS_CardinalityType DEF Served, Asked
<1>11. Cardinality({1}) <= Cardinality(Served) /\ Cardinality({1}) = 1
  BY <1>6, <1>10, FS_Subset, FS_Singleton
<1> QED BY <1>5, <1>8, <1>11 DEF SpaceInv

\* The variables keep their types: no file gets a name that createFile cannot
\* number (handleFile.cc:109-122), and nothing refers to a transfer that was
\* not asked for.
Typed == TypeOK /\ Shape /\ OrderInv /\ SpaceInv

THEOREM TypeCorrect == Spec => []Typed
<1>1. Init => Typed
  BY InitOK, InitSpace DEF Typed
<1>2. Typed /\ [Next]_vars => Typed'
  BY ShapeStep, OrderStep, SpaceStep DEF Typed
<1> QED BY <1>1, <1>2, PTL DEF Spec

----------------------------------------------------------------------------
(***************************************************************************)
(* Who is mistaken for whom.                                               *)
(***************************************************************************)
\* How a thread comes to where it is.
LEMMA Arrives ==
    ASSUME TypeOK, [Next]_vars, NEW d \in Clients
    PROVE  \/ thread'[d] = thread[d]
           \/ thread'[d].pc \in {"idle", "next"}
           \/ /\ nextMessage(d) /\ megser # <<>> /\ thread[d].pc = "next"
              /\ Msg(thread'[d].pc, Job(d)') = Head(megser) /\ Head(megser) \in Queued
              /\ thread'[d].pc \in {"stor", "info", "retr", "cloe", "550"}
           \/ createFile(d) /\ Step(d, "stor", "open")
           \/ openFile(d) /\ Step(d, "open", "port") /\ SameFile(d)
           \/ /\ getFilefd(d) /\ Step(d, "retr", "port")
              /\ thread'[d].file = op[Job(d)].file
           \/ connectPort(d) /\ Step(d, "port", "bind") /\ SameFile(d)
           \/ bindAddress(d) /\ Step(d, "bind", "listen") /\ SameFile(d)
           \/ listenPort(d) /\ Step(d, "listen", "tell") /\ SameFile(d)
           \/ tellPort(d) /\ Step(d, "tell", "ported") /\ SameFile(d)
           \/ /\ acceptBegins(d) /\ Step(d, "ported", "accept") /\ SameFile(d)
              /\ thread'[d].listen = acceptSocket_
           \/ /\ accept1(d) /\ SameFile(d) /\ SameListen(d)
              /\ Step(d, "accept", IF op[Job(d)].kind = "stor" THEN "reading" ELSE "sending")
           \/ /\ retr(d) /\ thread[d].pc = "sending" /\ thread'[d].pc = "sending"
              /\ thread'[d].job = thread[d].job /\ SameFile(d) /\ SameListen(d)
              /\ thread'[d].pos = thread[d].pos + 1
<1>1. [Idle EXCEPT !.pc = "next"].pc = "next" /\ Idle.pc = "idle"
  BY DEF Idle
<1>2. CASE nextMessage(d)
  <2>1. CASE megser = <<>>
    BY <1>1, <1>2, <2>1, Moves
  <2>2. CASE megser # <<>>
    <3>1. thread[d].pc = "next" /\ thread'[d].pc = Head(megser).type
          /\ Job(d)' = Head(megser).op /\ thread'[d].pos = thread[d].pos
      BY <1>2, <2>2, Moves DEF Job
    <3>2. Head(megser) \in Queued
      BY <1>2, <2>2, QueuedTaken DEF nextMessage
    <3>3. Head(megser) = Msg(Head(megser).type, Head(megser).op)
          /\ Head(megser).type \in {"stor", "info", "retr", "cloe", "550"}
      BY <3>2, QueuedType DEF Message
    <3> QED BY <1>2, <2>2, <3>1, <3>2, <3>3
  <2> QED BY <2>1, <2>2
<1>3. CASE getFilefd(d)
  <2>1. CASE op[Job(d)].file \in exists
    BY <1>3, <2>1, Moves
  <2>2. CASE op[Job(d)].file \notin exists
    BY <1>1, <1>3, <2>2, Moves DEF Finishes
  <2> QED BY <2>1, <2>2
<1>4. CASE messageCallback(d)
  BY <1>4, Moves DEF Step
<1>5. CASE stor(d) \/ openFails(d) \/ info(d) \/ cloe(d) \/ otherMessage(d)
  BY <1>1, <1>5, Moves DEF Finishes
<1>6. CASE retr(d)
  BY <1>1, <1>6, Moves DEF Finishes
<1>7. CASE createFile(d)
  BY <1>7, Moves
<1>8. CASE openFile(d)
  BY <1>8, Moves
<1>9. CASE connectPort(d) \/ bindAddress(d) \/ listenPort(d) \/ tellPort(d)
  BY <1>9, Moves
<1>10. CASE acceptBegins(d)
  BY <1>10, Moves
<1>11. CASE accept1(d)
  BY <1>11, Moves
<1> QED BY <1>2, <1>3, <1>4, <1>5, <1>6, <1>7, <1>8, <1>9, <1>10, <1>11, ThreadSame
        DEF ServerStep

\* Where answers come from.
LEMMA RepliesStep ==
    ASSUME TypeOK, Shape, [Next]_vars, NEW r \in replies', r \notin replies
    PROVE  \E c \in Clients :
              /\ r.to = ftpConn /\ r.op = Job(c) /\ ftpConn \in Clients
              /\ Job(c) \in Asked /\ Busy(c)
              /\ confused' = Mixed(c, ftpConn) /\ ftpConn \notin gone
              /\ \/ /\ openFails(c) /\ r.kind = "550"
                 \/ /\ tellPort(c) /\ r.file = thread[c].file
                    /\ r.kind = IF op[Job(c)].kind = "stor" THEN "150" ELSE "151"
                 \/ info(c) /\ r.kind = "999" /\ r.file = fileTimeMap[ftpConn]
<1>1. ASSUME NEW c \in Clients, upload(c) \/ download(c) PROVE replies' = replies
  BY <1>1, AskIsAsks DEF Asks
<1>2. ASSUME NEW o \in Ops, TaskStep(o) PROVE replies' \subseteq replies
  BY <1>2 DEF TaskStep, openLocal, sendmain, printError, connectData, sendData,
     readData, linkUnchanged, clientUnchanged
<1>3. ASSUME Failure PROVE replies' \subseteq replies \/ \E c \in Clients : openFails(c)
  BY <1>3 DEF Failure, crash, openLocalFails, clientUnchanged
<1>4. ASSUME NEW c \in Clients, ServerStep(c), ~tellPort(c), ~info(c)
      PROVE  replies' = replies
  BY <1>4 DEF ServerStep, otherMessage, messageCallback, nextMessage, createFile, openFile,
     getFilefd, connectPort, bindAddress, listenPort, acceptBegins, accept1, stor, retr,
     cloe
<1>5. PICK c \in Clients : openFails(c) \/ tellPort(c) \/ info(c)
  BY <1>1, <1>2, <1>3, <1>4 DEF Next, vars
<1>6. /\ Busy(c) /\ Job(c) \in Asked /\ ftpConn \in Clients
      /\ thread[c].pc \in {"open", "tell"} => thread[c].file \in Files
  <2>1. thread[c].pc \in {"open", "tell", "info"}
    BY <1>5 DEF openFails, tellPort, info, At
  <2> QED BY <2>1 DEF Shape, ThreadShape, Busy
<1>7. Job(c) \in Ops
  BY <1>6 DEF Asked
<1>8. CASE openFails(c)
  <2>1. replies' = Reply("550", Job(c), NoFile) /\ confused' = Mixed(c, ftpConn)
    BY <1>8 DEF openFails
  <2>2. r = [to |-> ftpConn, kind |-> "550", op |-> Job(c), file |-> NoFile]
        /\ ftpConn \notin gone
    BY <1>6, <1>7, <2>1, ReplyOK
  <2> QED BY <1>6, <1>8, <2>1, <2>2
<1>9. CASE tellPort(c)
  <2> DEFINE k == IF op[Job(c)].kind = "stor" THEN "150" ELSE "151"
  <2>1. replies' = Reply(k, Job(c), thread[c].file) /\ confused' = Mixed(c, ftpConn)
        /\ thread[c].file \in Files
    BY <1>6, <1>9 DEF tellPort, At
  <2>2. k \in {"150", "151"}
    OBVIOUS
  <2> HIDE DEF k
  <2>3. r = [to |-> ftpConn, kind |-> k, op |-> Job(c), file |-> thread[c].file]
        /\ ftpConn \notin gone
    BY <1>6, <1>7, <2>1, <2>2, ReplyOK
  <2> QED BY <1>6, <1>9, <2>1, <2>3 DEF k
<1>10. CASE info(c)
  <2>1. replies' = Reply("999", Job(c), fileTimeMap[ftpConn]) /\ confused' = Mixed(c, ftpConn)
        /\ fileTimeMap[ftpConn] \in Files \cup {NoFile}
    BY <1>6, <1>10 DEF info, TypeOK
  <2>2. r = [to |-> ftpConn, kind |-> "999", op |-> Job(c), file |-> fileTimeMap[ftpConn]]
        /\ ftpConn \notin gone
    BY <1>6, <1>7, <2>1, ReplyOK
  <2> QED BY <1>6, <1>10, <2>1, <2>2
<1> QED BY <1>5, <1>8, <1>9, <1>10

\* Where messages come from.
LEMMA NewMessages ==
    ASSUME TypeOK, Shape, [Next]_vars, NEW c \in Clients, NEW m \in Elements(inbox'[c])
    PROVE  \/ m \in Elements(inbox[c])
           \/ Who(m.op)' = c /\ Real(m) /\ m.op \notin Asked
           \/ \E r \in replies : openLocalFails(r) /\ r.to = c /\ m \in Elements(Excuse(r))
<1>1. ASSUME inbox'[c] = inbox[c] PROVE m \in Elements(inbox[c])
  BY <1>1 DEF Elements
<1>2. ASSUME NEW d \in Clients, ServerStep(d) \/ openFails(d) PROVE m \in Elements(inbox[c])
  <2>1. CASE messageCallback(d)
    BY <2>1, QueuedMoved
  <2>2. CASE ~messageCallback(d)
    BY <1>1, <1>2, <2>2 DEF ServerStep, nextMessage, createFile, openFile, openFails,
       getFilefd, connectPort, bindAddress, listenPort, tellPort, acceptBegins, accept1,
       stor, retr, info, cloe, otherMessage
  <2> QED BY <2>1, <2>2
<1>3. ASSUME NEW o \in Ops, TaskStep(o) PROVE inbox' = inbox
  BY <1>3 DEF TaskStep, openLocal, sendmain, printError, connectData, sendData,
     readData, linkUnchanged, clientUnchanged
<1>4. ASSUME NEW d \in Clients, upload(d) \/ download(d)
      PROVE  m \in Elements(inbox[c]) \/ (Who(m.op)' = c /\ Real(m) /\ m.op \notin Asked)
  <2>1. PICK o \in Ops, k \in {"stor", "retr"}, f \in Files \cup {NoFile} : Asks(d, o, k, f)
    BY <1>4, AskIsAsks
  <2>2. /\ o \notin Asked /\ op' = [op EXCEPT ![o] = [who |-> d, kind |-> k, file |-> f]]
        /\ Elements(Messages(k, o)) = IF k = "stor" THEN {Msg("stor", o), Msg("info", o)}
                                      ELSE {Msg("retr", o)}
        /\ Elements(inbox'[d]) = Elements(inbox[d]) \cup Elements(Messages(k, o))
        /\ \A e \in Clients \ {d} : inbox'[e] = inbox[e]
    BY <2>1 DEF Asks
  <2>3. \A n \in Elements(Messages(k, o)) : n.op = o /\ Real(n)
    BY <2>2 DEF Msg, Real
  <2>4. Who(o)' = d
    BY <2>2 DEF Who, TypeOK
  <2>5. CASE c = d
    BY <2>2, <2>3, <2>4, <2>5
  <2>6. CASE c # d
    BY <1>1, <2>2, <2>6
  <2> QED BY <2>5, <2>6
<1>5. ASSUME NEW r \in replies, openLocalFails(r)
      PROVE  \/ m \in Elements(inbox[c])
             \/ openLocalFails(r) /\ r.to = c /\ m \in Elements(Excuse(r))
  <2>1. CASE r.to = c
    BY <1>5, <2>1, QueuedFailed
  <2>2. CASE r.to # c
    BY <1>5, <2>2, QueuedFailed
  <2> QED BY <2>1, <2>2
<1>6. ASSUME NEW d \in Clients, crash(d) PROVE m \in Elements(inbox[c])
  BY <1>6, QueuedLost
<1>7. CASE UNCHANGED vars
  BY <1>1, <1>7 DEF vars
<1> QED BY <1>1, <1>2, <1>3, <1>4, <1>5, <1>6, <1>7 DEF Next, Failure

LEMMA NewInMegser ==
    ASSUME TypeOK, [Next]_vars, NEW m \in Elements(megser')
    PROVE  \/ m \in Elements(megser)
           \/ \E c \in Clients : messageCallback(c) /\ m \in Elements(inbox[c])
<1>1. ASSUME megser' = megser PROVE m \in Elements(megser)
  BY <1>1 DEF Elements
<1>2. ASSUME NEW c \in Clients, messageCallback(c)
      PROVE  m \in Elements(megser) \/ m \in Elements(inbox[c])
  BY <1>2, QueuedMoved
<1>3. ASSUME NEW c \in Clients, nextMessage(c) PROVE m \in Elements(megser)
  <2>1. CASE megser = <<>>
    BY <1>1, <1>3, <2>1 DEF nextMessage
  <2>2. CASE megser # <<>>
    BY <1>3, <2>2, QueuedTaken DEF nextMessage
  <2> QED BY <2>1, <2>2
<1>4. ASSUME NEW c \in Clients, ServerStep(c) \/ openFails(c), ~messageCallback(c), ~nextMessage(c)
      PROVE  megser' = megser
  BY <1>4 DEF ServerStep, createFile, openFile, openFails, getFilefd, connectPort,
     bindAddress, listenPort, tellPort,
     acceptBegins, accept1, stor, retr, info, cloe, otherMessage
<1>5. ASSUME NEW c \in Clients, upload(c) \/ download(c) PROVE megser' = megser
  BY <1>5, AskIsAsks DEF Asks
<1>6. ASSUME NEW o \in Ops, TaskStep(o) PROVE megser' = megser
  BY <1>6 DEF TaskStep, openLocal, sendmain, printError, connectData, sendData,
     readData, linkUnchanged, clientUnchanged
<1>7. ASSUME Failure PROVE megser' = megser \/ \E c \in Clients : openFails(c)
  BY <1>7 DEF Failure, crash, openLocalFails, clientUnchanged
<1>8. CASE UNCHANGED vars
  BY <1>1, <1>8 DEF vars
<1> QED BY <1>1, <1>2, <1>3, <1>4, <1>5, <1>6, <1>7, <1>8 DEF Next, Failure

LEMMA HitKept ==
    ASSUME TypeOK, [Next]_vars
    PROVE  /\ \A d : Hit(d) => Hit(d)'
           /\ \A o \in Asked : o \in Asked' /\ op'[o] = op[o] /\ Who(o)' = Who(o)
BY Mono DEF Hit, Who

LEMMA MixStep ==
    ASSUME TypeOK, TypeOK', Shape, Shape', MixInv, [Next]_vars
    PROVE  MixInv'
<1>1. confused \subseteq confused' /\ failed \subseteq failed'
      /\ \A o \in Asked : o \in Asked' /\ Who(o)' = Who(o)
  BY Mono, HitKept
<1>2. /\ \A d \in Clients : Busy(d) => Job(d) \in Asked
      /\ \A m \in Queued : m.op \in Asked
      /\ \A r \in replies : r.op \in Asked
  BY DEF Shape, ThreadShape
<1>3. ASSUME NEW d \in Clients, Busy(d)'
      PROVE  Who(Job(d))' = d \/ {d, Who(Job(d))'} \subseteq confused'
  <2>1. CASE Busy(d) /\ Job(d)' = Job(d)
    <3>1. Who(Job(d))' = Who(Job(d))
      BY <1>1, <1>2, <2>1 DEF Who
    <3>2. Who(Job(d)) = d \/ {d, Who(Job(d))} \subseteq confused
      BY <2>1 DEF MixInv
    <3> QED BY <1>1, <3>1, <3>2
  <2>2. CASE /\ nextMessage(d) /\ megser # <<>>
             /\ Msg(thread'[d].pc, Job(d)') = Head(megser) /\ Head(megser) \in Queued
    <3> DEFINE o == Head(megser).op
    <3>1. o = Job(d)' /\ o \in Asked
      BY <1>2, <2>2 DEF Msg
    <3>2. confused' = Mixed(d, Who(o))
      BY <2>2 DEF nextMessage
    <3>3. Who(Job(d))' = Who(o)
      BY <1>1, <3>1 DEF Who
    <3> HIDE DEF o
    <3> QED BY <3>2, <3>3 DEF Mixed
  <2> QED BY <1>3, <2>1, <2>2, Begins
<1>4. ASSUME NEW r \in replies' PROVE r.to = Who(r.op)' \/ Who(r.op)' \in confused'
  <2>1. CASE r \in replies
    <3>1. r.to = Who(r.op) \/ Who(r.op) \in confused
      BY <2>1 DEF MixInv
    <3> QED BY <1>1, <1>2, <2>1, <3>1
  <2>2. CASE r \notin replies
    <3>1. PICK c \in Clients : r.to = ftpConn /\ r.op = Job(c) /\ Busy(c)
                               /\ confused' = Mixed(c, ftpConn) /\ Job(c) \in Asked
      BY <1>4, <2>2, RepliesStep
    <3>2. Who(Job(c)) = c \/ {c, Who(Job(c))} \subseteq confused
      BY <3>1 DEF MixInv
    <3>3. Who(r.op)' = Who(Job(c))
      BY <1>1, <3>1
    <3> QED BY <1>1, <3>1, <3>2, <3>3 DEF Mixed
  <2> QED BY <2>1, <2>2
<1>5. ASSUME NEW r \in replies, openLocalFails(r) PROVE Hit(Who(r.op))'
  <2>1. r.to = Who(r.op) \/ Who(r.op) \in confused
    BY DEF MixInv
  <2>2. failed' = failed \cup {r.to} /\ Who(r.op)' = Who(r.op)
    BY <1>1, <1>2, <1>5 DEF openLocalFails
  <2> QED BY <1>1, <2>1, <2>2 DEF Hit
<1>6. ASSUME NEW m \in Queued, ~Real(m) PROVE Hit(Who(m.op))'
  <2>1. Hit(Who(m.op))
    BY <1>6 DEF MixInv
  <2>2. Who(m.op)' = Who(m.op)
    BY <1>1, <1>2
  <2> QED BY <1>1, <2>1, <2>2 DEF Hit
<1>7. ASSUME NEW d \in Clients, NEW m \in Elements(inbox'[d])
      PROVE  /\ Real(m) \/ Hit(Who(m.op))'
             /\ Who(m.op)' = d \/ Who(m.op)' \in confused'
  <2>1. CASE m \in Elements(inbox[d])
    <3>1. m \in Queued
      BY <2>1 DEF Queued
    <3>2. Who(m.op) = d \/ Who(m.op) \in confused
      BY <2>1 DEF MixInv
    <3>3. Who(m.op)' = Who(m.op)
      BY <1>1, <1>2, <3>1
    <3> QED BY <1>1, <1>6, <3>1, <3>2, <3>3
  <2>2. CASE Who(m.op)' = d /\ Real(m)
    BY <2>2
  <2>3. ASSUME NEW r \in replies, openLocalFails(r), r.to = d, m \in Elements(Excuse(r))
        PROVE  /\ Hit(Who(m.op))'
               /\ Who(m.op)' = d \/ Who(m.op)' \in confused'
    <3>1. m.op = r.op
      BY <2>3, ExcuseOK
    <3>2. Hit(Who(r.op))' /\ Who(r.op)' = Who(r.op)
      BY <1>1, <1>2, <1>5, <2>3
    <3>3. r.to = Who(r.op) \/ Who(r.op) \in confused
      BY DEF MixInv
    <3> QED BY <1>1, <2>3, <3>1, <3>2, <3>3
  <2> QED BY <2>1, <2>2, <2>3, NewMessages
<1>8. ASSUME NEW m \in Queued' PROVE Real(m) \/ Hit(Who(m.op))'
  <2>1. Queued' = Elements(megser') \cup UNION {Elements(inbox'[d]) : d \in Clients}
    BY DEF Queued, Elements
  <2>2. CASE m \in Elements(megser')
    <3>1. m \in Queued
      <4>1. m \in Elements(megser) \/ \E d \in Clients : m \in Elements(inbox[d])
        BY <2>2, NewInMegser
      <4> QED BY <4>1 DEF Queued
    <3> QED BY <1>6, <3>1
  <2> QED BY <1>7, <2>1, <2>2
<1>9. ASSUME NEW d \in Clients, thread'[d].pc \in {"cloe", "550"} PROVE Hit(Who(Job(d)))'
  <2>1. CASE thread'[d] = thread[d]
    <3>1. Hit(Who(Job(d))) /\ Busy(d) /\ Job(d)' = Job(d)
      BY <1>9, <2>1 DEF MixInv, Busy, Job
    <3>2. Who(Job(d))' = Who(Job(d))
      BY <1>1, <1>2, <3>1 DEF Who
    <3> QED BY <1>1, <3>1, <3>2 DEF Hit
  <2>2. CASE Msg(thread'[d].pc, Job(d)') \in Queued
    <3>0. PICK m \in Queued : m = Msg(thread'[d].pc, Job(d)')
      BY <2>2
    <3>1. m \in Queued /\ ~Real(m) /\ m.op = Job(d)' /\ m.op \in Asked
      BY <1>2, <1>9, <3>0 DEF Msg, Real
    <3>2. Hit(Who(m.op)) /\ Who(m.op)' = Who(m.op)
      BY <1>1, <3>1 DEF MixInv
    <3>3. Who(Job(d))' = Who(m.op)
      BY <3>1, <3>2 DEF Who
    <3> QED BY <1>1, <3>2, <3>3 DEF Hit
  <2> QED BY <1>9, <2>1, <2>2, Arrives DEF Step
<1>10. ASSUME NEW d \in Clients, thread'[d].pc \in {"accept", "reading", "sending"}
       PROVE  LET e == Who(thread[d].listen)'
              IN  e = d \/ {d, e} \subseteq confused'
  <2>1. CASE acceptBegins(d) /\ thread[d].pc = "ported" /\ thread'[d].listen = acceptSocket_
    <3>1. acceptSocket_ \in Asked
      BY <2>1 DEF Shape, ThreadShape, Transferring
    <3>2. Who(thread[d].listen)' = Who(acceptSocket_)
      BY <1>1, <2>1, <3>1 DEF Who
    <3>3. confused' = Mixed(d, Who(acceptSocket_))
      BY <2>1 DEF acceptBegins
    <3> QED BY <3>2, <3>3 DEF Mixed
  <2>2. CASE thread[d].pc \in {"accept", "reading", "sending"} /\ SameListen(d)
    <3>1. thread[d].listen \in Asked
      BY <2>2 DEF Shape, ThreadShape, Transferring
    <3>2. Who(thread[d].listen)' = Who(thread[d].listen)
      BY <1>1, <2>2, <3>1 DEF Who, SameListen
    <3>3. Who(thread[d].listen) = d \/ {d, Who(thread[d].listen)} \subseteq confused
      BY <2>2 DEF MixInv
    <3> QED BY <1>1, <3>2, <3>3
  <2> QED BY <1>10, <2>1, <2>2, Arrives DEF Step, SameListen
<1>11. /\ \A d \in Clients : Busy(d)' =>
             Who(Job(d))' = d \/ {d, Who(Job(d))'} \subseteq confused'
       /\ \A r \in replies' : r.to = Who(r.op)' \/ Who(r.op)' \in confused'
       /\ \A m \in Queued' : Real(m) \/ Hit(Who(m.op))'
       /\ \A d \in Clients : \A m \in Elements(inbox'[d]) :
             Who(m.op)' = d \/ Who(m.op)' \in confused'
       /\ \A d \in Clients : thread'[d].pc \in {"cloe", "550"} => Hit(Who(Job(d)))'
       /\ \A d \in Clients : thread'[d].pc \in {"accept", "reading", "sending"} =>
             Who(thread[d].listen)' = d \/ {d, Who(thread[d].listen)'} \subseteq confused'
  BY <1>3, <1>4, <1>7, <1>8, <1>9, <1>10
<1> QED BY <1>11 DEF MixInv, Real, Elements

----------------------------------------------------------------------------
(***************************************************************************)
(* What changes a data connection.                                         *)
(***************************************************************************)
SameSent(o) == /\ link'[o].n = link[o].n /\ link'[o].sent = link[o].sent
               /\ link'[o].sentAll = link[o].sentAll
SameBack(o) == link'[o].back = link[o].back /\ link'[o].backAll = link[o].backAll
Turns(o, st) == link'[o].st = st /\ link'[o].by = link[o].by
Emptied(o, st) == Turns(o, st) /\ link'[o] = Empty(st, link[o].by)

Accepts(c, o) ==
    /\ accept1(c) /\ link[o].st = "backlog" /\ Turns(o, "open")
    /\ SameSent(o) /\ SameBack(o)
Reads(c, o) ==
    /\ stor(c) /\ thread' = thread /\ Turns(o, link[o].st) /\ SameBack(o)
    /\ link'[o].n = link[o].n /\ link'[o].sentAll = link[o].sentAll
    /\ \E n \in 1 .. Len(link[o].sent) :
          /\ link'[o].sent = SubSeq(link[o].sent, n + 1, Len(link[o].sent))
          /\ disk' = [disk EXCEPT ![thread[c].file] = @ \o SubSeq(link[o].sent, 1, n)]
ReadsEnd(c, o) ==
    /\ stor(c) /\ link[o].sent = <<>> /\ link[o].sentAll /\ Emptied(o, "closed")
    /\ disk' = disk /\ Finishes(c, "reading")
Sends(c, o) ==
    /\ retr(c) /\ Turns(o, link[o].st) /\ SameSent(o)
    /\ LET f == disk[thread[c].file]
           pos == thread[c].pos
           more == pos < Len(f) /\ link[o].by \notin gone
           last == pos + 1 >= Len(f) \/ ~more
       IN  /\ link'[o].back = IF more THEN Append(link[o].back, f[pos + 1]) ELSE link[o].back
           /\ link'[o].backAll = last
           /\ IF last THEN Finishes(c, "sending") ELSE thread'[c].pos = pos + 1
Opens(r, o) ==
    /\ openLocal(r) /\ link'[o].st = "opening" /\ link'[o].by = r.to
    /\ SameSent(o) /\ SameBack(o)
Connects(o) ==
    /\ connectData(o) /\ link[o].st = "opening"
    /\ Turns(o, IF Listening(o) THEN "backlog" ELSE "closed") /\ SameSent(o) /\ SameBack(o)
Refused(o) ==
    /\ sendData(o) \/ readData(o)
    /\ link[o].st = "backlog" /\ ~Listening(o) /\ Turns(o, "closed")
    /\ SameSent(o) /\ SameBack(o) /\ copy' = copy
SendsMore(o) ==
    /\ sendData(o) /\ op[o].kind = "stor" /\ ~link[o].sentAll
    /\ link[o].st \in {"backlog", "open"} /\ Turns(o, link[o].st) /\ SameBack(o)
    /\ link'[o].n = link[o].n + 1 /\ link'[o].sentAll = (link[o].n + 1 = 2)
    /\ link'[o].sent = Append(link[o].sent, Chunks(link[o].by, o)[link[o].n + 1])
Copies(o) ==
    /\ readData(o) /\ op[o].kind = "retr" /\ link[o].st \in {"backlog", "open"}
    /\ link[o].back # <<>> /\ Turns(o, link[o].st) /\ SameSent(o)
    /\ link'[o].back = Tail(link[o].back) /\ link'[o].backAll = link[o].backAll
    /\ copy' = [copy EXCEPT ![o] = Append(@, Head(link[o].back))]
CopiesEnd(o) ==
    /\ readData(o) /\ op[o].kind = "retr" /\ link[o].st \in {"backlog", "open"}
    /\ link[o].back = <<>> /\ link[o].backAll /\ Emptied(o, "read") /\ copy' = copy
Breaks(c, o) ==
    /\ crash(c) /\ link[o].by = c /\ Turns(o, link[o].st) /\ SameBack(o)
    /\ link'[o].n = link[o].n /\ link'[o].sent = link[o].sent /\ link'[o].sentAll

LinkChange(o) ==
    \/ \E c \in Clients :
          /\ thread[c].listen = o
          /\ \/ Accepts(c, o) \/ Reads(c, o) \/ ReadsEnd(c, o) \/ Sends(c, o)
    \/ \E r \in replies : r.op = o /\ Opens(r, o)
    \/ Connects(o) \/ Refused(o) \/ SendsMore(o) \/ Copies(o) \/ CopiesEnd(o)
    \/ \E c \in Clients : Breaks(c, o)

LEMMA LinkStep ==
    ASSUME TypeOK, Shape, [Next]_vars, NEW o \in Ops
    PROVE  link'[o] = link[o] \/ LinkChange(o)
<1> DEFINE l == link[o]
           k == link'[o]
<1>0. l \in Link /\ link \in [Ops -> Link]
  BY DEF TypeOK
<1>1. ASSUME NEW s \in Ops, NEW x, link' = [link EXCEPT ![s] = x]
      PROVE  (o # s => k = l) /\ (o = s => k = x)
  BY <1>0, <1>1
<1> SUFFICES ASSUME k # l PROVE LinkChange(o)
  OBVIOUS
<1>2. ASSUME NEW c \in Clients, accept1(c) PROVE LinkChange(o)
  <2> DEFINE s == thread[c].listen
  <2>1. s \in Ops /\ link[s].st = "backlog"
    BY <1>2 DEF accept1, At, Shape, ThreadShape, Asked, Transferring
  <2>2. link' = [link EXCEPT ![s] = [link[s] EXCEPT !.st = "open"]]
    BY <1>2 DEF accept1
  <2>3. o = s /\ k = [l EXCEPT !.st = "open"]
    BY <1>1, <2>1, <2>2
  <2> HIDE DEF k
  <2>4. Turns(o, "open") /\ SameSent(o) /\ SameBack(o)
    BY <1>0, <2>3, LinkFields DEF Turns, SameSent, SameBack, k
  <2> QED BY <1>2, <2>1, <2>3, <2>4 DEF LinkChange, Accepts
<1>3. ASSUME NEW c \in Clients, stor(c) PROVE LinkChange(o)
  <2> DEFINE s == thread[c].listen
             f == thread[c].file
  <2>1. s \in Ops /\ thread[c].pc = "reading"
    BY <1>3 DEF stor, At, Shape, ThreadShape, Asked, Transferring
  <2>2. ASSUME NEW n \in 1 .. Len(link[s].sent), thread' = thread,
               disk' = [disk EXCEPT ![f] = @ \o SubSeq(link[s].sent, 1, n)],
               link' = [link EXCEPT ![s].sent = SubSeq(@, n + 1, Len(@))]
        PROVE  LinkChange(o)
    <3> DEFINE x == SubSeq(link[s].sent, n + 1, Len(link[s].sent))
    <3>1. link' = [link EXCEPT ![s] = [link[s] EXCEPT !.sent = x]]
      BY <2>2
    <3>2. o = s /\ k = [l EXCEPT !.sent = x]
      BY <1>1, <2>1, <3>1
    <3> HIDE DEF x, k
    <3>3. /\ Turns(o, link[o].st) /\ SameBack(o) /\ link'[o].n = link[o].n
          /\ link'[o].sentAll = link[o].sentAll /\ link'[o].sent = x
      BY <1>0, <3>2, LinkFields DEF Turns, SameBack, k
    <3>4. Reads(c, o)
      BY <1>3, <2>2, <3>2, <3>3 DEF Reads, x
    <3> QED BY <3>2, <3>4 DEF LinkChange
  <2>3. CASE /\ link[s].sent = <<>> /\ link[s].sentAll /\ Ends(c) /\ disk' = disk
             /\ link' = [link EXCEPT ![s] = Empty("closed", link[s].by)]
    <3>1. o = s /\ k = Empty("closed", l.by)
      BY <1>1, <2>1, <2>3
    <3>2. Emptied(o, "closed")
      BY <3>1 DEF Emptied, Turns, Empty
    <3>3. Finishes(c, "reading")
      BY <2>1, <2>3 DEF Ends, Finishes, TypeOK
    <3> QED BY <1>3, <2>3, <3>1, <3>2, <3>3 DEF LinkChange, ReadsEnd
  <2> QED BY <1>3, <2>2, <2>3 DEF stor
<1>4. ASSUME NEW c \in Clients, retr(c) PROVE LinkChange(o)
  <2> DEFINE s == thread[c].listen
             f == disk[thread[c].file]
             pos == thread[c].pos
             more == pos < Len(f) /\ link[s].by \notin gone
             last == pos + 1 >= Len(f) \/ ~more
             b == IF more THEN Append(link[s].back, f[pos + 1]) ELSE link[s].back
  <2>1. s \in Ops /\ thread[c].pc = "sending"
    BY <1>4 DEF retr, At, Shape, ThreadShape, Asked, Transferring
  <2>2. link' = [link EXCEPT ![s].back = b, ![s].backAll = last]
    BY <1>4 DEF retr
  <2>3. IF last THEN Ends(c) ELSE thread' = [thread EXCEPT ![c].pos = pos + 1]
    BY <1>4 DEF retr
  <2> HIDE DEF last, b
  <2>4. link' = [link EXCEPT ![s] = [link[s] EXCEPT !.back = b, !.backAll = last]]
    BY <2>2
  <2>5. o = s /\ k = [l EXCEPT !.back = b, !.backAll = last]
    BY <1>1, <2>1, <2>4
  <2>6. IF last THEN Finishes(c, "sending") ELSE thread'[c].pos = pos + 1
    <3>1. CASE last
      BY <2>1, <2>3, <3>1 DEF Ends, Finishes, TypeOK
    <3>2. CASE ~last
      <4>1. thread[c] \in Thread /\ thread' = [thread EXCEPT ![c] = [thread[c] EXCEPT !.pos = pos + 1]]
        BY <2>3, <3>2 DEF TypeOK
      <4>2. thread'[c] = [thread[c] EXCEPT !.pos = pos + 1]
        BY <4>1 DEF TypeOK
      <4> QED BY <3>2, <4>1, <4>2 DEF Thread
    <3> QED BY <3>1, <3>2
  <2> HIDE DEF k
  <2>7. Turns(o, link[o].st) /\ SameSent(o) /\ link'[o].back = b /\ link'[o].backAll = last
    BY <1>0, <2>5, LinkFields DEF Turns, SameSent, k
  <2>8. Sends(c, o)
    BY <1>4, <2>5, <2>6, <2>7 DEF Sends, last, b
  <2> QED BY <2>5, <2>8 DEF LinkChange
<1>5. ASSUME NEW r \in replies, openLocal(r) PROVE LinkChange(o)
  <2>1. r.op \in Ops
    BY DEF TypeOK, ReplyType
  <2>2. link' = [link EXCEPT ![r.op] = [link[r.op] EXCEPT !.st = "opening", !.by = r.to]]
    BY <1>5 DEF openLocal
  <2>3. o = r.op /\ k = [l EXCEPT !.st = "opening", !.by = r.to]
    BY <1>1, <2>1, <2>2
  <2> HIDE DEF k
  <2>4. link'[o].st = "opening" /\ link'[o].by = r.to /\ SameSent(o) /\ SameBack(o)
    BY <1>0, <2>3, LinkFields DEF SameSent, SameBack, k
  <2> QED BY <1>5, <2>3, <2>4 DEF LinkChange, Opens
<1>6. ASSUME NEW p \in Ops, NEW st, link' = [link EXCEPT ![p].st = st]
      PROVE  o = p /\ Turns(o, st) /\ SameSent(o) /\ SameBack(o)
  <2>1. o = p /\ k = [l EXCEPT !.st = st]
    BY <1>1, <1>6
  <2> HIDE DEF k
  <2> QED BY <1>0, <2>1, LinkFields DEF Turns, SameSent, SameBack, k
<1>7. ASSUME NEW p \in Ops, connectData(p) PROVE LinkChange(o)
  <2>1. link' = [link EXCEPT ![p].st = IF Listening(p) THEN "backlog" ELSE "closed"]
        /\ link[p].st = "opening"
    BY <1>7 DEF connectData, Runs
  <2>2. Connects(o)
    BY <1>6, <1>7, <2>1 DEF Connects
  <2> QED BY <2>2 DEF LinkChange
<1>8. ASSUME NEW p \in Ops, sendData(p) PROVE LinkChange(o)
  <2>1. op[p].kind = "stor" /\ ~link[p].sentAll /\ link[p].st \in {"backlog", "open"}
        /\ copy' = copy
    BY <1>8 DEF sendData, Runs
  <2>2. CASE link[p].st = "backlog" /\ ~Listening(p)
    <3>1. link' = [link EXCEPT ![p].st = "closed"]
      BY <1>8, <2>2 DEF sendData
    <3>2. Refused(o)
      BY <1>6, <1>8, <2>1, <2>2, <3>1 DEF Refused
    <3> QED BY <3>2 DEF LinkChange
  <2>3. CASE ~(link[p].st = "backlog" /\ ~Listening(p))
    <3> DEFINE m == link[p].n + 1
               e == Append(link[p].sent, Chunks(link[p].by, p)[m])
    <3>1. link' = [link EXCEPT ![p] = [link[p] EXCEPT !.n = m, !.sentAll = (m = 2), !.sent = e]]
      BY <1>8, <2>3 DEF sendData
    <3>2. o = p /\ k = [l EXCEPT !.n = m, !.sentAll = (m = 2), !.sent = e]
      BY <1>1, <3>1
    <3> HIDE DEF m, e, k
    <3>3. /\ Turns(o, link[o].st) /\ SameBack(o) /\ link'[o].n = m
          /\ link'[o].sentAll = (m = 2) /\ link'[o].sent = e
      BY <1>0, <3>2, LinkFields DEF Turns, SameBack, k
    <3>4. SendsMore(o)
      BY <1>8, <2>1, <3>2, <3>3 DEF SendsMore, m, e
    <3> QED BY <3>4 DEF LinkChange
  <2> QED BY <2>2, <2>3
<1>9. ASSUME NEW p \in Ops, readData(p) PROVE LinkChange(o)
  <2>1. op[p].kind = "retr" /\ link[p].st \in {"backlog", "open"}
    BY <1>9 DEF readData, Runs
  <2>2. CASE /\ link[p].st = "backlog" /\ ~Listening(p) /\ copy' = copy
             /\ link' = [link EXCEPT ![p].st = "closed"]
    <3>1. Refused(o)
      BY <1>6, <1>9, <2>2 DEF Refused
    <3> QED BY <3>1 DEF LinkChange
  <2>3. CASE /\ link[p].back # <<>>
             /\ copy' = [copy EXCEPT ![p] = Append(@, Head(link[p].back))]
             /\ link' = [link EXCEPT ![p].back = Tail(@)]
    <3> DEFINE b == Tail(link[p].back)
    <3>1. link' = [link EXCEPT ![p] = [link[p] EXCEPT !.back = b]]
      BY <2>3
    <3>2. o = p /\ k = [l EXCEPT !.back = b]
      BY <1>1, <3>1
    <3> HIDE DEF b, k
    <3>3. /\ Turns(o, link[o].st) /\ SameSent(o) /\ link'[o].back = b
          /\ link'[o].backAll = link[o].backAll
      BY <1>0, <3>2, LinkFields DEF Turns, SameSent, k
    <3>4. Copies(o)
      BY <1>9, <2>1, <2>3, <3>2, <3>3 DEF Copies, b
    <3> QED BY <3>4 DEF LinkChange
  <2>4. CASE /\ link[p].back = <<>> /\ link[p].backAll /\ copy' = copy
             /\ link' = [link EXCEPT ![p] = Empty("read", link[p].by)]
    <3>1. o = p /\ k = Empty("read", l.by)
      BY <1>1, <2>4
    <3>2. Emptied(o, "read")
      BY <3>1 DEF Emptied, Turns, Empty
    <3> QED BY <1>9, <2>1, <2>4, <3>1, <3>2 DEF LinkChange, CopiesEnd
  <2> QED BY <1>9, <2>2, <2>3, <2>4 DEF readData
<1>10. ASSUME NEW c \in Clients, crash(c) PROVE LinkChange(o)
  <2>1. l.by = c /\ k = [l EXCEPT !.sentAll = TRUE]
    BY <1>10 DEF crash
  <2> HIDE DEF k
  <2>2. /\ Turns(o, link[o].st) /\ SameBack(o) /\ link'[o].n = link[o].n
        /\ link'[o].sent = link[o].sent /\ link'[o].sentAll
    BY <1>0, <2>1, LinkFields DEF Turns, SameBack, k
  <2> QED BY <1>10, <2>1, <2>2 DEF LinkChange, Breaks
<1>11. ASSUME NEW c \in Clients, upload(c) \/ download(c) PROVE link' = link
  BY <1>11, AskIsAsks DEF Asks
<1>12. ASSUME NEW c \in Clients, ServerStep(c) \/ openFails(c), ~accept1(c), ~stor(c), ~retr(c)
       PROVE  link' = link
  BY <1>12 DEF ServerStep, messageCallback, nextMessage, createFile, openFile, openFails,
     getFilefd, connectPort, bindAddress, listenPort, tellPort, acceptBegins, info, cloe,
     otherMessage
<1>13. ASSUME NEW r \in replies, sendmain(r) \/ printError(r) \/ openLocalFails(r)
       PROVE  link' = link
  BY <1>13 DEF sendmain, printError, openLocalFails
<1> QED BY <1>2, <1>3, <1>4, <1>5, <1>7, <1>8, <1>9, <1>10, <1>11, <1>12, <1>13
        DEF Next, Failure, TaskStep, vars

----------------------------------------------------------------------------
(***************************************************************************)
(* How far a transfer has come.                                            *)
(***************************************************************************)
\* How a thread ends what it does.
LEMMA Leaves ==
    ASSUME TypeOK, [Next]_vars, NEW d \in Clients, Busy(d), ~Busy(d)'
    PROVE  \/ thread[d].pc \in {"retr", "info", "cloe", "550"}
           \/ openFails(d) /\ thread[d].pc = "open"
           \/ /\ stor(d) /\ thread[d].pc = "reading"
              /\ link[thread[d].listen].sent = <<>> /\ link[thread[d].listen].sentAll
              /\ link' = [link EXCEPT ![thread[d].listen] =
                             Empty("closed", link[thread[d].listen].by)]
              /\ disk' = disk
           \/ retr(d) /\ thread[d].pc = "sending"
<1>1. CASE thread'[d] = thread[d]
  BY <1>1 DEF Busy
<1>2. CASE stor(d)
  BY <1>1, <1>2, Moves DEF stor, At
<1>3. CASE retr(d) \/ getFilefd(d) \/ info(d) \/ cloe(d) \/ otherMessage(d) \/ openFails(d)
  BY <1>3 DEF retr, getFilefd, info, cloe, otherMessage, openFails, At
<1>4. CASE messageCallback(d) \/ nextMessage(d)
  BY <1>4 DEF messageCallback, nextMessage, At, Busy
<1>5. CASE \/ createFile(d) \/ openFile(d)
           \/ connectPort(d) \/ bindAddress(d) \/ listenPort(d) \/ tellPort(d)
           \/ acceptBegins(d) \/ accept1(d)
  BY <1>5, Moves DEF Step, Busy
<1> QED BY <1>1, <1>2, <1>3, <1>4, <1>5, ThreadSame DEF ServerStep

\* Only bind and listen change a socket, the one that is in acceptSocket_.
LEMMA BindStep ==
    ASSUME TypeOK, Shape, [Next]_vars, NEW o \in Ops
    PROVE  \/ socket'[o] = socket[o]
           \/ \E d \in Clients :
                 /\ acceptSocket_ = o /\ o \in Asked /\ Busy(d)
                 /\ confused' = Mixed(d, Who(o))
                 /\ \/ bindAddress(d) /\ thread[d].pc = "bind" /\ socket'[o] = "bound"
                    \/ listenPort(d) /\ thread[d].pc = "listen" /\ socket'[o] = "listening"
<1>1. ASSUME NEW c \in Clients, upload(c) \/ download(c) PROVE socket' = socket
  BY <1>1 DEF upload, download, ask
<1>2. ASSUME NEW p \in Ops, TaskStep(p) PROVE socket' = socket
  BY <1>2 DEF TaskStep, openLocal, sendmain, printError, connectData, sendData,
     readData, linkUnchanged, clientUnchanged
<1>3. ASSUME Failure PROVE socket' = socket
  BY <1>3 DEF Failure, openFails, crash, openLocalFails, clientUnchanged
<1>4. ASSUME NEW c \in Clients, ServerStep(c), ~bindAddress(c), ~listenPort(c)
      PROVE  socket' = socket
  BY <1>4 DEF ServerStep, otherMessage, messageCallback, nextMessage, createFile, openFile,
     getFilefd, connectPort, tellPort, acceptBegins, accept1, stor, retr, info, cloe
<1>5. ASSUME NEW d \in Clients, bindAddress(d) \/ listenPort(d), socket'[o] # socket[o]
      PROVE  /\ acceptSocket_ = o /\ o \in Asked /\ Busy(d) /\ confused' = Mixed(d, Who(o))
             /\ \/ bindAddress(d) /\ thread[d].pc = "bind" /\ socket'[o] = "bound"
                \/ listenPort(d) /\ thread[d].pc = "listen" /\ socket'[o] = "listening"
  <2>1. thread[d].pc \in {"bind", "listen"} /\ confused' = Mixed(d, Who(acceptSocket_))
    BY <1>5 DEF bindAddress, listenPort, At
  <2>2. Busy(d) /\ acceptSocket_ \in Asked
    BY <2>1 DEF Busy, Shape, ThreadShape
  <2>3. CASE bindAddress(d)
    <3>1. socket' = [socket EXCEPT ![acceptSocket_] = "bound"] /\ thread[d].pc = "bind"
      BY <2>3 DEF bindAddress, At
    <3> QED BY <1>5, <2>1, <2>2, <2>3, <3>1 DEF TypeOK
  <2>4. CASE listenPort(d)
    <3>1. socket' = [socket EXCEPT ![acceptSocket_] = "listening"] /\ thread[d].pc = "listen"
      BY <2>4 DEF listenPort, At
    <3> QED BY <1>5, <2>1, <2>2, <2>4, <3>1 DEF TypeOK
  <2> QED BY <1>5, <2>3, <2>4
<1> QED BY <1>1, <1>2, <1>3, <1>4, <1>5 DEF Next, vars

LEMMA FreshStep ==
    ASSUME TypeOK, Shape, Shape', FreshInv, [Next]_vars
    PROVE  FreshInv'
<1> SUFFICES ASSUME NEW o \in Ops \ Asked'
             PROVE  link'[o] = NoLink /\ copy'[o] = <<>> /\ socket'[o] = "raw"
  BY DEF FreshInv, Asked
<1>0. socket'[o] = "raw"
  <2>1. o \in Ops \ Asked /\ socket[o] = "raw"
    BY HitKept DEF FreshInv
  <2> QED BY <2>1, BindStep
<1>1. o \in Ops \ Asked /\ link[o] = NoLink /\ copy[o] = <<>>
  BY HitKept DEF FreshInv
<1>2. link'[o] = link[o]
  <2> SUFFICES ASSUME link'[o] # link[o] PROVE FALSE
    OBVIOUS
  <2>1. link[o].st = "none"
    BY <1>1 DEF NoLink, Empty
  <2>2. ~ \E c \in Clients : thread[c].listen = o /\ thread[c].pc \in {"reading", "sending"}
    BY <1>1 DEF Shape, ThreadShape, Transferring
  <2>3. ~ \E r \in replies : r.op = o
    BY <1>1 DEF Shape
  <2>4. ~ \E c \in Clients : link[o].by = c
    BY <1>1, TransferAssumption DEF NoLink, Empty
  <2>5. \A c \in Clients : /\ stor(c) => thread[c].pc = "reading"
                           /\ retr(c) => thread[c].pc = "sending"
    BY DEF stor, retr, At
  <2>6. ~ \E c \in Clients : thread[c].listen = o /\ (stor(c) \/ retr(c))
    BY <2>2, <2>5
  <2>7. LinkChange(o)
    BY LinkStep
  <2> QED BY <2>1, <2>3, <2>4, <2>6, <2>7 DEF LinkChange, Accepts, Reads, ReadsEnd, Sends,
       Connects, Refused, SendsMore, Copies, CopiesEnd, Breaks
<1>3. copy'[o] = copy[o]
  <2>1. ASSUME NEW p \in Ops, readData(p) PROVE copy'[o] = copy[o]
    <3>1. p # o
      BY <1>1, <2>1 DEF readData, Runs, NoLink, Empty
    <3> QED BY <2>1, <3>1 DEF readData, TypeOK
  <2>2. ASSUME NEW c \in Clients, upload(c) \/ download(c) PROVE copy' = copy
    BY <2>2, AskIsAsks DEF Asks
  <2>3. ASSUME NEW c \in Clients, ServerStep(c) PROVE copy' = copy
    BY <2>3 DEF ServerStep, messageCallback, nextMessage, createFile, openFile, getFilefd,
       connectPort, bindAddress, listenPort, tellPort, acceptBegins, accept1, stor, retr,
       info, cloe, otherMessage
  <2>4. ASSUME NEW p \in Ops, TaskStep(p), ~readData(p) PROVE copy' = copy
    BY <2>4 DEF TaskStep, openLocal, sendmain, printError, connectData, sendData
  <2>5. ASSUME Failure PROVE copy' = copy
    BY <2>5 DEF Failure, openFails, crash, openLocalFails
  <2> QED BY <2>1, <2>2, <2>3, <2>4, <2>5 DEF Next, TaskStep, vars
<1> QED BY <1>0, <1>1, <1>2, <1>3

\* A client nobody is mistaken for has his own thread, and no other, work for him.
LEMMA OwnThread ==
    ASSUME TypeOK, Shape, MixInv, ControlInv, NEW o \in Asked, Who(o) \notin confused
    PROVE  /\ Who(o) \in Clients /\ ControlOf(o)
           /\ \A d \in Clients : Busy(d) /\ Who(Job(d)) = Who(o) => d = Who(o)
           /\ \A d \in Clients :
                 (thread[d].pc \in {"accept", "reading", "sending"} /\ thread[d].listen = o) =>
                    d = Who(o) /\ thread[d].job = o
           /\ \A r \in replies : r.op = o => r.to = Who(o)
<1>1. Who(o) \in Clients /\ ControlOf(o)
  BY DEF Shape, ControlInv
<1>2. \A d \in Clients : Busy(d) /\ Who(Job(d)) = Who(o) => d = Who(o)
  BY DEF MixInv
<1>3. ASSUME NEW d \in Clients, thread[d].pc \in {"accept", "reading", "sending"},
             thread[d].listen = o
      PROVE  d = Who(o) /\ thread[d].job = o
  <2>1. d = Who(o) /\ Busy(d)
    BY <1>3 DEF MixInv, Busy
  <2>2. Job(d) \in Asked /\ Who(Job(d)) = d
    BY <2>1 DEF MixInv, Shape, ThreadShape
  <2>3. ControlOf(Job(d)) /\ Doing(Job(d), {"accept", "reading", "sending"})
    BY <1>3, <2>1, <2>2 DEF ControlInv, Doing, Job
  <2>4. thread[d].listen = Job(d)
    BY <2>2, <2>3 DEF ControlOf
  <2> QED BY <1>3, <2>1, <2>4 DEF Job
<1>4. \A r \in replies : r.op = o => r.to = Who(o)
  BY DEF MixInv
<1> QED BY <1>1, <1>2, <1>3, <1>4

\* Where the thread of o's client is after a step, and how it came there.
Now(o, P) == thread'[Who(o)].pc \in P /\ thread'[Who(o)].job = o
Places == {"stor", "open", "retr", "port", "bind", "listen", "tell", "ported", "accept",
           "reading", "sending", "info", "cloe", "550"}

Advances(o) ==
    LET c == Who(o)
    IN  \/ thread'[c] = thread[c]
        \/ /\ ~Now(o, Places) /\ ~Doing(o, {"ported", "accept"})
           /\ Doing(o, {"open"}) => openFails(c)
           /\ Doing(o, {"reading"}) =>
                 /\ stor(c) /\ link'[o].st = "closed" /\ disk' = disk
                 /\ link[o].sent = <<>> /\ link[o].sentAll
           /\ Doing(o, {"sending"}) => retr(c) /\ link'[o].backAll
           /\ ~Doing(o, {"stor", "port", "bind", "listen", "tell"})
        \/ /\ nextMessage(c) /\ ~Doing(o, Places) /\ Now(o, {"stor", "info", "retr",
                                                             "cloe", "550"})
           /\ megser # <<>> /\ Msg(thread'[c].pc, o) = Head(megser) /\ Head(megser) \in Queued
        \/ createFile(c) /\ Doing(o, {"stor"}) /\ Now(o, {"open"})
        \/ openFile(c) /\ Doing(o, {"open"}) /\ Now(o, {"port"}) /\ SameFile(c)
        \/ /\ getFilefd(c) /\ Doing(o, {"retr"}) /\ Now(o, {"port"})
           /\ thread'[c].file = op[o].file
        \/ connectPort(c) /\ Doing(o, {"port"}) /\ Now(o, {"bind"}) /\ SameFile(c)
        \/ bindAddress(c) /\ Doing(o, {"bind"}) /\ Now(o, {"listen"}) /\ SameFile(c)
        \/ listenPort(c) /\ Doing(o, {"listen"}) /\ Now(o, {"tell"}) /\ SameFile(c)
        \/ tellPort(c) /\ Doing(o, {"tell"}) /\ Now(o, {"ported"}) /\ SameFile(c)
        \/ /\ acceptBegins(c) /\ Doing(o, {"ported"}) /\ Now(o, {"accept"}) /\ SameFile(c)
           /\ thread'[c].listen = acceptSocket_
        \/ /\ accept1(c) /\ Doing(o, {"accept"}) /\ SameFile(c) /\ SameListen(c)
           /\ Now(o, {IF op[o].kind = "stor" THEN "reading" ELSE "sending"})
           /\ link[o].st = "backlog" /\ link'[o].st = "open" /\ thread'[c].pos = 0
        \/ /\ retr(c) /\ Doing(o, {"sending"}) /\ Now(o, {"sending"})
           /\ SameFile(c) /\ SameListen(c) /\ thread'[c].pos = thread[c].pos + 1

\* What a data connection is changed by.
LinkOf(o) ==
    LET c == Who(o)
    IN  \/ Accepts(c, o) /\ Doing(o, {"accept"})
        \/ (Reads(c, o) \/ ReadsEnd(c, o)) /\ Doing(o, {"reading"})
        \/ Sends(c, o) /\ Doing(o, {"sending"})
        \/ \E r \in replies : r.op = o /\ r.to = c /\ Opens(r, o)
        \/ Connects(o) \/ Refused(o) \/ SendsMore(o) \/ Copies(o) \/ CopiesEnd(o)
        \/ Breaks(c, o)

LEMMA LinkOfStep ==
    ASSUME TypeOK, Shape, MixInv, ControlInv, [Next]_vars,
           NEW o \in Asked, Who(o) \notin confused
    PROVE  link'[o] = link[o] \/ LinkOf(o)
<1> DEFINE c == Who(o)
<1>0. o \in Ops
  BY DEF Asked
<1> SUFFICES ASSUME link'[o] # link[o] PROVE LinkOf(o)
  OBVIOUS
<1>1. LinkChange(o)
  BY <1>0, LinkStep
<1>2. ASSUME NEW d \in Clients, thread[d].listen = o, Accepts(d, o)
      PROVE  d = c /\ Doing(o, {"accept"})
  <2>1. thread[d].pc = "accept"
    BY <1>2 DEF Accepts, accept1, At
  <2> QED BY <1>2, <2>1, OwnThread DEF Doing
<1>3. ASSUME NEW d \in Clients, thread[d].listen = o, Reads(d, o) \/ ReadsEnd(d, o)
      PROVE  d = c /\ Doing(o, {"reading"})
  <2>1. thread[d].pc = "reading"
    BY <1>3 DEF Reads, ReadsEnd, stor, At
  <2> QED BY <1>3, <2>1, OwnThread DEF Doing
<1>4. ASSUME NEW d \in Clients, thread[d].listen = o, Sends(d, o)
      PROVE  d = c /\ Doing(o, {"sending"})
  <2>1. thread[d].pc = "sending"
    BY <1>4 DEF Sends, retr, At
  <2> QED BY <1>4, <2>1, OwnThread DEF Doing
<1>5. ASSUME NEW d \in Clients, Breaks(d, o) PROVE d = c
  <2>1. link[o].by = d /\ d \in Clients
    BY <1>5 DEF Breaks
  <2>2. link[o].st # "none"
    BY <1>0, <2>1, TransferAssumption DEF Shape, LinkShape, NoLink, Empty
  <2> QED BY <2>1, <2>2, OwnThread DEF ControlOf
<1> QED BY <1>1, <1>2, <1>3, <1>4, <1>5, OwnThread DEF LinkChange, LinkOf

LEMMA AdvancesStep ==
    ASSUME TypeOK, Shape, MixInv, ControlInv, [Next]_vars,
           NEW o \in Asked, Who(o) \notin confused
    PROVE  Advances(o)
<1>c. PICK c \in Clients : c = Who(o)
  BY DEF Shape
<1>0. o \in Ops /\ ControlOf(o) /\ thread[c].pc \in Places \cup {"idle", "next"}
      /\ thread'[c].job = Job(c)'
  <2>1. o \in Ops /\ ControlOf(o)
    BY OwnThread DEF Asked
  <2>2. thread[c] \in Thread
    BY DEF TypeOK
  <2>3. thread[c].pc \in Places \cup {"idle", "next"}
    BY <2>2 DEF Thread, Places
  <2> QED BY <2>1, <2>3 DEF Job
<1> SUFFICES ASSUME thread'[c] # thread[c] PROVE Advances(o)
  BY <1>c DEF Advances
<1>1. CASE ~Doing(o, Places) /\ ~Now(o, Places)
  BY <1>1 DEF Advances, Doing, Now, Places
<1>2. CASE ~Doing(o, Places) /\ Now(o, Places)
  <2>1. Busy(c)' /\ Job(c)' = o /\ ~(Busy(c) /\ Job(c) = o)
    BY <1>c, <1>0, <1>2 DEF Doing, Now, Places, Busy, Job
  <2>2. nextMessage(c) /\ megser # <<>> /\ Msg(thread'[c].pc, o) = Head(megser)
        /\ Head(megser) \in Queued
    BY <1>0, <2>1, Begins
  <2>3. thread'[c].pc \in {"stor", "info", "retr", "cloe", "550"}
    <3>1. megser \in Seq(Message) /\ megser # <<>>
      BY <2>2 DEF TypeOK
    <3>2. Head(megser) \in Message
      BY <3>1
    <3>3. Msg(thread'[c].pc, o).type = thread'[c].pc
      BY DEF Msg
    <3> QED BY <2>2, <3>2, <3>3 DEF Message
  <2>4. Now(o, {"stor", "info", "retr", "cloe", "550"})
    BY <1>c, <1>2, <2>3 DEF Now
  <2> QED BY <1>c, <1>2, <2>2, <2>4 DEF Advances
<1>3. CASE Doing(o, Places) /\ ~Busy(c)'
  <2>1. Busy(c) /\ thread[c].job = o /\ ~Now(o, Places)
        /\ \A P : Doing(o, P) => thread[c].pc \in P
    BY <1>c, <1>3 DEF Doing, Now, Places, Busy
  <2>2. CASE thread[c].pc \in {"retr", "info", "cloe", "550"}
    <3>1. ~Doing(o, {"ported", "accept"}) /\ ~Doing(o, {"open"}) /\ ~Doing(o, {"reading"})
          /\ ~Doing(o, {"sending"}) /\ ~Doing(o, {"stor", "port", "bind", "listen", "tell"})
      BY <1>c, <2>2 DEF Doing
    <3> QED BY <2>1, <3>1 DEF Advances
  <2>3. CASE openFails(c) /\ thread[c].pc = "open"
    <3>1. ~Doing(o, {"ported", "accept"}) /\ ~Doing(o, {"reading"})
          /\ ~Doing(o, {"sending"}) /\ ~Doing(o, {"stor", "port", "bind", "listen", "tell"})
      BY <1>c, <2>3 DEF Doing
    <3> QED BY <1>c, <2>1, <2>3, <3>1 DEF Advances
  <2>4. CASE /\ stor(c) /\ thread[c].pc = "reading"
             /\ link[thread[c].listen].sent = <<>> /\ link[thread[c].listen].sentAll
             /\ link' = [link EXCEPT ![thread[c].listen] =
                             Empty("closed", link[thread[c].listen].by)]
             /\ disk' = disk
    <3>1. ~Doing(o, {"ported", "accept"}) /\ ~Doing(o, {"open"})
          /\ ~Doing(o, {"sending"}) /\ ~Doing(o, {"stor", "port", "bind", "listen", "tell"})
      BY <1>c, <2>4 DEF Doing
    <3>2. thread[c].listen = o
      BY <1>c, <1>0, <2>1, <2>4 DEF ControlOf, Doing
    <3>3. link'[o] = Empty("closed", link[o].by)
      BY <1>0, <2>4, <3>2 DEF TypeOK
    <3>4. link'[o].st = "closed" /\ link[o].sent = <<>> /\ link[o].sentAll
      BY <2>4, <3>2, <3>3 DEF Empty
    <3> QED BY <1>c, <2>1, <2>4, <3>1, <3>4 DEF Advances
  <2>5. CASE retr(c) /\ thread[c].pc = "sending"
    <3>1. ~Doing(o, {"ported", "accept"}) /\ ~Doing(o, {"open"})
          /\ ~Doing(o, {"reading"}) /\ ~Doing(o, {"stor", "port", "bind", "listen", "tell"})
      BY <1>c, <2>5 DEF Doing
    <3>2. thread[c].listen = o
      BY <1>c, <1>0, <2>1, <2>5 DEF ControlOf, Doing
    <3>3. link'[o].backAll
      <4>1. link'[o].backAll = (thread[c].pos + 1 >= Len(disk[thread[c].file])
                    \/ ~(thread[c].pos < Len(disk[thread[c].file]) /\ link[o].by \notin gone))
        BY <1>0, <2>5, <3>2 DEF retr, TypeOK, Link
      <4>2. ASSUME ~link'[o].backAll PROVE FALSE
        <5>1. thread' = [thread EXCEPT ![c].pos = thread[c].pos + 1]
          BY <2>5, <3>2, <4>1, <4>2 DEF retr
        <5>2. thread[c] \in Thread /\ thread' = [thread EXCEPT ![c] = [thread[c] EXCEPT !.pos = thread[c].pos + 1]]
          BY <1>0, <5>1 DEF TypeOK
        <5>3. thread'[c] = [thread[c] EXCEPT !.pos = thread[c].pos + 1]
          BY <1>0, <5>2 DEF TypeOK
        <5> QED BY <1>3, <2>5, <5>2, <5>3 DEF Thread, Busy
      <4> QED BY <4>2
    <3> QED BY <1>c, <2>1, <2>5, <3>1, <3>3 DEF Advances
  <2> QED BY <1>0, <1>3, <2>1, <2>2, <2>3, <2>4, <2>5, Leaves
<1>4. CASE Doing(o, Places) /\ Busy(c)'
  <2>1. Busy(c) /\ thread[c].job = o /\ thread[c].pc \in Places
    BY <1>c, <1>4 DEF Doing, Places, Busy
  <2>2. Job(c)' = o /\ thread'[c].pc \notin {"idle", "next"}
    BY <1>0, <1>4, <2>1, Begins DEF Busy, Job
  <2>3. \A P : (thread[c].pc \in P => Doing(o, P)) /\ (thread'[c].pc \in P => Now(o, P))
    BY <1>c, <1>0, <2>1, <2>2 DEF Doing, Now
  <2>4. op[Job(c)].kind = op[o].kind /\ op[Job(c)].file = op[o].file
    BY <2>1 DEF Job
  <2>5. thread[c].pc # "next"
    BY <2>1 DEF Busy
  <2>6. CASE createFile(c) /\ Step(c, "stor", "open")
    <3>1. Doing(o, {"stor"}) /\ Now(o, {"open"})
      BY <2>3, <2>6 DEF Step
    <3> QED BY <1>c, <2>6, <3>1 DEF Advances
  <2>7. CASE openFile(c) /\ Step(c, "open", "port") /\ SameFile(c)
    <3>1. Doing(o, {"open"}) /\ Now(o, {"port"})
      BY <2>3, <2>7 DEF Step
    <3> QED BY <1>c, <2>7, <3>1 DEF Advances
  <2>8. CASE getFilefd(c) /\ Step(c, "retr", "port") /\ thread'[c].file = op[Job(c)].file
    <3>1. Doing(o, {"retr"}) /\ Now(o, {"port"})
      BY <2>3, <2>8 DEF Step
    <3> QED BY <1>c, <2>4, <2>8, <3>1 DEF Advances
  <2>9. CASE connectPort(c) /\ Step(c, "port", "bind") /\ SameFile(c)
    <3>1. Doing(o, {"port"}) /\ Now(o, {"bind"})
      BY <2>3, <2>9 DEF Step
    <3> QED BY <1>c, <2>9, <3>1 DEF Advances
  <2>13. CASE bindAddress(c) /\ Step(c, "bind", "listen") /\ SameFile(c)
    <3>1. Doing(o, {"bind"}) /\ Now(o, {"listen"})
      BY <2>3, <2>13 DEF Step
    <3> QED BY <1>c, <2>13, <3>1 DEF Advances
  <2>14. CASE listenPort(c) /\ Step(c, "listen", "tell") /\ SameFile(c)
    <3>1. Doing(o, {"listen"}) /\ Now(o, {"tell"})
      BY <2>3, <2>14 DEF Step
    <3> QED BY <1>c, <2>14, <3>1 DEF Advances
  <2>15. CASE tellPort(c) /\ Step(c, "tell", "ported") /\ SameFile(c)
    <3>1. Doing(o, {"tell"}) /\ Now(o, {"ported"})
      BY <2>3, <2>15 DEF Step
    <3> QED BY <1>c, <2>15, <3>1 DEF Advances
  <2>10. CASE /\ acceptBegins(c) /\ Step(c, "ported", "accept") /\ SameFile(c)
              /\ thread'[c].listen = acceptSocket_
    <3>1. Doing(o, {"ported"}) /\ Now(o, {"accept"})
      BY <2>3, <2>10 DEF Step
    <3> QED BY <1>c, <2>10, <3>1 DEF Advances
  <2>11. CASE /\ accept1(c) /\ SameFile(c) /\ SameListen(c)
              /\ Step(c, "accept", IF op[Job(c)].kind = "stor" THEN "reading" ELSE "sending")
    <3>1. Doing(o, {"accept"}) /\ Now(o, {IF op[o].kind = "stor" THEN "reading" ELSE "sending"})
      BY <2>3, <2>4, <2>11 DEF Step
    <3>2. thread[c].listen = o
      BY <1>c, <1>0, <3>1 DEF ControlOf, Doing
    <3>3. link' = [link EXCEPT ![o].st = "open"] /\ link[o].st = "backlog"
      BY <2>11, <3>2 DEF accept1
    <3>4. link'[o].st = "open"
      BY <1>0, <3>3 DEF TypeOK, Link
    <3>5. thread'[c].pos = 0
      BY <1>0, <2>11 DEF Shape, ThreadShape, Step
    <3> QED BY <1>c, <2>11, <3>1, <3>3, <3>4, <3>5 DEF Advances
  <2>12. CASE /\ retr(c) /\ thread[c].pc = "sending" /\ thread'[c].pc = "sending"
              /\ thread'[c].job = thread[c].job /\ SameFile(c) /\ SameListen(c)
              /\ thread'[c].pos = thread[c].pos + 1
    <3>1. Doing(o, {"sending"}) /\ Now(o, {"sending"})
      BY <2>3, <2>12
    <3> QED BY <1>c, <2>12, <3>1 DEF Advances
  <2> QED BY <1>0, <2>2, <2>5, <2>6, <2>7, <2>8, <2>9, <2>10, <2>11, <2>12, <2>13, <2>14,
             <2>15, Arrives
<1> QED BY <1>1, <1>2, <1>3, <1>4

\* The request a thread works on is no longer queued.
LEMMA NotQueued ==
    ASSUME TypeOK, OrderInv, NEW d \in Clients, AtReal(d), Job(d) \in Ops
    PROVE  Msg("stor", Job(d)) \notin Queued /\ Msg("retr", Job(d)) \notin Queued
<1>1. ASSUME NEW t \in {"stor", "retr"}, Msg(t, Job(d)) \in Queued PROVE FALSE
  <2> DEFINE m == Msg(t, Job(d))
  <2>1. Real(m) /\ m.op = Job(d) /\ m.type # "info"
    BY DEF Real, Msg
  <2>2. ThreadRank(d) < Rank(m)
    BY <1>1, <2>1 DEF OrderInv
  <2>3. Rank(m) = 2 * Job(d)
    BY <2>1 DEF Rank, Ops
  <2> HIDE DEF m
  <2> QED BY <2>2, <2>3 DEF ThreadRank, Ops
<1> QED BY <1>1

LEMMA SocketStep ==
    ASSUME TypeOK, Shape, [Next]_vars
    PROVE  \/ acceptSocket_' = acceptSocket_
           \/ \E d \in Clients :
                 /\ connectPort(d) /\ acceptSocket_' = Job(d)
                 /\ thread[d].pc = "port" /\ Busy(d) /\ Job(d) \in Asked
<1>1. ASSUME NEW c \in Clients, upload(c) \/ download(c)
      PROVE  acceptSocket_' = acceptSocket_
  BY <1>1, AskIsAsks DEF Asks
<1>2. ASSUME NEW o \in Ops, TaskStep(o) PROVE acceptSocket_' = acceptSocket_
  BY <1>2 DEF TaskStep, openLocal, sendmain, printError, connectData, sendData,
     readData, linkUnchanged, clientUnchanged
<1>3. ASSUME Failure PROVE acceptSocket_' = acceptSocket_
  BY <1>3 DEF Failure, openFails, crash, openLocalFails, clientUnchanged
<1>4. ASSUME NEW c \in Clients, ServerStep(c), ~connectPort(c)
      PROVE  acceptSocket_' = acceptSocket_
  BY <1>4 DEF ServerStep, otherMessage, messageCallback, nextMessage, createFile, openFile,
     getFilefd, bindAddress, listenPort, tellPort, acceptBegins, accept1, stor, retr, info,
     cloe
<1>5. ASSUME NEW d \in Clients, connectPort(d)
      PROVE  acceptSocket_' = Job(d) /\ thread[d].pc = "port" /\ Busy(d) /\ Job(d) \in Asked
  <2>1. acceptSocket_' = Job(d) /\ thread[d].pc = "port"
    BY <1>5 DEF connectPort, At
  <2> QED BY <2>1 DEF Busy, Shape, ThreadShape
<1> QED BY <1>1, <1>2, <1>3, <1>4, <1>5 DEF Next, vars

\* A request is not queued again.
LEMMA RequestKept ==
    ASSUME TypeOK, Shape, [Next]_vars, NEW o \in Asked
    PROVE  (Msg("stor", o) \in Queued \/ Msg("retr", o) \in Queued)' =>
              Msg("stor", o) \in Queued \/ Msg("retr", o) \in Queued
<1>1. ASSUME NEW t \in {"stor", "retr"}, Msg(t, o) \in Queued' PROVE Msg(t, o) \in Queued
  <2>1. Msg(t, o).type = t /\ Msg(t, o).op = o /\ Real(Msg(t, o))
    BY DEF Msg, Real
  <2> QED BY <1>1, <2>1, QueuedStep
<1>2. \A t : Msg(t, o)' = Msg(t, o)
  BY DEF Msg
<1> QED BY <1>1, <1>2

LEMMA AheadKept ==
    ASSUME TypeOK, Shape, MixInv, ControlInv, [Next]_vars,
           NEW o \in Asked, Who(o) \notin confused, Ahead(o)'
    PROVE  Ahead(o)
<1>1. Who(o)' = Who(o) /\ o \in Ops
  BY HitKept DEF Asked
<1>2. (Msg("stor", o) \in Queued \/ Msg("retr", o) \in Queued)' => Ahead(o)
  BY RequestKept DEF Ahead
<1>3. CASE Doing(o, {"stor", "open", "retr", "port", "bind", "listen", "tell"})'
  <2>1. Now(o, {"stor", "open", "retr", "port", "bind", "listen", "tell"})
    BY <1>1, <1>3 DEF Doing, Now
  <2>2. CASE thread'[Who(o)] = thread[Who(o)]
    BY <2>1, <2>2 DEF Now, Ahead, Doing
  <2>3. CASE nextMessage(Who(o)) /\ Msg(thread'[Who(o)].pc, o) \in Queued
             /\ Now(o, {"stor", "info", "retr", "cloe", "550"})
    <3>1. thread'[Who(o)].pc \in {"stor", "retr"}
      BY <2>1, <2>3 DEF Now
    <3> QED BY <2>3, <3>1 DEF Ahead
  <2>4. CASE Doing(o, {"stor", "open", "retr", "port", "bind", "listen", "tell"})
    BY <2>4 DEF Ahead
  <2>5. CASE \/ ~Now(o, Places) \/ Now(o, {"ported"}) \/ Now(o, {"accept"})
             \/ Now(o, {"sending"})
             \/ Now(o, {IF op[o].kind = "stor" THEN "reading" ELSE "sending"})
    BY <2>1, <2>5 DEF Now, Places
  <2>6. Doing(o, {"stor"}) \/ Doing(o, {"open"}) \/ Doing(o, {"retr"}) \/ Doing(o, {"port"})
           \/ Doing(o, {"bind"}) \/ Doing(o, {"listen"}) \/ Doing(o, {"tell"}) =>
        Doing(o, {"stor", "open", "retr", "port", "bind", "listen", "tell"})
    BY DEF Doing
  <2> QED BY <2>2, <2>3, <2>4, <2>5, <2>6, AdvancesStep DEF Advances
<1> QED BY <1>2, <1>3 DEF Ahead

LEMMA UnboundKept ==
    ASSUME TypeOK, Shape, MixInv, ControlInv, [Next]_vars,
           NEW o \in Asked, Who(o) \notin confused, Unbound(o)'
    PROVE  Unbound(o)
<1>1. Who(o)' = Who(o) /\ o \in Ops
  BY HitKept DEF Asked
<1>2. (Msg("stor", o) \in Queued \/ Msg("retr", o) \in Queued)' => Unbound(o)
  BY RequestKept DEF Unbound
<1>3. CASE Doing(o, {"stor", "open", "retr", "port", "bind"})'
  <2>1. Now(o, {"stor", "open", "retr", "port", "bind"})
    BY <1>1, <1>3 DEF Doing, Now
  <2>2. CASE thread'[Who(o)] = thread[Who(o)]
    BY <2>1, <2>2 DEF Now, Unbound, Doing
  <2>3. CASE nextMessage(Who(o)) /\ Msg(thread'[Who(o)].pc, o) \in Queued
             /\ Now(o, {"stor", "info", "retr", "cloe", "550"})
    <3>1. thread'[Who(o)].pc \in {"stor", "retr"}
      BY <2>1, <2>3 DEF Now
    <3> QED BY <2>3, <3>1 DEF Unbound
  <2>4. CASE Doing(o, {"stor", "open", "retr", "port", "bind"})
    BY <2>4 DEF Unbound
  <2>5. CASE \/ ~Now(o, Places) \/ Now(o, {"listen"}) \/ Now(o, {"tell"})
             \/ Now(o, {"ported"}) \/ Now(o, {"accept"}) \/ Now(o, {"sending"})
             \/ Now(o, {IF op[o].kind = "stor" THEN "reading" ELSE "sending"})
    BY <2>1, <2>5 DEF Now, Places
  <2>6. Doing(o, {"stor"}) \/ Doing(o, {"open"}) \/ Doing(o, {"retr"}) \/ Doing(o, {"port"}) =>
        Doing(o, {"stor", "open", "retr", "port", "bind"})
    BY DEF Doing
  <2> QED BY <2>2, <2>3, <2>4, <2>5, <2>6, AdvancesStep DEF Advances
<1> QED BY <1>2, <1>3 DEF Unbound

LEMMA ToldStep ==
    ASSUME TypeOK, Shape, MixInv, ControlInv, [Next]_vars,
           NEW o \in Asked, Who(o) \notin confused,
           NEW r \in replies', r \notin replies, r.op = o, r.kind \in {"150", "151"}
    PROVE  /\ tellPort(Who(o)) /\ Doing(o, {"tell"}) /\ r.to = ftpConn
           /\ r.file = thread[Who(o)].file
           /\ r.kind = IF op[o].kind = "stor" THEN "150" ELSE "151"
<1>1. PICK c \in Clients :
         /\ r.to = ftpConn /\ r.op = Job(c) /\ Busy(c) /\ tellPort(c)
         /\ r.file = thread[c].file
         /\ r.kind = IF op[Job(c)].kind = "stor" THEN "150" ELSE "151"
  BY RepliesStep
<1>2. c = Who(o)
  BY <1>1, OwnThread
<1> QED BY <1>1, <1>2 DEF Doing, tellPort, At, Job

LEMMA ControlKept ==
    ASSUME TypeOK, Shape, Shape', OrderInv, MixInv, ControlInv, [Next]_vars,
           NEW o \in Asked, Who(o)' \notin confused'
    PROVE  ControlOf(o)'
<1>c. PICK c \in Clients : c = Who(o)
  BY DEF Shape
<1>0. /\ o \in Ops /\ Who(o)' = c /\ c \notin confused /\ c \notin confused'
      /\ ControlOf(o) /\ Advances(o)
      /\ Ahead(o)' => Ahead(o)
      /\ link'[o] = link[o] \/ LinkOf(o)
  <2>1. o \in Ops /\ Who(o)' = c /\ c \notin confused'
    BY <1>c, HitKept DEF Asked
  <2>2. c \notin confused
    BY <2>1, Mono
  <2> QED BY <1>c, <2>1, <2>2, OwnThread, AdvancesStep, AheadKept, LinkOfStep
<1>1. ASSUME NEW P PROVE Doing(o, P)' <=> Now(o, P)
  BY <1>c, <1>0 DEF Doing, Now
<1>2. ASSUME NEW r \in replies', r.op = o, r.kind \in {"150", "151"}, r \notin replies
      PROVE  /\ tellPort(c) /\ Doing(o, {"tell"}) /\ Now(o, {"ported"}) /\ ~Ahead(o)'
             /\ link' = link
  <2>1. tellPort(c) /\ Doing(o, {"tell"})
    BY <1>c, <1>0, <1>2, ToldStep
  <2>2. Now(o, {"ported"}) /\ thread'[c].job = o
    <3>1. Step(c, "tell", "ported")
      BY <2>1, Moves
    <3> QED BY <1>c, <2>1, <3>1 DEF Step, Now, Doing
  <2>3. AtReal(c) /\ Job(c) = o
    BY <1>c, <2>1 DEF Doing, AtReal, Busy, Job
  <2>4. Msg("stor", o) \notin Queued /\ Msg("retr", o) \notin Queued
    BY <1>0, <2>3, NotQueued
  <2>5. inbox' = inbox /\ megser' = megser /\ link' = link
    BY <2>1 DEF tellPort
  <2>6. Queued' = Queued
    BY <2>5, QueuedSame
  <2>7. ~Doing(o, {"stor", "open", "retr", "port", "bind", "listen", "tell"})'
    BY <1>1, <2>2 DEF Now
  <2>8. ~(Msg("stor", o) \in Queued)' /\ ~(Msg("retr", o) \in Queued)'
    BY <2>4, <2>6 DEF Msg
  <2> QED BY <2>1, <2>2, <2>5, <2>7, <2>8 DEF Ahead
<1>3. Told(o)' => Told(o) \/ (tellPort(c) /\ Doing(o, {"tell"}) /\ Now(o, {"ported"})
                              /\ ~Ahead(o)' /\ link' = link)
  BY <1>2 DEF Told
<1>4. Doing(o, {"tell"}) => Ahead(o)
  BY DEF Ahead, Doing
<1>5. ASSUME NEW r \in replies, r.op = o, Opens(r, o)
      PROVE  /\ Told(o) /\ ~Told(o)' /\ thread' = thread /\ link'[o].st = "opening"
             /\ link'[o].backAll = link[o].backAll
  <2>1. /\ r.kind \in {"150", "151"} /\ replies' = replies \ {r} /\ thread' = thread
        /\ link'[o].st = "opening" /\ link'[o].backAll = link[o].backAll
    BY <1>5 DEF Opens, openLocal, clientUnchanged, SameBack
  <2>2. Told(o)
    BY <1>5, <2>1 DEF Told
  <2>3. ~Told(o)'
    <3>1. \A q \in replies : q.op = o /\ q.kind \in {"150", "151"} => q = r
      BY <1>0, <1>5, <2>1 DEF ControlOf
    <3> QED BY <2>1, <3>1 DEF Told
  <2> QED BY <2>1, <2>2, <2>3
<1>6. ASSUME link'[o].st = "none"
      PROVE  link[o].st = "none" /\ link'[o].backAll = link[o].backAll
  <2>1. CASE link'[o] # link[o] /\ Sends(c, o) /\ Doing(o, {"sending"})
    BY <1>0, <1>6, <2>1 DEF ControlOf, Sends, Turns, Doing
  <2> QED BY <1>0, <1>5, <1>6, <1>c, <2>1 DEF LinkOf, Accepts, Reads, ReadsEnd, Connects,
     Refused,
       SendsMore, Copies, CopiesEnd, Breaks, Turns, Emptied, SameBack
<1>7. ASSUME link[o].st = "none" PROVE link'[o].st \in {"none", "opening"}
  <2>1. ~Doing(o, {"reading"}) /\ ~Doing(o, {"sending"})
    BY <1>0, <1>7 DEF ControlOf, Doing
  <2> QED BY <1>0, <1>5, <1>7, <1>c, <2>1 DEF LinkOf, Accepts, Connects, Refused,
       SendsMore, Copies, CopiesEnd, Breaks, Turns
<1>8. Ahead(o)' => link'[o].st = "none" /\ ~Told(o)'
  <2> SUFFICES ASSUME Ahead(o)' PROVE link'[o].st = "none" /\ ~Told(o)'
    OBVIOUS
  <2>1. Ahead(o) /\ link[o].st = "none" /\ ~Told(o)
    BY <1>0 DEF ControlOf
  <2>2. ~Told(o)'
    BY <1>3, <2>1
  <2>3. link'[o].st = "none"
    <3>1. ~Doing(o, {"reading"}) /\ ~Doing(o, {"sending"})
      BY <1>0, <2>1 DEF ControlOf, Doing
    <3> QED BY <1>0, <1>5, <1>c, <2>1, <3>1 DEF LinkOf, Accepts, Connects, Refused,
         SendsMore, Copies, CopiesEnd, Breaks, Turns
  <2> QED BY <2>2, <2>3
<1>9. Told(o)' => Now(o, {"ported", "accept"}) /\ link'[o].st = "none"
  <2> SUFFICES ASSUME Told(o)' PROVE Now(o, {"ported", "accept"}) /\ link'[o].st = "none"
    OBVIOUS
  <2>1. CASE Doing(o, {"tell"}) /\ Now(o, {"ported"}) /\ link' = link
    BY <1>0, <1>4, <2>1 DEF ControlOf, Now
  <2>2. CASE Told(o)
    <3>1. Doing(o, {"ported", "accept"}) /\ link[o].st = "none"
      BY <1>0, <2>2 DEF ControlOf
    <3>2. link'[o].st = "none"
      <4>1. ~Doing(o, {"reading"}) /\ ~Doing(o, {"sending"})
        BY <3>1 DEF Doing
      <4> QED BY <1>0, <1>5, <1>c, <3>1, <4>1 DEF LinkOf, Accepts, Connects, Refused,
           SendsMore, Copies, CopiesEnd, Breaks, Turns
    <3>3. Now(o, {"ported", "accept"})
      BY <1>0, <1>c, <3>1 DEF Advances, Doing, Now, Places
    <3> QED BY <3>2, <3>3
  <2> QED BY <1>3, <2>1, <2>2
<1>10. ASSUME NEW r \in replies', NEW q \in replies',
              r.op = o, r.kind \in {"150", "151"}, q.op = o, q.kind \in {"150", "151"}
       PROVE  r = q
  <2>1. CASE r \in replies /\ q \in replies
    BY <1>0, <1>10, <2>1 DEF ControlOf
  <2>2. CASE r \notin replies \/ q \notin replies
    <3>1. tellPort(c) /\ Doing(o, {"tell"})
      BY <1>2, <1>10, <2>2
    <3>2. ~Told(o)
      BY <1>0, <1>4, <3>1 DEF ControlOf
    <3>3. r \notin replies /\ q \notin replies
      BY <1>10, <3>2 DEF Told
    <3>4. /\ r.to = ftpConn /\ r.file = thread[c].file
          /\ r.kind = IF op[o].kind = "stor" THEN "150" ELSE "151"
      BY <1>c, <1>0, <1>10, <3>3, ToldStep
    <3>5. /\ q.to = ftpConn /\ q.file = thread[c].file
          /\ q.kind = IF op[o].kind = "stor" THEN "150" ELSE "151"
      BY <1>c, <1>0, <1>10, <3>3, ToldStep
    <3>6. PICK k, f : replies' = Reply(k, o, f)
      BY <1>c, <3>1 DEF tellPort, Doing, Job
    <3> QED BY <3>3, <3>6 DEF Reply
  <2> QED BY <2>1, <2>2
<1>11. link'[o].st \in {"opening", "backlog"} => Now(o, {"ported", "accept"})
  <2> SUFFICES ASSUME link'[o].st \in {"opening", "backlog"}
               PROVE  Now(o, {"ported", "accept"})
    OBVIOUS
  <2>1. ASSUME NEW r \in replies, r.op = o, Opens(r, o) PROVE Now(o, {"ported", "accept"})
    BY <1>0, <1>5, <1>c, <2>1 DEF ControlOf, Doing, Now
  <2>2. ASSUME link[o].st \in {"opening", "backlog"} PROVE Now(o, {"ported", "accept"})
    <3>1. Doing(o, {"ported", "accept"})
      BY <1>0, <2>2 DEF ControlOf
    <3>2. link'[o].st # "open"
      OBVIOUS
    <3> QED BY <1>0, <1>c, <3>1, <3>2 DEF Advances, Doing, Now, Places
  <2>3. ~(Doing(o, {"reading"}) /\ link'[o].st = link[o].st)
        /\ ~(Doing(o, {"sending"}) /\ link'[o].st = link[o].st)
    BY <1>0 DEF ControlOf, Doing
  <2> QED BY <1>0, <1>c, <2>1, <2>2, <2>3 DEF LinkOf, Accepts, Reads, ReadsEnd, Sends,
     Connects,
       Refused, SendsMore, Copies, CopiesEnd, Breaks, Turns, Emptied
<1>12. Now(o, {"bind", "listen", "tell", "ported"}) =>
          acceptSocket_' = o \/ Who(acceptSocket_)' # c
  <2> SUFFICES ASSUME Now(o, {"bind", "listen", "tell", "ported"})
               PROVE  acceptSocket_' = o \/ Who(acceptSocket_)' # c
    OBVIOUS
  <2>1. CASE connectPort(c) /\ Doing(o, {"port"})
    BY <1>c, <2>1 DEF connectPort, Doing, Job
  <2>2. CASE thread'[c] = thread[c]
    <3>1. Doing(o, {"bind", "listen", "tell", "ported"}) /\ acceptSocket_ \in Asked
      BY <1>c, <2>2 DEF Doing, Now, Shape, ThreadShape, Transferring
    <3>2. acceptSocket_ = o \/ Who(acceptSocket_) # c
      BY <1>0, <1>c, <3>1 DEF ControlOf
    <3>3. Who(acceptSocket_)' = Who(acceptSocket_) \/ acceptSocket_' # acceptSocket_
      BY <3>1, HitKept DEF Who
    <3>4. ASSUME NEW d \in Clients, acceptSocket_' = Job(d), thread[d].pc = "port",
                 Busy(d), Job(d) \in Asked
          PROVE  Who(acceptSocket_)' # c
      <4>1. d # c
        BY <1>c, <3>1, <3>4 DEF Doing
      <4>2. Who(Job(d)) # c
        BY <1>c, <1>0, <3>4, <4>1, OwnThread
      <4>3. Who(acceptSocket_)' = Who(Job(d))
        BY <3>4, HitKept DEF Who
      <4> QED BY <4>2, <4>3
    <3> QED BY <3>2, <3>3, <3>4, SocketStep
  <2>3. ASSUME bindAddress(c) \/ listenPort(c) \/ tellPort(c),
               Doing(o, {"bind", "listen", "tell", "ported"})
        PROVE  acceptSocket_' = o \/ Who(acceptSocket_)' # c
    <3>1. acceptSocket_' = acceptSocket_ /\ op' = op
      BY <2>3 DEF bindAddress, listenPort, tellPort
    <3>2. acceptSocket_ = o \/ Who(acceptSocket_) # c
      BY <1>0, <1>c, <2>3 DEF ControlOf
    <3> QED BY <3>1, <3>2 DEF Who
  <2>4. Doing(o, {"bind"}) \/ Doing(o, {"listen"}) \/ Doing(o, {"tell"}) =>
        Doing(o, {"bind", "listen", "tell", "ported"})
    BY DEF Doing
  <2> QED BY <1>0, <1>c, <2>1, <2>2, <2>3, <2>4 DEF Advances, Now, Places
<1>13. Now(o, {"accept", "reading", "sending"}) => thread'[c].listen = o
  <2> SUFFICES ASSUME Now(o, {"accept", "reading", "sending"}) PROVE thread'[c].listen = o
    OBVIOUS
  <2>1. CASE acceptBegins(c) /\ Doing(o, {"ported"}) /\ thread'[c].listen = acceptSocket_
    <3>1. confused' = Mixed(c, Who(acceptSocket_))
      BY <2>1 DEF acceptBegins
    <3>2. Who(acceptSocket_) = c
      BY <1>0, <3>1 DEF Mixed
    <3>3. Doing(o, {"bind", "listen", "tell", "ported"})
      BY <2>1 DEF Doing
    <3> QED BY <1>0, <1>c, <2>1, <3>2, <3>3 DEF ControlOf
  <2>2. CASE thread'[c].listen = thread[c].listen
             /\ Doing(o, {"accept", "reading", "sending"})
    BY <1>0, <1>c, <2>2 DEF ControlOf
  <2> QED BY <1>0, <1>c, <2>1, <2>2 DEF Advances, Doing, Now, Places, SameListen
<1>14. Now(o, {"reading", "sending"}) => link'[o].st = "open"
  <2> SUFFICES ASSUME Now(o, {"reading", "sending"}) PROVE link'[o].st = "open"
    OBVIOUS
  <2>1. CASE link'[o].st = "open"
    BY <2>1
  <2>2. CASE Doing(o, {"reading", "sending"})
    <3>1. link[o].st = "open"
      BY <1>0, <2>2 DEF ControlOf
    <3>2. ~ReadsEnd(c, o)
      <4>1. ASSUME ReadsEnd(c, o) PROVE FALSE
        <5>1. thread'[c].pc = "next"
          BY <4>1 DEF ReadsEnd, Finishes, Idle
        <5> QED BY <1>c, <5>1 DEF Now
      <4> QED BY <4>1
    <3>3. ~CopiesEnd(o)
      <4>1. Doing(o, {"sending"}) => ~link[o].backAll
        BY <1>0 DEF ControlOf
      <4>2. Doing(o, {"reading"}) => op[o].kind = "stor"
        BY <1>c DEF Doing, Shape, ThreadShape, Job
      <4>3. Doing(o, {"sending"}) \/ Doing(o, {"reading"})
        BY <2>2 DEF Doing
      <4> QED BY <4>1, <4>2, <4>3 DEF CopiesEnd
    <3>4. ~Doing(o, {"accept"})
      BY <2>2 DEF Doing
    <3> QED BY <1>0, <1>c, <1>5, <3>1, <3>2, <3>3, <3>4 DEF LinkOf, Reads, Sends, Opens,
       Connects,
         Refused, SendsMore, Copies, Breaks, Turns, ControlOf
  <2> QED BY <1>0, <1>c, <2>1, <2>2 DEF Advances, Doing, Now, Places
<1>15. link'[o].st = "open" => Now(o, {"reading", "sending"}) \/ link'[o].backAll
  <2> SUFFICES ASSUME link'[o].st = "open", ~link'[o].backAll
               PROVE  Now(o, {"reading", "sending"})
    OBVIOUS
  <2>1. CASE Accepts(c, o) /\ Doing(o, {"accept"})
    <3>1. Step(c, "accept", IF op[Job(c)].kind = "stor" THEN "reading" ELSE "sending")
      BY <2>1, Moves DEF Accepts
    <3> QED BY <1>c, <2>1, <3>1 DEF Step, Now, Doing
  <2>2. CASE link[o].st = "open" /\ ~link[o].backAll
    <3>1. Doing(o, {"reading", "sending"})
      BY <1>0, <2>2 DEF ControlOf
    <3> QED BY <1>0, <1>c, <3>1 DEF Advances, Doing, Now, Places
  <2>3. ~ \E r \in replies : r.op = o /\ Opens(r, o)
    BY <1>5
  <2>4. Doing(o, {"sending"}) => ~link[o].backAll
    BY <1>0 DEF ControlOf
  <2> QED BY <1>0, <1>c, <2>1, <2>2, <2>3, <2>4 DEF LinkOf, Reads, ReadsEnd, Sends,
     Connects,
       Refused, SendsMore, Copies, CopiesEnd, Breaks, Turns, Emptied, SameBack
<1>16. link'[o].st # "none" => link'[o].by = c
  <2> SUFFICES ASSUME link'[o].st # "none" PROVE link'[o].by = c
    OBVIOUS
  <2>1. ASSUME NEW r \in replies, r.op = o, r.to = c, Opens(r, o) PROVE link'[o].by = c
    BY <2>1 DEF Opens
  <2>2. CASE link[o].st # "none" /\ link'[o].by = link[o].by
    BY <1>0, <1>c, <2>2 DEF ControlOf
  <2>3. Doing(o, {"reading"}) \/ Doing(o, {"sending"}) => link[o].st # "none"
    BY <1>0 DEF ControlOf, Doing
  <2> QED BY <1>0, <1>c, <2>1, <2>2, <2>3 DEF LinkOf, Accepts, Reads, ReadsEnd, Sends,
     Connects,
       Refused, SendsMore, Copies, CopiesEnd, Breaks, Turns, Emptied
<1>17. Now(o, {"sending"}) => ~link'[o].backAll
  <2> SUFFICES ASSUME Now(o, {"sending"}) PROVE ~link'[o].backAll
    OBVIOUS
  <2>1. CASE Doing(o, {"accept"}) /\ link[o].st = "backlog"
    <3>1. ~link[o].backAll /\ ~Doing(o, {"reading"}) /\ ~Doing(o, {"sending"})
      BY <1>0, <2>1 DEF ControlOf, Doing
    <3> QED BY <1>0, <1>c, <1>5, <2>1, <3>1 DEF LinkOf, Accepts, Connects, Refused,
         SendsMore, Copies, CopiesEnd, Breaks, Turns, SameBack
  <2>2. CASE Doing(o, {"sending"})
    <3>1. ~link[o].backAll /\ ~Doing(o, {"accept"}) /\ ~Doing(o, {"reading"})
      BY <1>0, <2>2 DEF ControlOf, Doing
    <3>2. CASE Sends(c, o) /\ link'[o].backAll
      <4>1. Finishes(c, "sending")
        BY <3>2 DEF Sends
      <4> QED BY <1>c, <4>1 DEF Finishes, Now, Idle
    <3> QED BY <1>0, <1>c, <1>5, <3>1, <3>2 DEF LinkOf, Connects, Refused,
         SendsMore, Copies, CopiesEnd, Breaks, Turns, SameBack
  <2> QED BY <1>0, <1>c, <2>1, <2>2 DEF Advances, Doing, Now, Places
<1>18. link'[o].st \in {"none", "opening", "backlog"} => ~link'[o].backAll
  <2> SUFFICES ASSUME link'[o].st \in {"none", "opening", "backlog"} PROVE ~link'[o].backAll
    OBVIOUS
  <2>1. CASE link[o].st \in {"none", "opening", "backlog"}
    <3>1. ~link[o].backAll /\ ~Doing(o, {"reading"}) /\ ~Doing(o, {"sending"})
      BY <1>0, <2>1 DEF ControlOf, Doing
    <3> QED BY <1>0, <1>c, <1>5, <2>1, <3>1 DEF LinkOf, Accepts, Connects, Refused,
         SendsMore, Copies, CopiesEnd, Breaks, Turns, SameBack
  <2>2. CASE link[o].st \notin {"none", "opening", "backlog"}
    <3>1. ASSUME NEW r \in replies, r.op = o, Opens(r, o) PROVE FALSE
      BY <1>0, <1>5, <2>2, <3>1 DEF ControlOf
    <3> QED BY <1>0, <1>c, <2>2, <3>1 DEF LinkOf, Accepts, Reads, ReadsEnd, Sends, Connects,
         Refused, SendsMore, Copies, CopiesEnd, Breaks, Turns, Emptied
  <2> QED BY <2>1, <2>2
<1>19. /\ Doing(o, {"ported", "accept"})' <=> Now(o, {"ported", "accept"})
       /\ Doing(o, {"bind", "listen", "tell", "ported"})' <=>
          Now(o, {"bind", "listen", "tell", "ported"})
       /\ Doing(o, {"accept", "reading", "sending"})' <=>
             Now(o, {"accept", "reading", "sending"})
       /\ Doing(o, {"reading", "sending"})' <=> Now(o, {"reading", "sending"})
       /\ Doing(o, {"sending"})' <=> Now(o, {"sending"})
  BY <1>1
<1>20. thread'[Who(o)'].listen = thread'[c].listen
  BY <1>0
<1> QED BY <1>0, <1>8, <1>9, <1>10, <1>11, <1>12, <1>13, <1>14, <1>15, <1>16, <1>17, <1>18,
        <1>19, <1>20 DEF ControlOf

\* A transfer that is new.
LEMMA NewTransfer ==
    ASSUME TypeOK, Shape, FreshInv, [Next]_vars, NEW o \in Asked', o \notin Asked
    PROVE  /\ \E c \in Clients, k \in {"stor", "retr"}, f \in Files \cup {NoFile} :
                 Asks(c, o, k, f) /\ Who(o)' = c /\ op'[o].kind = k /\ op'[o].file = f
           /\ link'[o] = NoLink /\ copy'[o] = <<>> /\ socket'[o] = "raw"
           /\ ~Doing(o, Places)' /\ \A d \in Clients : ~(Busy(d)' /\ Job(d)' = o)
           /\ \A r \in replies' : r.op # o
           /\ \A a \in announced' : a.op # o
<1>1. PICK c \in Clients : upload(c) \/ download(c)
  <2>1. ASSUME NEW c \in Clients, ServerStep(c) \/ openFails(c) PROVE op' = op
    BY <2>1 DEF ServerStep, messageCallback, nextMessage, createFile, openFile, openFails,
       getFilefd, connectPort, bindAddress, listenPort, tellPort, acceptBegins, accept1,
       stor, retr, info, cloe, otherMessage
  <2>2. ASSUME NEW p \in Ops, TaskStep(p) PROVE op' = op
    BY <2>2 DEF TaskStep, openLocal, sendmain, printError, connectData, sendData,
       readData, linkUnchanged, clientUnchanged
  <2>3. ASSUME Failure PROVE op' = op \/ \E c \in Clients : openFails(c)
    BY <2>3 DEF Failure, crash, openLocalFails, clientUnchanged
  <2>4. op' # op
    BY DEF Asked
  <2> QED BY <2>1, <2>2, <2>3, <2>4 DEF Next, vars
<1>2. PICK p \in Ops, k \in {"stor", "retr"}, f \in Files \cup {NoFile} : Asks(c, p, k, f)
  BY <1>1, AskIsAsks
<1>3. p = o /\ Asks(c, o, k, f)
  BY <1>2 DEF Asks
<1>4. op'[o] = [who |-> c, kind |-> k, file |-> f]
  BY <1>3 DEF Asks, TypeOK
<1>5. link' = link /\ copy' = copy /\ thread' = thread /\ replies' = replies
      /\ announced' = announced /\ o \in Ops
  BY <1>3 DEF Asks
<1>6. link'[o] = NoLink /\ copy'[o] = <<>>
  BY <1>5 DEF FreshInv
<1>7. \A d \in Clients : ~(Busy(d)' /\ Job(d)' = o)
  BY <1>5 DEF Busy, Job, Shape, ThreadShape
<1>8. ~Doing(o, Places)'
  <2>1. Who(o)' = c
    BY <1>4 DEF Who
  <2> QED BY <1>7, <2>1 DEF Doing, Busy, Job, Places
<1>9. (\A r \in replies' : r.op # o) /\ \A a \in announced' : a.op # o
  BY <1>5 DEF Shape
<1>10. socket'[o] = "raw"
  <2>1. socket[o] = "raw"
    BY <1>5 DEF FreshInv
  <2> QED BY <1>5, <2>1, BindStep
<1> QED BY <1>3, <1>4, <1>6, <1>7, <1>8, <1>9, <1>10 DEF Who

LEMMA ControlStep ==
    ASSUME TypeOK, Shape, Shape', OrderInv, MixInv, FreshInv, ControlInv, [Next]_vars
    PROVE  ControlInv'
<1> SUFFICES ASSUME NEW o \in Asked', Who(o)' \notin confused' PROVE ControlOf(o)'
  BY DEF ControlInv, Asked
<1>1. CASE o \in Asked
  BY <1>1, ControlKept
<1>2. CASE o \notin Asked
  <2>1. link'[o] = NoLink /\ ~Doing(o, Places)' /\ \A r \in replies' : r.op # o
    BY <1>2, NewTransfer
  <2>2. link'[o].st = "none" /\ ~link'[o].backAll
    BY <2>1 DEF NoLink, Empty
  <2>3. ~Told(o)'
    BY <2>1 DEF Told
  <2>4. /\ ~Doing(o, {"ported", "accept"})'
        /\ ~Doing(o, {"bind", "listen", "tell", "ported"})'
        /\ ~Doing(o, {"accept", "reading", "sending"})'
        /\ ~Doing(o, {"reading", "sending"})' /\ ~Doing(o, {"sending"})'
    BY <2>1 DEF Doing, Places
  <2> QED BY <2>1, <2>2, <2>3, <2>4 DEF ControlOf
<1> QED BY <1>1, <1>2

\* The socket of a transfer is bound and made to listen by its client's own
\* thread, or that client is confused.
LEMMA SocketKept ==
    ASSUME TypeOK, Shape, Shape', OrderInv, MixInv, ControlInv, SocketInv, [Next]_vars,
           NEW o \in Asked, Who(o)' \notin confused'
    PROVE  SocketOf(o)'
<1>c. PICK c \in Clients : c = Who(o)
  BY DEF Shape
<1>0. /\ o \in Ops /\ Who(o)' = c /\ c \notin confused /\ c \notin confused'
      /\ ControlOf(o) /\ SocketOf(o) /\ Advances(o)
      /\ Unbound(o)' => Unbound(o)
  <2>1. o \in Ops /\ Who(o)' = c /\ c \notin confused'
    BY <1>c, HitKept DEF Asked
  <2>2. c \notin confused
    BY <2>1, Mono
  <2>3. SocketOf(o)
    BY <1>c, <2>2 DEF SocketInv
  <2> QED BY <1>c, <2>1, <2>2, <2>3, OwnThread, AdvancesStep, UnboundKept
<1>1. CASE socket'[o] # socket[o]
  <2>1. PICK d \in Clients :
           /\ acceptSocket_ = o /\ Busy(d) /\ confused' = Mixed(d, Who(o))
           /\ \/ bindAddress(d) /\ thread[d].pc = "bind" /\ socket'[o] = "bound"
              \/ listenPort(d) /\ thread[d].pc = "listen" /\ socket'[o] = "listening"
    BY <1>0, <1>1, BindStep
  <2>2. d = c
    BY <1>0, <1>c, <2>1 DEF Mixed
  <2>3. Job(c) \in Asked /\ Who(Job(c)) = c
    BY <1>0, <2>1, <2>2 DEF MixInv, Shape, ThreadShape
  <2>4. Doing(Job(c), {"bind", "listen", "tell", "ported"}) /\ ControlOf(Job(c))
    BY <1>0, <2>1, <2>2, <2>3, OwnThread DEF Doing, Job
  <2>5. Job(c) = o
    BY <1>c, <2>1, <2>3, <2>4 DEF ControlOf
  <2>6. AtReal(c)
    BY <2>1, <2>2 DEF AtReal, Busy
  <2>7. ~(Msg("stor", o) \in Queued \/ Msg("retr", o) \in Queued)
    BY <1>0, <2>5, <2>6, NotQueued
  <2>8. ~(Msg("stor", o) \in Queued \/ Msg("retr", o) \in Queued)'
    BY <2>7, RequestKept
  <2>9. CASE bindAddress(c)
    <3>1. Step(c, "bind", "listen")
      BY <2>9, Moves
    <3>2. ~Doing(o, {"stor", "open", "retr", "port", "bind"})'
          /\ ~Doing(o, {"tell", "ported"})'
      BY <1>0, <3>1 DEF Step, Doing
    <3> QED BY <2>8, <3>2 DEF SocketOf, Unbound
  <2>10. CASE listenPort(c) /\ socket'[o] = "listening"
    <3>1. Step(c, "listen", "tell")
      BY <2>10, Moves
    <3>2. ~Doing(o, {"stor", "open", "retr", "port", "bind"})'
      BY <1>0, <3>1 DEF Step, Doing
    <3> QED BY <2>8, <2>10, <3>2 DEF SocketOf, Unbound
  <2> QED BY <2>1, <2>2, <2>9, <2>10
<1>2. CASE socket'[o] = socket[o]
  <2>1. Unbound(o)' => socket'[o] = "raw"
    BY <1>0, <1>2 DEF SocketOf
  <2>2. ASSUME Doing(o, {"tell", "ported"})' PROVE socket'[o] = "listening"
    <3>1. Now(o, {"tell", "ported"})
      BY <1>0, <1>c, <2>2 DEF Doing, Now
    <3>2. CASE Doing(o, {"tell", "ported"})
      BY <1>0, <1>2, <3>2 DEF SocketOf
    <3>3. CASE listenPort(c) /\ Doing(o, {"listen"})
      <4>1. confused' = Mixed(c, Who(acceptSocket_))
            /\ socket' = [socket EXCEPT ![acceptSocket_] = "listening"]
        BY <3>3 DEF listenPort
      <4>2. Who(acceptSocket_) = c
        BY <1>0, <4>1 DEF Mixed
      <4>3. Doing(o, {"bind", "listen", "tell", "ported"})
        BY <3>3 DEF Doing
      <4>4. acceptSocket_ = o
        BY <1>0, <1>c, <4>2, <4>3 DEF ControlOf
      <4> QED BY <1>0, <4>1, <4>4 DEF TypeOK
    <3>4. Doing(o, {"tell"}) => Doing(o, {"tell", "ported"})
      BY DEF Doing
    <3>5. thread'[c] = thread[c] => Doing(o, {"tell", "ported"})
      BY <1>c, <3>1 DEF Doing, Now
    <3> QED BY <1>0, <1>c, <3>1, <3>2, <3>3, <3>4, <3>5 DEF Advances, Now, Places
  <2> QED BY <2>1, <2>2 DEF SocketOf
<1> QED BY <1>1, <1>2

LEMMA SocketInvStep ==
    ASSUME TypeOK, Shape, Shape', OrderInv, MixInv, FreshInv, ControlInv, SocketInv, [Next]_vars
    PROVE  SocketInv'
<1> SUFFICES ASSUME NEW o \in Asked', Who(o)' \notin confused' PROVE SocketOf(o)'
  BY DEF SocketInv, Asked
<1>1. CASE o \in Asked
  BY <1>1, SocketKept
<1>2. CASE o \notin Asked
  <2>1. socket'[o] = "raw" /\ ~Doing(o, Places)'
    BY <1>2, NewTransfer
  <2>2. ~Doing(o, {"tell", "ported"})'
    BY <2>1 DEF Doing, Places
  <2> QED BY <2>1, <2>2 DEF SocketOf
<1> QED BY <1>1, <1>2

\* What a client's own thread finds in acceptSocket_ is its own socket, in the
\* state in which it left it, unless the step confuses somebody.
LEMMA SocketFound ==
    ASSUME TypeOK, Shape, MixInv, ControlInv, SocketInv, NEW c \in Clients,
           confused = {}, Mixed(c, Who(acceptSocket_)) = {}
    PROVE  /\ thread[c].pc = "bind" => socket[acceptSocket_] = "raw"
           /\ thread[c].pc = "ported" => socket[acceptSocket_] = "listening"
<1> SUFFICES ASSUME thread[c].pc \in {"bind", "ported"}
             PROVE  /\ thread[c].pc = "bind" => socket[acceptSocket_] = "raw"
                    /\ thread[c].pc = "ported" => socket[acceptSocket_] = "listening"
  OBVIOUS
<1>1. Who(acceptSocket_) = c
  BY DEF Mixed
<1>2. Job(c) \in Asked /\ Who(Job(c)) = c
  BY DEF MixInv, Shape, ThreadShape, Busy
<1>3. ControlOf(Job(c)) /\ SocketOf(Job(c))
      /\ Doing(Job(c), {"bind", "listen", "tell", "ported"})
  BY <1>2 DEF ControlInv, SocketInv, Doing, Job
<1>4. acceptSocket_ = Job(c)
  BY <1>1, <1>2, <1>3 DEF ControlOf
<1>5. /\ thread[c].pc = "bind" => Unbound(Job(c))
      /\ thread[c].pc = "ported" => Doing(Job(c), {"tell", "ported"})
  BY <1>2 DEF Unbound, Doing, Job
<1> QED BY <1>3, <1>4, <1>5 DEF SocketOf

----------------------------------------------------------------------------
(***************************************************************************)
(* Nobody waits for a data connection that is not coming.                  *)
(***************************************************************************)
LEMMA RepliesLost ==
    ASSUME [Next]_vars, NEW r \in replies, r \notin replies'
    PROVE  openLocal(r) \/ sendmain(r) \/ printError(r) \/ openLocalFails(r) \/ crash(r.to)
<1>1. ASSUME NEW c \in Clients, upload(c) \/ download(c) PROVE replies' = replies
  BY <1>1 DEF upload, download, ask
<1>2. ASSUME NEW c \in Clients, ServerStep(c) \/ openFails(c) PROVE r \in replies'
  BY <1>2 DEF ServerStep, messageCallback, nextMessage, createFile, openFile, openFails,
     getFilefd, connectPort, bindAddress, listenPort, tellPort, acceptBegins, accept1,
     stor, retr, info, cloe, otherMessage, Reply
<1>3. ASSUME NEW o \in Ops, connectData(o) \/ sendData(o) \/ readData(o)
      PROVE  replies' = replies
  BY <1>3 DEF connectData, sendData, readData, linkUnchanged, clientUnchanged
<1>4. ASSUME NEW q \in replies, openLocal(q) \/ sendmain(q) \/ printError(q) \/ openLocalFails(q)
      PROVE  r = q
  <2>1. replies' = replies \ {q}
    BY <1>4 DEF openLocal, sendmain, printError, openLocalFails
  <2> QED BY <2>1
<1>5. ASSUME NEW c \in Clients, crash(c) PROVE r.to = c
  BY <1>5 DEF crash
<1> QED BY <1>1, <1>2, <1>3, <1>4, <1>5 DEF Next, TaskStep, Failure, vars

LEMMA ComingKept ==
    ASSUME TypeOK, Shape, MixInv, ControlInv, [Next]_vars, NEW o \in Asked,
           ~Hit(Who(o)), Who(o) \notin failed', Coming(o), Listening(o),
           ~Now(o, {"reading", "sending"})
    PROVE  Coming(o)'
<1>c. PICK c \in Clients : c = Who(o)
  BY DEF Shape
<1>0. o \in Ops /\ c \notin confused /\ ControlOf(o) /\ (link'[o] = link[o] \/ LinkOf(o))
  BY <1>c, OwnThread, LinkOfStep DEF Asked, Hit
<1>1. ASSUME NEW r \in replies, r.op = o, r.kind \in {"150", "151"} PROVE Coming(o)'
  <2>1. CASE r \in replies'
    BY <1>1, <2>1 DEF Coming
  <2>2. CASE r \notin replies'
    <3>1. r.to = c
      BY <1>1, <1>c, <1>0, OwnThread
    <3>2. ~openLocalFails(r)
      BY <1>c, <3>1 DEF openLocalFails
    <3>3. ~crash(r.to)
      BY <1>c, <3>1 DEF crash
    <3>4. openLocal(r)
      BY <1>1, <2>2, <3>2, <3>3, RepliesLost DEF sendmain, printError
    <3>5. link' = [link EXCEPT ![o] = [link[o] EXCEPT !.st = "opening", !.by = r.to]]
      BY <1>1, <3>4 DEF openLocal
    <3>6. link'[o].st = "opening"
      BY <1>0, <3>5 DEF TypeOK, Link
    <3> QED BY <3>6 DEF Coming
  <2> QED BY <2>1, <2>2
<1>2. CASE link[o].st \in {"opening", "backlog"}
  <2>1. ~Doing(o, {"reading"}) /\ ~Doing(o, {"sending"}) /\ ~link[o].backAll
    BY <1>0, <1>2 DEF ControlOf, Doing
  <2>2. ~(Accepts(c, o) /\ Doing(o, {"accept"}))
    <3>1. ASSUME Accepts(c, o), Doing(o, {"accept"}) PROVE Now(o, {"reading", "sending"})
      <4>1. Step(c, "accept", IF op[Job(c)].kind = "stor" THEN "reading" ELSE "sending")
        BY <3>1, Moves DEF Accepts
      <4> QED BY <1>c, <3>1, <4>1 DEF Step, Now, Doing
    <3> QED BY <3>1
  <2>3. link'[o].st \in {"opening", "backlog"}
    BY <1>c, <1>0, <1>2, <2>1, <2>2 DEF LinkOf, Opens, Connects, Refused, SendsMore, Copies,
       CopiesEnd, Breaks, Turns
  <2> QED BY <2>3 DEF Coming
<1> QED BY <1>1, <1>2 DEF Coming

LEMMA WaitStep ==
    ASSUME TypeOK, Shape, Shape', MixInv, FreshInv, ControlInv, ControlInv', WaitInv, [Next]_vars
    PROVE  WaitInv'
<1> SUFFICES ASSUME NEW o \in Asked', ~Hit(Who(o))'
             PROVE  /\ Doing(o, {"ported"})' /\ acceptSocket_' = o => Coming(o)'
                    /\ Doing(o, {"accept"})' => Coming(o)'
  BY DEF WaitInv, Asked
<1>1. CASE o \notin Asked
  BY <1>1, NewTransfer DEF Doing, Places
<1>2. CASE o \in Asked
  <2>c. PICK c \in Clients : c = Who(o)
    BY <1>2 DEF Shape
  <2>0. /\ o \in Ops /\ Who(o)' = c /\ ~Hit(c) /\ c \notin confused' /\ c \notin failed'
        /\ c \notin confused
    BY <1>2, <2>c, HitKept DEF Asked, Hit
  <2>1. /\ Advances(o)
        /\ Doing(o, {"ported"})' => Now(o, {"ported"})
        /\ Doing(o, {"accept"})' => Now(o, {"accept"})
        /\ Doing(o, {"ported"}) /\ acceptSocket_ = o => Coming(o)
        /\ Doing(o, {"accept"}) => Coming(o)
    BY <1>2, <2>c, <2>0, AdvancesStep DEF WaitInv, Doing, Now
  <2>2. ControlOf(o) /\ ControlOf(o)'
    BY <1>2, <2>c, <2>0 DEF ControlInv
  <2>3. ASSUME Now(o, {"ported"}), acceptSocket_' = o PROVE Coming(o)'
    <3>1. CASE tellPort(c) /\ Doing(o, {"tell"})
      <4>1. PICK k \in {"150", "151"}, f \in {thread[c].file} :
              replies' = Reply(k, o, f) /\ confused' = Mixed(c, ftpConn)
        BY <2>c, <3>1 DEF tellPort, Doing, Job
      <4>2. ftpConn = c /\ c \notin gone
        BY <2>0, <4>1 DEF Mixed, Shape, Hit
      <4>3. [to |-> ftpConn, kind |-> k, op |-> o, file |-> f] \in replies'
        BY <4>1, <4>2 DEF Reply
      <4> QED BY <4>3 DEF Coming
    <3>2. CASE thread'[c] = thread[c]
      <4>1. Doing(o, {"ported"}) /\ ~Now(o, {"reading", "sending"})
        BY <2>c, <2>3, <3>2 DEF Doing, Now
      <4>2. acceptSocket_ = o
        <5>1. ASSUME NEW d \in Clients, acceptSocket_' = Job(d), thread[d].pc = "port", Busy(d)
              PROVE  FALSE
          <6>1. d = c
            BY <1>2, <2>c, <2>0, <2>3, <5>1, OwnThread
          <6> QED BY <2>c, <4>1, <5>1, <6>1 DEF Doing
        <5> QED BY <2>3, <5>1, SocketStep
      <4> QED BY <1>2, <2>c, <2>0, <2>1, <4>1, <4>2, ComingKept DEF Listening
    <3>3. Advances(o)
      BY <2>1
    <3>4. (tellPort(c) /\ Doing(o, {"tell"})) \/ thread'[c] = thread[c]
      BY <2>c, <2>3, <3>3 DEF Advances, Now, Places
    <3> QED BY <3>1, <3>2, <3>4
  <2>4. ASSUME Now(o, {"accept"}) PROVE Coming(o)'
    <3>1. CASE acceptBegins(c) /\ Doing(o, {"ported"}) /\ thread'[c].listen = acceptSocket_
      <4>1. Doing(o, {"accept", "reading", "sending"})'
        BY <2>c, <2>0, <2>4 DEF Doing, Now
      <4>2. thread'[Who(o)'].listen = o
        BY <2>2, <4>1 DEF ControlOf
      <4>3. acceptSocket_ = o
        BY <2>0, <3>1, <4>2
      <4>4. Coming(o) /\ link' = link /\ replies' = replies
        BY <2>1, <3>1, <4>3 DEF acceptBegins
      <4> QED BY <4>4 DEF Coming
    <3>2. CASE thread'[c] = thread[c]
      <4>1. Doing(o, {"accept"}) /\ ~Now(o, {"reading", "sending"})
        BY <2>c, <2>4, <3>2 DEF Doing, Now
      <4>2. thread[c].listen = o /\ thread[c].pc = "accept"
        BY <2>c, <2>2, <4>1 DEF ControlOf, Doing
      <4>3. Listening(o) /\ Coming(o)
        BY <2>1, <4>1, <4>2 DEF Listening
      <4> QED BY <1>2, <2>c, <2>0, <4>1, <4>3, ComingKept
    <3>3. Advances(o)
      BY <2>1
    <3>4. \/ acceptBegins(c) /\ Doing(o, {"ported"}) /\ thread'[c].listen = acceptSocket_
          \/ thread'[c] = thread[c]
      BY <2>c, <2>4, <3>3 DEF Advances, Now, Places
    <3> QED BY <3>1, <3>2, <3>4
  <2> QED BY <2>1, <2>3, <2>4
<1> QED BY <1>1, <1>2

\* While nobody is confused no "cloe" is read: the thread that would read it
\* waits for the connection that its client has given up.
LEMMA CloeStep ==
    ASSUME TypeOK, Shape, Shape', MixInv, FreshInv, ControlInv, ControlInv', SocketInv,
           CloeInv, [Next]_vars
    PROVE  CloeInv'
<1> SUFFICES ASSUME confused' = {} PROVE CloeInv'
  BY DEF CloeInv
<1>0. /\ confused = {} /\ up
      /\ \A m \in Elements(megser) : Real(m)
      /\ \A c \in Clients : thread[c].pc \notin {"cloe", "550"}
      /\ \A c \in Clients : \A m \in Elements(inbox[c]) :
            Real(m) \/ /\ Doing(m.op, {"ported", "accept"})
                       /\ link[m.op].st = "none" /\ ~Told(m.op)
  BY Mono DEF CloeInv
<1>1. ASSUME NEW m \in Elements(megser') PROVE Real(m)
  <2>1. CASE m \in Elements(megser)
    BY <1>0, <2>1
  <2>2. ASSUME NEW c \in Clients, messageCallback(c), m \in Elements(inbox[c]), ~Real(m)
        PROVE  FALSE
    <3>1. Doing(m.op, {"ported", "accept"})
      BY <1>0, <2>2
    <3>2. Who(m.op) = c
      BY <1>0, <2>2 DEF MixInv
    <3>3. thread[c].pc = "idle"
      BY <2>2 DEF messageCallback, At
    <3> QED BY <3>1, <3>2, <3>3 DEF Doing
  <2> QED BY <2>1, <2>2, NewInMegser
<1>2. ASSUME NEW c \in Clients, thread'[c].pc \in {"cloe", "550"} PROVE FALSE
  <2>1. thread'[c] # thread[c]
    BY <1>0, <1>2
  <2>2. nextMessage(c) /\ megser # <<>> /\ Msg(thread'[c].pc, Job(c)') = Head(megser)
    BY <1>2, <2>1, Arrives DEF Step
  <2>3. Head(megser) \in Elements(megser)
    <3>1. megser' = Tail(megser) /\ inbox' = inbox
      BY <2>2 DEF nextMessage
    <3> QED BY <2>2, <3>1, QueuedTaken
  <2>4. Real(Head(megser)) /\ Head(megser).type \in {"cloe", "550"}
    BY <1>0, <1>2, <2>2, <2>3 DEF Msg
  <2> QED BY <2>4 DEF Real
<1>3. ASSUME NEW o \in Asked, Doing(o, {"ported", "accept"}), link[o].st = "none", ~Told(o)
      PROVE  Doing(o, {"ported", "accept"})' /\ link'[o].st = "none" /\ ~Told(o)'
  <2>c. PICK c \in Clients : c = Who(o)
    BY DEF Shape
  <2>0. o \in Ops /\ Who(o)' = c /\ c \notin confused
    BY <1>0, <2>c, HitKept DEF Asked
  <2>1. ControlOf(o) /\ ControlOf(o)' /\ Advances(o) /\ (link'[o] = link[o] \/ LinkOf(o))
    BY <1>0, <2>c, <2>0, AdvancesStep, LinkOfStep, HitKept DEF ControlInv
  <2>2. link'[o].st = "none"
    <3>1. ~Doing(o, {"reading"}) /\ ~Doing(o, {"sending"})
      BY <1>3 DEF Doing
    <3>2. ~ \E r \in replies : r.op = o /\ Opens(r, o)
      BY <1>3 DEF Opens, openLocal, Told
    <3> QED BY <1>3, <2>c, <2>1, <3>1, <3>2 DEF LinkOf, Accepts, Connects, Refused,
         SendsMore, Copies, CopiesEnd, Breaks, Turns
  <2>3. Now(o, {"ported", "accept"})
    BY <1>3, <2>c, <2>1, <2>2 DEF Advances, Doing, Now, Places
  <2>4. ~Told(o)'
    <3>1. ASSUME NEW r \in replies', r.op = o, r.kind \in {"150", "151"} PROVE FALSE
      <4>1. r \notin replies
        BY <1>3, <3>1 DEF Told
      <4>2. Doing(o, {"tell"})
        BY <2>c, <2>0, <3>1, <4>1, ToldStep
      <4> QED BY <1>3, <4>2 DEF Doing
    <3> QED BY <3>1 DEF Told
  <2> QED BY <2>c, <2>0, <2>2, <2>3, <2>4 DEF Doing, Now
<1>4. ASSUME NEW c \in Clients, NEW m \in Elements(inbox'[c]), ~Real(m)
      PROVE  Doing(m.op, {"ported", "accept"})' /\ link'[m.op].st = "none" /\ ~Told(m.op)'
  <2>1. CASE m \in Elements(inbox[c])
    <3>1. m.op \in Asked
      BY <2>1 DEF Shape, Queued
    <3> QED BY <1>0, <1>3, <1>4, <2>1, <3>1
  <2>2. ASSUME NEW r \in replies, openLocalFails(r), m \in Elements(Excuse(r))
        PROVE  Doing(m.op, {"ported", "accept"})' /\ link'[m.op].st = "none" /\ ~Told(m.op)'
    <3> DEFINE o == r.op
    <3>0. m.op = o /\ o \in Asked /\ Who(o) \notin confused /\ ControlOf(o)
      BY <1>0, <2>2, ExcuseOK DEF Shape, ControlInv
    <3>1. Told(o) /\ thread' = thread /\ link' = link /\ replies' = replies \ {r} /\ op' = op
      BY <2>2 DEF openLocalFails, Told, clientUnchanged
    <3>2. Doing(o, {"ported", "accept"}) /\ link[o].st = "none"
      BY <3>0, <3>1 DEF ControlOf
    <3>3. \A q \in replies : q.op = o /\ q.kind \in {"150", "151"} => q = r
      BY <2>2, <3>0 DEF ControlOf, openLocalFails
    <3>4. ~Told(o)'
      BY <3>1, <3>3 DEF Told
    <3>5. Doing(o, {"ported", "accept"})'
      BY <3>1, <3>2 DEF Doing, Who
    <3> QED BY <3>0, <3>1, <3>2, <3>4, <3>5
  <2> QED BY <1>4, <2>1, <2>2, NewMessages
<1>5. up'
  <2>1. ASSUME NEW c \in Clients, cloe(c) PROVE FALSE
    BY <1>0, <2>1 DEF cloe, At
  <2>2. ASSUME NEW c \in Clients, upload(c) \/ download(c) PROVE up' = up
    BY <2>2, AskIsAsks DEF Asks
  <2>3. ASSUME NEW o \in Ops, TaskStep(o) PROVE up' = up
    BY <2>3 DEF TaskStep, openLocal, sendmain, printError, connectData, sendData,
       readData, linkUnchanged, clientUnchanged
  <2>4. ASSUME Failure PROVE up' = up
    BY <2>4 DEF Failure, openFails, crash, openLocalFails, clientUnchanged
  <2>5. ASSUME NEW c \in Clients, ServerStep(c), ~cloe(c), ~bindAddress(c), ~acceptBegins(c)
        PROVE  up' = up
    BY <2>5 DEF ServerStep, otherMessage, messageCallback, nextMessage, createFile,
       openFile,
       getFilefd, connectPort, listenPort, tellPort, accept1, stor, retr, info
  <2>6. ASSUME NEW c \in Clients, bindAddress(c) \/ acceptBegins(c) PROVE up'
    <3>1. Mixed(c, Who(acceptSocket_)) = {}
      BY <2>6 DEF bindAddress, acceptBegins
    <3>2. CASE bindAddress(c)
      <4>1. up' = (socket[acceptSocket_] = "raw") /\ thread[c].pc = "bind"
        BY <3>2 DEF bindAddress, At
      <4> QED BY <1>0, <3>1, <4>1, SocketFound
    <3>3. CASE acceptBegins(c)
      <4>1. up' = (socket[acceptSocket_] = "listening") /\ thread[c].pc = "ported"
        BY <3>3 DEF acceptBegins, At
      <4> QED BY <1>0, <3>1, <4>1, SocketFound
    <3> QED BY <2>6, <3>2, <3>3
  <2> QED BY <1>0, <2>1, <2>2, <2>3, <2>4, <2>5, <2>6 DEF Next, vars
<1> QED BY <1>1, <1>2, <1>4, <1>5 DEF CloeInv, Elements, Real

\* At first nothing is under way: the only transfer has been announced.
LEMMA InitQuiet ==
    ASSUME Init
    PROVE  /\ \A o \in Asked : o = 1 /\ Who(o) \in Clients /\ op[o].kind = "stor"
           /\ \A d \in Clients : thread[d] = Idle /\ thread[d].pc = "idle" /\ inbox[d] = <<>>
           /\ megser = <<>> /\ replies = {} /\ up
           /\ \A o \in Ops : link[o] = NoLink /\ copy[o] = <<>> /\ socket[o] = "raw"
           /\ \A o \in Asked : ~Doing(o, Places)
           /\ failed = {} /\ confused = {}
           /\ Queued = {}
<1> PICK n \in Names :
      LET c == CHOOSE c \in Clients : TRUE
      IN  /\ op = [o \in Ops |-> IF o = 1 THEN [who |-> c, kind |-> "stor", file |-> <<n, 0>>]
                                 ELSE [who |-> None, kind |-> "none", file |-> NoFile]]
          /\ inbox = [d \in Clients |-> <<>>]
          /\ megser = <<>>
          /\ thread = [d \in Clients |-> Idle]
          /\ replies = {} /\ up
          /\ link = [o \in Ops |-> NoLink]
          /\ copy = [o \in Ops |-> <<>>]
          /\ socket = [o \in Ops |-> "raw"]
          /\ failed = {} /\ confused = {}
  BY DEF Init
<1>1. \A o \in Asked : o = 1 /\ Who(o) \in Clients /\ op[o].kind = "stor"
  BY TransferAssumption DEF Asked, Who
<1>2. Idle.pc = "idle" /\ Idle.job = 0
  BY DEF Idle, None
<1>3. \A d \in Clients : thread[d] = Idle /\ thread[d].pc = "idle" /\ inbox[d] = <<>>
  BY <1>2
<1>4. \A o \in Asked : ~Doing(o, Places)
  BY <1>1, <1>3 DEF Doing, Places
<1>5. Queued = {}
  <2>1. Elements(<<>>) = {}
    BY DEF Elements
  <2> QED BY <1>3, <2>1 DEF Queued
<1> QED BY <1>1, <1>3, <1>4, <1>5

LEMMA InitWait == Init =>
   MixInv /\ FreshInv /\ ControlInv /\ SocketInv /\ WaitInv /\ CloeInv
<1> SUFFICES ASSUME Init
             PROVE  MixInv /\ FreshInv /\ ControlInv /\ SocketInv /\ WaitInv /\ CloeInv
  OBVIOUS
<1>1. Elements(<<>>) = {} /\ NoLink.st = "none" /\ ~NoLink.backAll
  BY DEF Elements, NoLink, Empty
<1>2. MixInv
  BY <1>1, InitQuiet DEF MixInv, Busy
<1>3. FreshInv
  BY InitQuiet DEF FreshInv
<1>4. \A o \in Asked :
         /\ ~Doing(o, {"stor", "open", "retr", "port", "bind", "listen", "tell"})
         /\ ~Doing(o, {"ported", "accept"}) /\ ~Doing(o, {"ported"})
         /\ ~Doing(o, {"bind", "listen", "tell", "ported"})
         /\ ~Doing(o, {"tell", "ported"})
         /\ ~Doing(o, {"accept", "reading", "sending"}) /\ ~Doing(o, {"accept"})
         /\ ~Doing(o, {"reading", "sending"}) /\ ~Doing(o, {"sending"})
  BY InitQuiet DEF Doing, Places
<1>5. \A o \in Asked : link[o].st = "none" /\ ~link[o].backAll
  BY <1>1, InitQuiet DEF Asked
<1>6. ControlInv
  BY <1>4, <1>5, InitQuiet DEF ControlInv, ControlOf, Ahead, Told
<1>7. WaitInv
  BY <1>4 DEF WaitInv
<1>8. CloeInv
  BY <1>1, InitQuiet DEF CloeInv
<1>9. SocketInv
  BY <1>4, InitQuiet DEF SocketInv, SocketOf, Asked
<1> QED BY <1>2, <1>3, <1>6, <1>7, <1>8, <1>9

WaitIInv ==
    TypeOK /\ Shape /\ OrderInv /\ SpaceInv /\ MixInv /\ FreshInv /\ ControlInv /\ SocketInv
    /\ WaitInv /\ CloeInv

LEMMA WaitInductive == (Init => WaitIInv) /\ (WaitIInv /\ [Next]_vars => WaitIInv')
<1>1. Init => WaitIInv
  BY InitOK, InitSpace, InitWait DEF WaitIInv
<1>2. WaitIInv /\ [Next]_vars => WaitIInv'
  <2> SUFFICES ASSUME WaitIInv, [Next]_vars PROVE WaitIInv'
    OBVIOUS
  <2>1. TypeOK /\ Shape /\ OrderInv /\ SpaceInv /\ MixInv /\ FreshInv /\ ControlInv
        /\ SocketInv /\ WaitInv /\ CloeInv
    BY DEF WaitIInv
  <2>2. TypeOK' /\ Shape' /\ OrderInv' /\ SpaceInv'
    BY <2>1, ShapeStep, OrderStep, SpaceStep
  <2>3. MixInv' /\ FreshInv' /\ ControlInv' /\ SocketInv'
    BY <2>1, <2>2, MixStep, FreshStep, ControlStep, SocketInvStep
  <2>4. WaitInv' /\ CloeInv'
    BY <2>1, <2>2, <2>3, WaitStep, CloeStep
  <2> QED BY <2>2, <2>3, <2>4 DEF WaitIInv
<1> QED BY <1>1, <1>2

\* Transfer's WaitHasCause, by the way a data connection comes about: from
\* when the port is told (handleFile.cc:59) to the accept (handleFile.cc:78)
\* it is always the client's turn, or the connection is in the backlog.
THEOREM NobodyWaits == Spec => []WaitHasCause
<1>1. WaitIInv => WaitHasCause
  <2> SUFFICES ASSUME WaitIInv PROVE WaitHasCause
    OBVIOUS
  <2>1. TypeOK /\ Shape /\ MixInv /\ ControlInv /\ WaitInv /\ CloeInv
    BY DEF WaitIInv
  <2>2. ASSUME NEW c \in Clients, At(c, "accept"), ~Hit(c) PROVE Coming(thread[c].listen)
    <3>1. Busy(c) /\ thread[c].pc = "accept"
      BY <2>2 DEF At, Busy
    <3>2. Job(c) \in Asked /\ Who(Job(c)) = c
      BY <2>1, <2>2, <3>1 DEF MixInv, Hit, Shape, ThreadShape
    <3>3. Doing(Job(c), {"accept"}) /\ Doing(Job(c), {"accept", "reading", "sending"})
      BY <3>1, <3>2 DEF Doing, Job
    <3>4. thread[c].listen = Job(c)
      BY <2>1, <2>2, <3>2, <3>3 DEF ControlInv, ControlOf, Hit
    <3>5. Coming(Job(c))
      BY <2>1, <2>2, <3>2, <3>3 DEF WaitInv
    <3> QED BY <3>4, <3>5
  <2>3. up \/ confused # {}
    BY <2>1 DEF CloeInv
  <2> QED BY <2>2, <2>3 DEF WaitHasCause
<1> QED BY <1>1, WaitInductive, PTL DEF Spec

----------------------------------------------------------------------------
(***************************************************************************)
(* What is on disk.                                                        *)
(***************************************************************************)
LEMMA DiskStep ==
    ASSUME TypeOK, Shape, [Next]_vars, NEW f \in Files
    PROVE  \/ disk'[f] = disk[f]
           \/ \E d \in Clients : openFile(d) /\ thread[d].file = f /\ disk'[f] = <<>>
           \/ \E d \in Clients : stor(d) /\ Writing(d) /\ thread[d].file = f /\ thread' = thread
<1>1. ASSUME NEW d \in Clients, openFile(d)
      PROVE  disk'[f] = disk[f] \/ (thread[d].file = f /\ disk'[f] = <<>>)
  BY <1>1 DEF openFile, TypeOK
<1>2. ASSUME NEW d \in Clients, stor(d)
      PROVE  disk'[f] = disk[f] \/ (Writing(d) /\ thread[d].file = f /\ thread' = thread)
  <2>1. thread[d].pc = "reading" /\ op[Job(d)].kind = "stor"
    BY <1>2 DEF stor, At, Shape, ThreadShape
  <2>2. Writing(d)
    BY <2>1 DEF Writing
  <2>3. disk' = disk \/ (thread' = thread
                         /\ \E x : disk' = [disk EXCEPT ![thread[d].file] = x])
    BY <1>2 DEF stor
  <2> QED BY <2>2, <2>3 DEF TypeOK
<1>3. ASSUME NEW c \in Clients, upload(c) \/ download(c) PROVE disk' = disk
  BY <1>3, AskIsAsks DEF Asks
<1>4. ASSUME NEW o \in Ops, TaskStep(o) PROVE disk' = disk
  BY <1>4 DEF TaskStep, openLocal, sendmain, printError, connectData, sendData,
     readData, linkUnchanged, clientUnchanged
<1>5. ASSUME Failure PROVE disk' = disk
  BY <1>5 DEF Failure, openFails, crash, openLocalFails, clientUnchanged
<1>6. ASSUME NEW c \in Clients, ServerStep(c), ~openFile(c), ~stor(c) PROVE disk' = disk
  BY <1>6 DEF ServerStep, messageCallback, nextMessage, createFile, getFilefd, connectPort,
     bindAddress, listenPort, tellPort,
     acceptBegins, accept1, retr, info, cloe, otherMessage
<1> QED BY <1>1, <1>2, <1>3, <1>4, <1>5, <1>6 DEF Next, vars

\* Names are given to the client that messages were last read from.
LEMMA NameGiven ==
    ASSUME TypeOK, Shape, [Next]_vars, NEW c \in Clients
    PROVE  \/ fileTimeMap'[c] = fileTimeMap[c]
           \/ \E d \in Clients : /\ createFile(d) /\ ftpConn = c /\ confused' = Mixed(d, c)
                                 /\ fileTimeMap'[c] = thread'[d].file
<1>1. ASSUME NEW d \in Clients, createFile(d)
      PROVE  \/ fileTimeMap'[c] = fileTimeMap[c]
             \/ ftpConn = c /\ confused' = Mixed(d, c) /\ fileTimeMap'[c] = thread'[d].file
  <2>1. /\ fileTimeMap' = [fileTimeMap EXCEPT ![ftpConn] = FreeName(op[Job(d)].file)]
        /\ confused' = Mixed(d, ftpConn)
    BY <1>1 DEF createFile
  <2>2. thread'[d].file = FreeName(op[Job(d)].file)
    BY <1>1, Moves
  <2> QED BY <2>1, <2>2 DEF TypeOK
<1>3. ASSUME NEW d \in Clients, upload(d) \/ download(d) PROVE fileTimeMap' = fileTimeMap
  BY <1>3, AskIsAsks DEF Asks
<1>4. ASSUME NEW o \in Ops, TaskStep(o) PROVE fileTimeMap' = fileTimeMap
  BY <1>4 DEF TaskStep, openLocal, sendmain, printError, connectData, sendData,
     readData, linkUnchanged, clientUnchanged
<1>5. ASSUME Failure PROVE fileTimeMap' = fileTimeMap
  BY <1>5 DEF Failure, openFails, crash, openLocalFails, clientUnchanged
<1>6. ASSUME NEW d \in Clients, ServerStep(d), ~createFile(d)
      PROVE  fileTimeMap' = fileTimeMap
  BY <1>6 DEF ServerStep, messageCallback, nextMessage, openFile, getFilefd, connectPort,
     bindAddress, listenPort, tellPort,
     acceptBegins, accept1, stor, retr, info, cloe, otherMessage
<1> QED BY <1>1, <1>3, <1>4, <1>5, <1>6 DEF Next, vars

\* Opening a file that is there harms everybody who asked for its name.
LEMMA OpenStep ==
    ASSUME TypeOK, NEW d \in Clients, openFile(d), thread[d].file \in exists
    PROVE  \A o \in Ops : op[o].file[1] = thread[d].file[1] => Who(o) \in confused'
BY DEF openFile

LEMMA OpenMakes ==
    ASSUME TypeOK, NEW d \in Clients, openFile(d)
    PROVE  thread[d].file \in exists' /\ exists' = exists \cup {thread[d].file}
BY DEF openFile

LEMMA WritingStep ==
    ASSUME TypeOK, Shape, [Next]_vars, NEW d \in Clients, Writing(d)'
    PROVE  /\ Writing(d) \/ openFile(d)
           /\ thread'[d].file = thread[d].file /\ Job(d)' = Job(d) /\ Job(d) \in Asked
           /\ op[Job(d)].kind = "stor"
<1>1. Busy(d)' /\ thread'[d].pc \in {"port", "bind", "listen", "tell", "ported", "accept",
                                     "reading"}
      /\ op'[Job(d)'].kind = "stor"
  BY DEF Writing, Busy
<1>2. Busy(d) /\ Job(d)' = Job(d) /\ thread'[d].file = thread[d].file
      /\ (openFile(d) \/ thread[d].pc \in {"port", "bind", "listen", "tell", "ported",
                                           "accept", "reading"}
          \/ thread[d].pc = "retr")
  <2>1. CASE thread'[d] = thread[d]
    BY <1>1, <2>1 DEF Busy, Job
  <2>2. CASE getFilefd(d) /\ Step(d, "retr", "port")
    <3>1. thread'[d].job = thread[d].job /\ Busy(d)
      BY <2>2 DEF Step, Busy
    <3>2. op' = op
      BY <2>2 DEF getFilefd
    <3>3. op[Job(d)].kind = "retr"
      BY <2>2 DEF Step, Shape, ThreadShape
    <3> QED BY <1>1, <3>1, <3>2, <3>3 DEF Job
  <2>3. Job(d)' = thread'[d].job
    BY DEF Job
  <2> QED BY <1>1, <2>1, <2>2, <2>3, Arrives DEF Step, SameFile, Busy, Job
<1>3. Job(d) \in Asked
  BY <1>2 DEF Shape, ThreadShape
<1>4. op[Job(d)].kind = "stor"
  BY <1>1, <1>2, <1>3, HitKept
<1>5. thread[d].pc # "retr"
  BY <1>4 DEF Shape, ThreadShape
<1> QED BY <1>2, <1>3, <1>4, <1>5 DEF Writing

LEMMA AnnouncedStep ==
    ASSUME TypeOK, [Next]_vars, NEW a \in announced', a \notin announced
    PROVE  \E r \in replies : r.kind = "999" /\ a = [op |-> r.op, file |-> r.file]
<1>1. ASSUME NEW c \in Clients, upload(c) \/ download(c) PROVE announced' = announced
  BY <1>1, AskIsAsks DEF Asks
<1>2. ASSUME NEW c \in Clients, ServerStep(c) \/ openFails(c) PROVE announced' = announced
  BY <1>2 DEF ServerStep, messageCallback, nextMessage, createFile, openFile, openFails,
     getFilefd, connectPort, bindAddress, listenPort, tellPort, acceptBegins, accept1,
     stor, retr, info, cloe, otherMessage
<1>3. ASSUME NEW r \in replies, sendmain(r)
      PROVE  r.kind = "999" /\ announced' = announced \cup {[op |-> r.op, file |-> r.file]}
  BY <1>3 DEF sendmain
<1>4. ASSUME NEW r \in replies, openLocal(r) \/ printError(r) \/ openLocalFails(r)
      PROVE  announced' = announced
  BY <1>4 DEF openLocal, printError, openLocalFails
<1>5. ASSUME NEW o \in Ops, connectData(o) \/ sendData(o) \/ readData(o)
      PROVE  announced' = announced
  BY <1>5 DEF connectData, sendData, readData, linkUnchanged
<1>6. ASSUME NEW c \in Clients, crash(c) PROVE announced' = announced
  BY <1>6 DEF crash
<1> QED BY <1>1, <1>2, <1>3, <1>4, <1>5, <1>6 DEF Next, TaskStep, Failure, vars

LEMMA NameStep ==
    ASSUME TypeOK, Shape, Shape', NameInv, [Next]_vars
    PROVE  NameInv'
<1>1. ASSUME NEW d \in Clients, Writing(d)'
      PROVE  thread'[d].file[1] = op'[Job(d)'].file[1] /\ thread'[d].file \in exists'
  <2>1. /\ thread'[d].file = thread[d].file /\ Job(d)' = Job(d)
        /\ op'[Job(d)'] = op[Job(d)]
    BY <1>1, WritingStep, HitKept
  <2>2. CASE Writing(d)
    BY <2>1, <2>2, Mono DEF NameInv
  <2>3. CASE openFile(d)
    <3>1. thread[d].pc = "open"
      BY <2>3 DEF openFile, At
    <3> QED BY <2>1, <2>3, <3>1, OpenMakes DEF NameInv
  <2> QED BY <1>1, <2>2, <2>3, WritingStep
<1>2. ASSUME NEW d \in Clients, thread'[d].pc = "open"
      PROVE  thread'[d].file[1] = op'[Job(d)'].file[1]
  <2>1. CASE thread'[d] = thread[d]
    <3>1. Job(d)' = Job(d) /\ Job(d) \in Asked /\ thread[d].file[1] = op[Job(d)].file[1]
      BY <1>2, <2>1 DEF Job, NameInv, Shape, ThreadShape, Busy
    <3>2. op'[Job(d)'] = op[Job(d)]
      BY <3>1, HitKept
    <3> QED BY <2>1, <3>1, <3>2
  <2>2. CASE createFile(d) /\ Step(d, "stor", "open")
    <3>1. Job(d)' = Job(d) /\ Job(d) \in Asked
      BY <2>2 DEF Step, Job, Shape, ThreadShape, Busy
    <3>2. thread'[d].file = FreeName(op[Job(d)].file) /\ op' = op
      BY <2>2, Moves DEF createFile
    <3> QED BY <3>1, <3>2 DEF FreeName
  <2>3. thread'[d].pc \notin {"idle", "next", "stor", "info", "retr", "cloe", "550"}
    BY <1>2
  <2> QED BY <1>2, <2>1, <2>2, <2>3, Arrives DEF Step
<1>3. ASSUME NEW r \in replies', r.kind = "999" PROVE op'[r.op].kind = "stor"
  <2>1. CASE r \in replies
    <3>1. r.op \in Asked /\ op[r.op].kind = "stor"
      BY <1>3, <2>1 DEF NameInv, Shape
    <3> QED BY <3>1, HitKept
  <2>2. CASE r \notin replies
    <3>1. PICK c \in Clients : info(c) /\ r.op = Job(c) /\ Job(c) \in Asked
      BY <1>3, <2>2, RepliesStep
    <3>2. op[r.op].kind = "stor"
      BY <3>1 DEF info, At, Shape, ThreadShape
    <3> QED BY <3>1, <3>2, HitKept
  <2> QED BY <2>1, <2>2
<1>4. ASSUME NEW a \in announced' PROVE op'[a.op].kind = "stor"
  <2>1. CASE a \in announced
    <3>1. a.op \in Asked /\ op[a.op].kind = "stor"
      BY <2>1 DEF NameInv, Shape
    <3> QED BY <3>1, HitKept
  <2>2. CASE a \notin announced
    <3>1. PICK r \in replies : r.kind = "999" /\ a.op = r.op
      BY <1>4, <2>2, AnnouncedStep
    <3>2. r.op \in Asked /\ op[r.op].kind = "stor"
      BY <3>1 DEF NameInv, Shape
    <3> QED BY <3>1, <3>2, HitKept
  <2> QED BY <2>1, <2>2
<1> QED BY <1>1, <1>2, <1>3, <1>4 DEF NameInv

\* What is whole stays so.
LEMMA DoneKept ==
    ASSUME TypeOK, Shape, NameInv, [Next]_vars, NEW o \in Asked, Who(o) \notin confused',
           NEW f \in Files, Done(f, o)
    PROVE  Done(f, o)'
<1>1. op'[o] = op[o] /\ Who(o)' = Who(o) /\ o \in Ops /\ f \in exists'
  BY HitKept, Mono DEF Done, Asked
<1>2. ASSUME NEW d \in Clients, openFile(d) PROVE thread[d].file # f
  BY <1>1, <1>2, OpenStep DEF Done
<1>3. disk'[f] = disk[f]
  BY <1>2, DiskStep DEF Done
<1>4. ASSUME NEW d \in Clients, Writing(d)' PROVE thread'[d].file # f
  BY <1>2, <1>4, WritingStep DEF Done
<1>5. disk'[f] = Whole(o)'
  BY <1>1, <1>3 DEF Done, Whole
<1>6. f[1] = op'[o].file[1]
  BY <1>1 DEF Done
<1> QED BY <1>1, <1>4, <1>5, <1>6 DEF Done, Writing

----------------------------------------------------------------------------
(***************************************************************************)
(* An upload under way.                                                    *)
(***************************************************************************)
LEMMA NextChunk ==
    ASSUME TypeOK, Shape, NEW o \in Asked, link[o].by = Who(o), SendsMore(o)
    PROVE  /\ link[o].n \in 0 .. 1 /\ link'[o].n = link[o].n + 1
           /\ \E e \in Chunk :
                 /\ link'[o].sent = Append(link[o].sent, e)
                 /\ SubSeq(Whole(o), 1, link'[o].n) = Append(SubSeq(Whole(o), 1, link[o].n), e)
<1>1. o \in Ops /\ Who(o) \in Clients
  BY DEF Shape, Asked
<1>2. link[o] \in Link
  BY <1>1 DEF TypeOK
<1>3. link[o].n \in 0 .. 1
  BY <1>1, <1>2 DEF Link, Shape, LinkShape, SendsMore
<1>4. /\ link'[o].n = link[o].n + 1
      /\ link'[o].sent = Append(link[o].sent, Chunks(Who(o), o)[link[o].n + 1])
  BY DEF SendsMore
<1> DEFINE w == Chunks(Who(o), o)
<1>5. w[link[o].n + 1] \in Chunk
      /\ SubSeq(w, 1, link[o].n + 1) = Append(SubSeq(w, 1, link[o].n), w[link[o].n + 1])
  BY <1>1, <1>3, TwoChunks
<1> QED BY <1>3, <1>4, <1>5 DEF Whole

LEMMA WritingKept ==
    ASSUME TypeOK, Shape, Shape', MixInv, ControlInv, ControlInv', NameInv, [Next]_vars,
           NEW o \in Asked, ~Hit(Who(o)), ~Hit(Who(o))', op[o].kind = "stor", WritingOf(o)
    PROVE  WritingOf(o)'
<1>c. PICK c \in Clients : c = Who(o)
  BY DEF Shape
<1>0. /\ o \in Ops /\ Who(o)' = c /\ c \notin confused /\ c \notin confused' /\ c \notin failed'
      /\ ControlOf(o) /\ ControlOf(o)' /\ Advances(o)
      /\ link'[o] = link[o] \/ LinkOf(o)
      /\ Whole(o)' = Whole(o) /\ op'[o] = op[o]
  <2>1. o \in Ops /\ Who(o)' = c /\ op'[o] = op[o]
    BY <1>c, HitKept DEF Asked
  <2>2. c \notin confused /\ c \notin confused' /\ c \notin failed'
    BY <1>c, <2>1 DEF Hit
  <2>3. ControlOf(o)' /\ o \in Asked'
    BY <2>1, <2>2, HitKept DEF ControlInv
  <2>4. Whole(o)' = Whole(o)
    BY <1>c, <2>1 DEF Whole
  <2> QED BY <1>c, <2>1, <2>2, <2>3, <2>4, OwnThread, AdvancesStep, LinkOfStep
<1> DEFINE f == thread[c].file
           g == thread'[c].file
<1>1. ASSUME NEW P PROVE Doing(o, P)' <=> Now(o, P)
  BY <1>c, <1>0 DEF Doing, Now
<1>2. /\ Doing(o, {"open", "port", "bind", "listen", "tell", "ported", "accept",
                   "reading"}) => fileTimeMap[c] = f
      /\ Doing(o, {"port", "bind", "listen", "tell", "ported", "accept", "reading"}) =>
            f \in exists /\ \A d \in Clients \ {c} : Writing(d) => thread[d].file # f
      /\ Doing(o, {"port", "bind", "listen", "tell", "ported", "accept"}) => disk[f] = <<>>
      /\ Doing(o, {"reading"}) => disk[f] \o link[o].sent = SubSeq(Whole(o), 1, link[o].n)
      /\ link[o].st \in {"none", "opening", "backlog"} =>
            link[o].sent = SubSeq(Whole(o), 1, link[o].n)
      /\ link[o].st \in {"none", "opening", "backlog", "open"} =>
            (link[o].sentAll <=> link[o].n = 2)
  BY <1>c DEF WritingOf
\* A thread at work on an upload has the file it opened.
<1>3. ASSUME Doing(o, {"port", "bind", "listen", "tell", "ported", "accept", "reading"})
      PROVE  /\ Writing(c) /\ f \in Files /\ f[1] = op[o].file[1]
             /\ \A d \in Clients : openFile(d) => thread[d].file # f
  <2>1. Writing(c) /\ Job(c) = o
    BY <1>c, <1>3 DEF Writing, Doing, Job
  <2>2. f \in Files /\ f[1] = op[o].file[1]
    BY <2>1 DEF NameInv, Writing, Shape, ThreadShape, Transferring
  <2>3. ASSUME NEW d \in Clients, openFile(d), thread[d].file = f PROVE FALSE
    BY <1>0, <1>2, <1>3, <1>c, <2>2, <2>3, OpenStep
  <2> QED BY <2>1, <2>2, <2>3
<1>4. Now(o, {"open", "port", "bind", "listen", "tell", "ported", "accept",
              "reading"}) => fileTimeMap'[c] = g
  <2> SUFFICES ASSUME Now(o, {"open", "port", "bind", "listen", "tell", "ported",
                              "accept", "reading"})
               PROVE  fileTimeMap'[c] = g
    OBVIOUS
  <2>1. CASE createFile(c)
    <3>1. /\ fileTimeMap' = [fileTimeMap EXCEPT ![ftpConn] = FreeName(op[Job(c)].file)]
          /\ confused' = Mixed(c, ftpConn)
      BY <2>1 DEF createFile
    <3>2. ftpConn = c
      BY <1>0, <3>1 DEF Mixed
    <3>3. g = FreeName(op[Job(c)].file)
      BY <2>1, Moves
    <3> QED BY <3>1, <3>2, <3>3 DEF TypeOK
  <2>2. CASE ~createFile(c)
    <3>1. fileTimeMap'[c] = fileTimeMap[c]
      <4>1. ASSUME NEW d \in Clients, createFile(d), confused' = Mixed(d, c) PROVE d = c
        BY <1>0, <4>1 DEF Mixed
      <4> QED BY <2>2, <4>1, NameGiven
    <3>2. Doing(o, {"open", "port", "bind", "listen", "tell", "ported", "accept",
                    "reading"}) /\ g = f
      <4>1. ~Doing(o, {"retr"})
        BY <1>c DEF Doing, Shape, ThreadShape, Job
      <4> QED BY <1>0, <1>c, <2>2, <4>1 DEF Advances, Doing, Now, Places, SameFile
    <3> QED BY <1>2, <3>1, <3>2
  <2> QED BY <2>1, <2>2
<1>5. Now(o, {"port", "bind", "listen", "tell", "ported", "accept", "reading"}) =>
         g \in exists' /\ \A d \in Clients \ {c} : Writing(d)' => thread'[d].file # g
  <2> SUFFICES ASSUME Now(o, {"port", "bind", "listen", "tell", "ported", "accept",
                              "reading"})
               PROVE  g \in exists' /\ \A d \in Clients \ {c} : Writing(d)' =>
                  thread'[d].file # g
    OBVIOUS
  <2>1. CASE openFile(c) /\ g = f
    <3>1. f \in exists' /\ op' = op
      BY <2>1, OpenMakes DEF openFile
    <3>2. f \notin exists
      BY <1>0, <2>1 DEF openFile
    <3>3. ASSUME NEW d \in Clients \ {c}, Writing(d)' PROVE thread'[d].file # f
      <4>1. thread'[d] = thread[d]
        BY <2>1, Moves DEF ServerStep
      <4>2. Writing(d)
        BY <3>1, <3>3, <4>1 DEF Writing, Job
      <4> QED BY <3>2, <4>1, <4>2 DEF NameInv
    <3> QED BY <2>1, <3>1, <3>3
  <2>2. CASE Doing(o, {"port", "bind", "listen", "tell", "ported", "accept",
                       "reading"}) /\ g = f
    <3>1. f \in exists'
      BY <1>2, <2>2, Mono
    <3>2. ASSUME NEW d \in Clients \ {c}, Writing(d)' PROVE thread'[d].file # f
      BY <1>2, <1>3, <2>2, <3>2, WritingStep
    <3> QED BY <2>2, <3>1, <3>2
  <2>3. ~Doing(o, {"retr"})
    BY <1>c DEF Doing, Shape, ThreadShape, Job
  <2> QED BY <1>0, <1>c, <2>1, <2>2, <2>3 DEF Advances, Doing, Now, Places, SameFile
<1>6. Now(o, {"port", "bind", "listen", "tell", "ported", "accept"}) => disk'[g] = <<>>
  <2> SUFFICES ASSUME Now(o, {"port", "bind", "listen", "tell", "ported", "accept"})
               PROVE  disk'[g] = <<>>
    OBVIOUS
  <2>1. CASE openFile(c) /\ g = f
    <3>1. f \in Files
      BY <2>1 DEF openFile, At, Shape, ThreadShape
    <3> QED BY <2>1, <3>1 DEF openFile, TypeOK
  <2>2. CASE Doing(o, {"port", "bind", "listen", "tell", "ported", "accept"}) /\ g = f
    <3>1. Doing(o, {"port", "bind", "listen", "tell", "ported", "accept", "reading"})
      BY <2>2 DEF Doing
    <3>2. ASSUME NEW d \in Clients, stor(d), Writing(d), thread[d].file = f PROVE FALSE
      <4>1. d = c
        BY <1>2, <3>1, <3>2
      <4> QED BY <1>c, <2>2, <3>2, <4>1 DEF stor, At, Doing
    <3>3. disk[f] = <<>>
      BY <1>2, <2>2
    <3> QED BY <1>3, <2>2, <3>1, <3>2, <3>3, DiskStep
  <2>3. ~Doing(o, {"retr"})
    BY <1>c DEF Doing, Shape, ThreadShape, Job
  <2> QED BY <1>0, <1>c, <2>1, <2>2, <2>3 DEF Advances, Doing, Now, Places, SameFile
\* What is left for a stream that is not closed.
<1>7. ~Breaks(c, o) /\ ~Copies(o) /\ ~CopiesEnd(o) /\ ~(Sends(c, o) /\ Doing(o, {"sending"}))
  <2>1. ~Breaks(c, o)
    BY <1>0 DEF Breaks, crash
  <2>2. ~Doing(o, {"sending"})
    BY <1>c DEF Doing, Shape, ThreadShape, Job
  <2> QED BY <2>1, <2>2 DEF Copies, CopiesEnd
<1>8. Now(o, {"reading"}) =>
         disk'[g] \o link'[o].sent = SubSeq(Whole(o), 1, link'[o].n)
  <2> SUFFICES ASSUME Now(o, {"reading"})
               PROVE  disk'[g] \o link'[o].sent = SubSeq(Whole(o), 1, link'[o].n)
    OBVIOUS
  <2>1. CASE accept1(c) /\ Doing(o, {"accept"}) /\ g = f
    <3>1. thread[c].listen = o /\ link[o].st = "backlog"
      BY <1>0, <1>c, <2>1 DEF ControlOf, Doing, accept1
    <3>2. link' = [link EXCEPT ![o] = [link[o] EXCEPT !.st = "open"]] /\ disk' = disk
      BY <2>1, <3>1 DEF accept1
    <3>3. link[o] \in Link /\ link'[o] = [link[o] EXCEPT !.st = "open"]
      BY <1>0, <3>2 DEF TypeOK
    <3>4. link'[o].sent = link[o].sent /\ link'[o].n = link[o].n
      BY <3>3, LinkFields
    <3>5. disk[f] = <<>> /\ link[o].sent = SubSeq(Whole(o), 1, link[o].n)
      BY <1>2, <2>1, <3>1 DEF Doing
    <3>6. link[o].sent \in Seq(Chunk)
      BY <3>3 DEF Link
    <3>7. <<>> \o link[o].sent = link[o].sent
      BY <3>6
    <3> QED BY <2>1, <3>2, <3>4, <3>5, <3>7
  <2>2. CASE thread'[c] = thread[c] /\ Doing(o, {"reading"})
    <3>0. /\ thread[c].listen = o /\ thread[c].pc = "reading" /\ link[o].st = "open" /\ f \in Files
          /\ disk[f] \o link[o].sent = SubSeq(Whole(o), 1, link[o].n)
          /\ disk[f] \in Seq(Chunk) /\ link[o] \in Link /\ link[o].sent \in Seq(Chunk)
          /\ link[o].by = Who(o)
      <4>1. Doing(o, {"port", "bind", "listen", "tell", "ported", "accept", "reading"})
            /\ Doing(o, {"accept", "reading", "sending"})
            /\ Doing(o, {"reading", "sending"})
        BY <2>2 DEF Doing
      <4>2. link[o] \in Link /\ f \in Files
        BY <1>0, <1>3, <4>1 DEF TypeOK
      <4>3. disk[f] \in Seq(Chunk) /\ link[o].sent \in Seq(Chunk)
        BY <4>2 DEF TypeOK, Link
      <4> QED BY <1>0, <1>2, <1>c, <2>2, <4>1, <4>2, <4>3 DEF ControlOf, Doing
    <3>1. CASE stor(c)
      <4>1. thread'[c].pc # "next"
        BY <2>2, <3>0
      <4>2. ~Ends(c)
        <5>1. ASSUME Ends(c) PROVE thread'[c].pc = "next"
          BY <5>1 DEF Ends, TypeOK, Idle
        <5> QED BY <4>1, <5>1
      <4>3. PICK n \in 1 .. Len(link[o].sent) :
              /\ disk' = [disk EXCEPT ![f] = @ \o SubSeq(link[o].sent, 1, n)]
              /\ link' = [link EXCEPT ![o].sent = SubSeq(@, n + 1, Len(@))]
        BY <3>0, <3>1, <4>2 DEF stor
      <4> DEFINE rest == SubSeq(link[o].sent, n + 1, Len(link[o].sent))
      <4>4. link' = [link EXCEPT ![o] = [link[o] EXCEPT !.sent = rest]]
        BY <4>3
      <4>5. disk'[f] = disk[f] \o SubSeq(link[o].sent, 1, n)
        BY <3>0, <4>3 DEF TypeOK
      <4> HIDE DEF rest
      <4>6. link'[o] = [link[o] EXCEPT !.sent = rest]
        BY <1>0, <4>4 DEF TypeOK
      <4>7. link'[o].sent = rest /\ link'[o].n = link[o].n
        BY <3>0, <4>6, LinkFields
      <4>8. (disk[f] \o SubSeq(link[o].sent, 1, n)) \o rest = disk[f] \o link[o].sent
        <5>1. n \in 0 .. Len(link[o].sent)
          BY <3>0
        <5> QED BY <3>0, <5>1, MovedPart DEF rest
      <4> QED BY <2>2, <3>0, <4>5, <4>7, <4>8
    <3>2. CASE ~stor(c)
      <4>1. disk'[f] = disk[f]
        <5>1. ASSUME NEW d \in Clients, stor(d), Writing(d), thread[d].file = f PROVE FALSE
          BY <1>2, <2>2, <3>2, <5>1 DEF Doing
        <5>2. ASSUME NEW d \in Clients, openFile(d), thread[d].file = f PROVE FALSE
          BY <1>3, <2>2, <5>2 DEF Doing
        <5> QED BY <3>0, <5>1, <5>2, DiskStep
      <4>2. CASE link'[o] = link[o]
        BY <2>2, <3>0, <4>1, <4>2
      <4>3. CASE SendsMore(o)
        <5>1. PICK e \in Chunk :
                /\ link'[o].sent = Append(link[o].sent, e)
                /\ SubSeq(Whole(o), 1, link'[o].n) = Append(SubSeq(Whole(o), 1, link[o].n), e)
          BY <3>0, <4>3, NextChunk
        <5>2. disk[f] \o Append(link[o].sent, e) = Append(disk[f] \o link[o].sent, e)
          <6> DEFINE x == disk[f]
                     s == link[o].sent
          <6>1. x \in Seq(Chunk) /\ s \in Seq(Chunk)
            BY <3>0
          <6> HIDE DEF x, s
          <6>2. x \o Append(s, e) = Append(x \o s, e)
            BY <6>1, AppendedLater
          <6> QED BY <6>2 DEF x, s
        <5> QED BY <2>2, <3>0, <4>1, <5>1, <5>2
      <4>4. ~(\E r \in replies : r.op = o /\ Opens(r, o)) /\ ~Doing(o, {"accept"})
        <5>1. ~Told(o)
          BY <1>0, <3>0 DEF ControlOf
        <5> QED BY <2>2, <5>1 DEF Opens, openLocal, Told, Doing
      <4> QED BY <1>0, <1>7, <1>c, <3>0, <3>2, <4>2, <4>3, <4>4
              DEF LinkOf, Reads, ReadsEnd, Connects, Refused
    <3> QED BY <3>1, <3>2
  <2>3. ~Now(o, {"sending"}) /\ ~Now(o, {IF op[o].kind = "stor" THEN "sending" ELSE "reading"})
    BY DEF Now
  <2> QED BY <1>0, <1>c, <2>1, <2>2 DEF Advances, Doing, Now, Places, SameFile
<1>9. link'[o].st \in {"none", "opening", "backlog"} =>
         link'[o].sent = SubSeq(Whole(o), 1, link'[o].n)
  <2> SUFFICES ASSUME link'[o].st \in {"none", "opening", "backlog"}
               PROVE  link'[o].sent = SubSeq(Whole(o), 1, link'[o].n)
    OBVIOUS
  <2>1. CASE SameSent(o) /\ link[o].st \in {"none", "opening", "backlog"}
    BY <1>2, <2>1 DEF SameSent
  <2>2. CASE SendsMore(o)
    <3>1. link[o].st \in {"none", "opening", "backlog"} /\ link[o].st # "none"
      BY <2>2 DEF SendsMore, Turns
    <3>2. link[o].by = Who(o)
      BY <1>0, <1>c, <3>1 DEF ControlOf
    <3>3. PICK e \in Chunk :
            /\ link'[o].sent = Append(link[o].sent, e)
            /\ SubSeq(Whole(o), 1, link'[o].n) = Append(SubSeq(Whole(o), 1, link[o].n), e)
      BY <2>2, <3>2, NextChunk
    <3> QED BY <1>2, <3>1, <3>3
  <2>3. ASSUME NEW r \in replies, r.op = o, Opens(r, o)
        PROVE  SameSent(o) /\ link[o].st \in {"none", "opening", "backlog"}
    <3>1. Told(o)
      BY <2>3 DEF Opens, openLocal, Told
    <3> QED BY <1>0, <2>3, <3>1 DEF ControlOf, Opens
  <2>4. Doing(o, {"reading"}) => link[o].st = "open"
    BY <1>0 DEF ControlOf, Doing
  <2> QED BY <1>0, <1>2, <1>7, <1>c, <2>1, <2>2, <2>3, <2>4 DEF LinkOf, Accepts, Reads,
     ReadsEnd,
       Connects, Refused, Turns, Emptied
<1>10. link'[o].st \in {"none", "opening", "backlog", "open"} =>
         (link'[o].sentAll <=> link'[o].n = 2)
  <2> SUFFICES ASSUME link'[o].st \in {"none", "opening", "backlog", "open"}
               PROVE  link'[o].sentAll <=> link'[o].n = 2
    OBVIOUS
  <2>1. CASE /\ link'[o].n = link[o].n /\ link'[o].sentAll = link[o].sentAll
             /\ link[o].st \in {"none", "opening", "backlog", "open"}
    BY <1>2, <2>1
  <2>2. CASE SendsMore(o)
    BY <2>2 DEF SendsMore
  <2>3. ASSUME NEW r \in replies, r.op = o, Opens(r, o)
        PROVE  SameSent(o) /\ link[o].st \in {"none", "opening", "backlog"}
    <3>1. Told(o)
      BY <2>3 DEF Opens, openLocal, Told
    <3> QED BY <1>0, <2>3, <3>1 DEF ControlOf, Opens
  <2>4. Doing(o, {"reading"}) => link[o].st = "open"
    BY <1>0 DEF ControlOf, Doing
  <2> QED BY <1>0, <1>7, <1>c, <2>1, <2>2, <2>3, <2>4 DEF LinkOf, Accepts, Reads, ReadsEnd,
       Connects, Refused, Turns, Emptied, SameSent
<1>14. link'[o].st # "read"
  <2>1. link[o].st # "read"
    BY <1>c DEF WritingOf
  <2> QED BY <1>0, <1>7, <1>c, <2>1 DEF LinkOf, Accepts, Reads, ReadsEnd, Sends, Opens,
       Connects, Refused, SendsMore, Turns, Emptied
<1>11. /\ Doing(o, {"open", "port", "bind", "listen", "tell", "ported", "accept",
                    "reading"})' <=>
             Now(o, {"open", "port", "bind", "listen", "tell", "ported", "accept",
                     "reading"})
       /\ Doing(o, {"port", "bind", "listen", "tell", "ported", "accept", "reading"})' <=>
             Now(o, {"port", "bind", "listen", "tell", "ported", "accept", "reading"})
       /\ Doing(o, {"port", "bind", "listen", "tell", "ported", "accept"})' <=>
             Now(o, {"port", "bind", "listen", "tell", "ported", "accept"})
       /\ Doing(o, {"reading"})' <=> Now(o, {"reading"})
  BY <1>1
<1>12. thread'[Who(o)'].file = g /\ fileTimeMap'[Who(o)'] = fileTimeMap'[c]
       /\ Clients \ {Who(o)'} = Clients \ {c}
  BY <1>0
<1> HIDE DEF g
<1> QED BY <1>0, <1>4, <1>5, <1>6, <1>8, <1>9, <1>10, <1>11, <1>12, <1>14 DEF WritingOf,
   Writing

----------------------------------------------------------------------------
(***************************************************************************)
(* An upload that is over.                                                 *)
(***************************************************************************)
\* How a message leaves the queues.
LEMMA QueuedLeaves ==
    ASSUME TypeOK, Shape, [Next]_vars, NEW m \in Queued, m \notin Queued'
    PROVE  \/ \E d \in Clients :
                 /\ nextMessage(d) /\ m = Head(megser)
                 /\ thread'[d].pc = m.type /\ Job(d)' = m.op
                 /\ confused' = Mixed(d, Who(m.op))
           \/ \E d \in Clients : crash(d) /\ m \in Elements(inbox[d])
<1>1. ASSUME inbox' = inbox, megser' = megser PROVE FALSE
  BY <1>1, QueuedSame
<1>2. ASSUME NEW d \in Clients, messageCallback(d) PROVE FALSE
  BY <1>2, QueuedMoved
<1>3. ASSUME NEW d \in Clients, nextMessage(d), megser # <<>>
      PROVE  /\ m = Head(megser) /\ thread'[d].pc = m.type /\ Job(d)' = m.op
             /\ confused' = Mixed(d, Who(m.op))
  <2>1. m = Head(megser)
    BY <1>3, QueuedTaken DEF nextMessage
  <2>2. thread'[d].pc = m.type /\ Job(d)' = m.op
    BY <1>3, <2>1, Moves DEF Job
  <2>3. confused' = Mixed(d, Who(m.op))
    BY <1>3, <2>1 DEF nextMessage
  <2> QED BY <2>1, <2>2, <2>3
<1>4. ASSUME NEW d \in Clients, upload(d) \/ download(d) PROVE FALSE
  BY <1>4, AskIsAsks DEF Asks
<1>5. ASSUME NEW r \in replies, openLocalFails(r) PROVE FALSE
  BY <1>5, QueuedFailed
<1>6. ASSUME NEW d \in Clients, crash(d) PROVE m \in Elements(inbox[d])
  BY <1>6, QueuedLost
<1>7. ASSUME NEW d \in Clients, nextMessage(d), megser = <<>> PROVE FALSE
  BY <1>1, <1>7 DEF nextMessage
<1>8. ASSUME NEW o \in Ops, TaskStep(o) PROVE FALSE
  BY <1>1, <1>8 DEF TaskStep, openLocal, sendmain, printError, connectData, sendData,
     readData,
       linkUnchanged, clientUnchanged
<1>9. ASSUME NEW d \in Clients, ServerStep(d) \/ openFails(d), ~messageCallback(d), ~nextMessage(d)
      PROVE  FALSE
  BY <1>1, <1>9 DEF ServerStep, createFile, openFile, openFails, getFilefd, connectPort,
     bindAddress, listenPort, tellPort,
       acceptBegins, accept1, stor, retr, info, cloe, otherMessage
<1>10. ASSUME UNCHANGED vars PROVE FALSE
  BY <1>1, <1>10 DEF vars
<1> QED BY <1>2, <1>3, <1>4, <1>5, <1>6, <1>7, <1>8, <1>9, <1>10 DEF Next, Failure

LEMMA OverKept ==
    ASSUME TypeOK, Shape, Shape', OrderInv, OrderInv', MixInv, MixInv', ControlInv, NameInv,
           [Next]_vars, NEW o \in Asked, ~Hit(Who(o)), ~Hit(Who(o))', op[o].kind = "stor",
           WritingOf(o), OverOf(o)
    PROVE  OverOf(o)'
<1>c. PICK c \in Clients : c = Who(o)
  BY DEF Shape
<1>0. /\ o \in Ops /\ Who(o)' = c /\ c \notin confused' /\ c \notin failed'
      /\ ControlOf(o) /\ Advances(o) /\ ~Hit(c) /\ ~Hit(c)' /\ op'[o] = op[o]
  <2>1. o \in Ops /\ Who(o)' = c /\ op'[o] = op[o]
    BY <1>c, HitKept DEF Asked
  <2>2. c \notin confused /\ c \notin confused' /\ c \notin failed' /\ ~Hit(c) /\ ~Hit(c)'
    BY <1>c, <2>1 DEF Hit
  <2> QED BY <1>c, <2>1, <2>2, OwnThread, AdvancesStep
<1>1. ASSUME NEW f, Done(f, o) PROVE Done(f, o)'
  <2>1. f \in Files
    BY <1>1 DEF Done, TypeOK
  <2> QED BY <1>0, <1>1, <1>c, <2>1, DoneKept
<1>2. ASSUME NEW P PROVE Doing(o, P)' <=> Now(o, P)
  BY <1>c, <1>0 DEF Doing, Now
\* The name is kept for the client until he is done.
<1>3. ASSUME thread[c].pc # "stor" PROVE fileTimeMap'[c] = fileTimeMap[c]
  <2>1. ASSUME NEW d \in Clients, createFile(d), confused' = Mixed(d, c) PROVE FALSE
    <3>1. d = c
      BY <1>0, <2>1 DEF Mixed
    <3> QED BY <1>3, <2>1, <3>1 DEF createFile, At
  <2> QED BY <2>1, NameGiven
\* The client asks for nothing earlier.
<1>4. ASSUME \A m \in Queued : Who(m.op) = c /\ Real(m) => m.op >= o
      PROVE  \A m \in Queued' : Who(m.op)' = c => m.op >= o
  <2> SUFFICES ASSUME NEW m \in Queued', Who(m.op)' = c PROVE m.op >= o
    OBVIOUS
  <2>1. Real(m)
    BY <1>0 DEF MixInv
  <2>2. CASE m \in Queued
    <3>1. m.op \in Asked
      BY <2>2 DEF Shape
    <3>2. Who(m.op) = c
      BY <3>1, HitKept
    <3> QED BY <1>4, <2>1, <2>2, <3>2
  <2>3. CASE m.op \notin Asked
    <3>1. m.op \in Ops /\ o \in Ops
      BY <1>0 DEF Shape, Asked
    <3>2. ~(m.op < o)
      BY <2>3, <3>1 DEF Shape
    <3> QED BY <3>1, <3>2 DEF Ops
  <2> QED BY <2>1, <2>2, <2>3, QueuedStep DEF Real
<1>5. ASSUME Msg("info", o) \in Queued', ~Storing(o)'
      PROVE  /\ Done(fileTimeMap[c], o)'
             /\ ~Busy(c)'
             /\ \A m \in Queued' : Who(m.op)' = c => m.op >= o
  <2>1. Msg("info", o) \in Queued
    BY <1>5, QueuedStep DEF Msg, Real
  <2>2. CASE ~Storing(o)
    <3>0. /\ Done(fileTimeMap[c], o) /\ ~Busy(c)
          /\ \A m \in Queued : Who(m.op) = c => m.op >= o
      BY <1>c, <2>1, <2>2 DEF OverOf
    <3>1. fileTimeMap'[c] = fileTimeMap[c]
      BY <1>3, <3>0 DEF Busy
    <3>2. Done(fileTimeMap[c], o)'
      <4>1. PICK f : f = fileTimeMap[c]
        OBVIOUS
      <4>2. Done(f, o)'
        BY <1>1, <3>0, <4>1
      <4> QED BY <3>1, <4>1, <4>2 DEF Done
    <3>3. ASSUME Busy(c)' PROVE FALSE
      <4>1. PICK h \in Queued :
              /\ nextMessage(c) /\ megser # <<>> /\ h = Head(megser)
              /\ Msg(thread'[c].pc, Job(c)') = h
        BY <3>0, <3>3, Begins
      <4>2. Who(h.op) = c
        BY <1>0, <4>1 DEF nextMessage, Mixed
      <4>3. Real(h)
        BY <1>0, <4>1, <4>2 DEF MixInv
      <4>4. h.op >= o
        BY <3>0, <4>1, <4>2
      <4>5. h.op \in Ops /\ h = Msg(h.type, h.op) /\ h.type \in {"stor", "info", "retr"}
        BY <4>1, <4>3, QueuedType DEF Message, Real
      <4>6. AtReal(c)' /\ ThreadRank(c)' = Rank(h) /\ Job(c)' = h.op
        <5>1. thread'[c].pc = h.type /\ Job(c)' = h.op
          BY <4>1 DEF Msg
        <5> QED BY <3>3, <4>3, <5>1 DEF AtReal, ThreadRank, Rank, Real
      <4>7. Rank(h) < Rank(Msg("info", o))
        <5>1. Who(Msg("info", o).op)' = c /\ Who(Job(c))' = c /\ Real(Msg("info", o))
          <6>1. Who(h.op)' = c
            BY <4>1, <4>2, HitKept DEF Shape
          <6>2. Who(Job(c))' = c
            BY <4>6, <6>1 DEF Who
          <6> QED BY <1>0, <6>2 DEF Msg, Real
        <5> QED BY <1>5, <4>6, <5>1 DEF OrderInv
      <4>8. h.op = o /\ h.type # "info"
        BY <1>0, <4>4, <4>5, <4>7 DEF Rank, Msg, Ops
      <4>9. h = Msg("stor", o)
        BY <4>1, <4>5, <4>8 DEF Shape
      <4> QED BY <2>2, <4>1, <4>9 DEF Storing
    <3> QED BY <1>4, <3>0, <3>2, <3>3
  <2>3. CASE Msg("stor", o) \in Queued
    <3>1. Msg("stor", o) \notin Queued'
      BY <1>5 DEF Storing
    <3>2. ASSUME NEW d \in Clients, crash(d), Msg("stor", o) \in Elements(inbox[d])
          PROVE  FALSE
      <4>1. d = c
        BY <1>c, <3>2 DEF OrderInv, Msg, Real
      <4> QED BY <1>0, <3>2, <4>1 DEF crash
    <3>3. ASSUME NEW d \in Clients, thread'[d].pc = "stor", Job(d)' = o, confused' = Mixed(d, c)
          PROVE  FALSE
      <4>1. d = c
        BY <1>0, <3>3 DEF Mixed
      <4>2. Doing(o, {"stor", "open", "port", "bind", "listen", "tell", "ported",
                      "accept", "reading"})'
        BY <1>0, <3>3, <4>1 DEF Doing, Job
      <4> QED BY <1>5, <4>2 DEF Storing
    <3>4. Msg("stor", o).type = "stor" /\ Msg("stor", o).op = o
      BY DEF Msg
    <3> QED BY <1>c, <2>3, <3>1, <3>2, <3>3, <3>4, QueuedLeaves
  <2>4. CASE Doing(o, {"stor", "open", "port", "bind", "listen", "tell", "ported",
                       "accept", "reading"})
    <3>1. ~Now(o, {"stor", "open", "port", "bind", "listen", "tell", "ported", "accept",
                   "reading"})
      BY <1>2, <1>5 DEF Storing
    <3>2. /\ ~Doing(o, {"stor", "port", "bind", "listen", "tell", "ported", "accept"})
          /\ Doing(o, {"open"}) => openFails(c)
          /\ Doing(o, {"reading"}) =>
                /\ stor(c) /\ link'[o].st = "closed" /\ disk' = disk
                /\ link[o].sent = <<>> /\ link[o].sentAll
      <4>1. thread'[c] # thread[c]
        BY <1>c, <2>4, <3>1 DEF Doing, Now
      <4>2. ~Doing(o, {"retr", "sending"})
        BY <1>c, <2>4 DEF Doing
      <4>3. Doing(o, Places)
        BY <2>4 DEF Doing, Places
      <4> QED BY <1>0, <1>c, <3>1, <4>1, <4>2, <4>3 DEF Advances, Doing, Now
    <3>3. Doing(o, {"reading"}) /\ thread[c].pc = "reading" /\ Job(c) = o /\ Writing(c)
      <4>1. ~openFails(c)
        BY <1>0 DEF openFails
      <4>2. Doing(o, {"reading"})
        BY <2>4, <3>2, <4>1 DEF Doing
      <4> QED BY <1>c, <4>2 DEF Doing, Job, Writing
    <3>4. PICK f : f = thread[c].file
      OBVIOUS
    <3>5. /\ f \in exists /\ f = fileTimeMap[c]
          /\ \A d \in Clients \ {c} : Writing(d) => thread[d].file # f
          /\ disk[f] \o link[o].sent = SubSeq(Whole(o), 1, link[o].n)
          /\ link[o].st = "open" => (link[o].sentAll <=> link[o].n = 2)
      <4>1. Doing(o, {"open", "port", "bind", "listen", "tell", "ported", "accept",
                      "reading"})
            /\ Doing(o, {"port", "bind", "listen", "tell", "ported", "accept", "reading"})
        BY <3>3 DEF Doing
      <4> QED BY <1>c, <3>3, <3>4, <4>1 DEF WritingOf
    <3>6. disk[f] = Whole(o)
      <4>1. link[o].st = "open" /\ link[o].sent = <<>> /\ link[o].n = 2
        <5>1. Doing(o, {"reading", "sending"})
          BY <3>3 DEF Doing
        <5>2. link[o].st = "open"
          BY <1>0, <5>1 DEF ControlOf
        <5> QED BY <3>2, <3>3, <3>5, <5>2
      <4>2. disk[f] \in Seq(Chunk)
        BY <3>5 DEF TypeOK
      <4>3. disk[f] \o <<>> = disk[f]
        BY <4>2
      <4>4. SubSeq(Whole(o), 1, 2) = Whole(o)
        BY <1>0, <1>c, TwoChunks DEF Whole
      <4> QED BY <3>5, <4>1, <4>3, <4>4
    <3>7. /\ stor(c) /\ disk' = disk /\ fileTimeMap' = fileTimeMap /\ exists' = exists /\ op' = op
          /\ thread'[c].pc = "next" /\ \A d \in Clients \ {c} : thread'[d] = thread[d]
      <4>1. stor(c) /\ disk' = disk
        BY <3>2, <3>3
      <4>2. fileTimeMap' = fileTimeMap /\ exists' = exists /\ op' = op
        BY <4>1 DEF stor
      <4>3. \A d \in Clients \ {c} : thread'[d] = thread[d]
        BY <4>1, Moves DEF ServerStep
      <4>4. ~(thread' = thread)
        BY <1>c, <2>4, <3>1 DEF Doing, Now
      <4>5. thread'[c].pc = "next"
        BY <4>1, <4>4, Moves DEF Finishes, Idle
      <4> QED BY <4>1, <4>2, <4>3, <4>5
    <3>8. Done(f, o)'
      <4>1. f[1] = op[o].file[1]
        BY <3>3, <3>4 DEF NameInv
      <4>2. ASSUME NEW d \in Clients, Writing(d)' PROVE thread'[d].file # f
        <5>1. d # c
          BY <3>7, <4>2 DEF Writing
        <5>2. thread'[d] = thread[d] /\ Writing(d)
          BY <3>7, <4>2, <5>1 DEF Writing, Job
        <5> QED BY <3>5, <5>1, <5>2
      <4>3. Whole(o)' = Whole(o)
        BY <3>7 DEF Whole, Who
      <4> QED BY <3>5, <3>6, <3>7, <4>1, <4>2, <4>3 DEF Done
    <3>9. \A m \in Queued : Who(m.op) = c /\ Real(m) => m.op >= o
      <4> SUFFICES ASSUME NEW m \in Queued, Who(m.op) = c, Real(m) PROVE m.op >= o
        OBVIOUS
      <4>1. AtReal(c) /\ ThreadRank(c) = 2 * o
        BY <1>0, <3>3 DEF AtReal, Busy, ThreadRank, Job, Ops
      <4>2. ThreadRank(c) < Rank(m)
        BY <1>c, <3>3, <4>1 DEF OrderInv
      <4>3. m.op \in Nat /\ o \in Nat
        BY <1>0, QueuedType DEF Message, Ops
      <4> QED BY <4>1, <4>2, <4>3 DEF Rank
    <3> QED BY <1>4, <3>5, <3>7, <3>8, <3>9 DEF Done, Busy
  <2> QED BY <2>2, <2>3, <2>4 DEF Storing
<1>6. ASSUME Now(o, {"info"}) PROVE Done(fileTimeMap[c], o)'
  <2>1. CASE Doing(o, {"info"})
    <3>1. fileTimeMap'[c] = fileTimeMap[c]
      BY <1>3, <1>c, <2>1 DEF Doing
    <3>2. PICK f : f = fileTimeMap[c]
      OBVIOUS
    <3>3. Done(f, o)'
      BY <1>1, <1>c, <2>1, <3>2 DEF OverOf
    <3> QED BY <3>1, <3>2, <3>3 DEF Done
  <2>2. CASE /\ nextMessage(c) /\ ~Doing(o, Places)
             /\ megser # <<>> /\ Msg("info", o) = Head(megser) /\ Head(megser) \in Queued
    <3>1. Msg("stor", o) \notin Queued
      <4> SUFFICES ASSUME Msg("stor", o) \in Queued PROVE FALSE
        OBVIOUS
      <4>1. Msg("stor", o) \in Queued'
        BY <2>2, QueuedTaken DEF Msg, nextMessage
      <4>2. AtReal(c)' /\ ThreadRank(c)' = Rank(Msg("info", o)) /\ Job(c)' = o
        <5>1. thread'[c].pc = "info" /\ thread'[c].job = o
          BY <1>6, <1>c DEF Now
        <5> QED BY <5>1 DEF AtReal, Busy, ThreadRank, Rank, Msg, Job
      <4>3. Real(Msg("stor", o)) /\ Who(Msg("stor", o).op)' = c /\ Who(Job(c))' = c
        BY <1>0, <4>2 DEF Msg, Real
      <4>4. Rank(Msg("info", o)) < Rank(Msg("stor", o))
        BY <4>1, <4>2, <4>3 DEF OrderInv
      <4> QED BY <1>0, <4>4 DEF Rank, Msg, Ops
    <3>2. ~Storing(o)
      BY <2>2, <3>1 DEF Storing, Doing, Places
    <3>3. Done(fileTimeMap[c], o)
      BY <1>c, <2>2, <3>2 DEF OverOf
    <3>4. fileTimeMap' = fileTimeMap
      BY <2>2 DEF nextMessage
    <3>5. PICK f : f = fileTimeMap[c]
      OBVIOUS
    <3>6. Done(f, o)'
      BY <1>1, <3>3, <3>5
    <3> QED BY <3>4, <3>5, <3>6 DEF Done
  <2>3. Now(o, Places) /\ thread'[c].pc = "info"
    BY <1>6, <1>c DEF Now, Places
  <2> QED BY <1>0, <1>6, <1>c, <2>1, <2>2, <2>3 DEF Advances, Doing, Now
<1>7. ASSUME NEW r \in replies', r.op = o, r.kind = "999" PROVE Done(r.file, o)'
  <2>1. CASE r \in replies
    BY <1>1, <1>7, <2>1 DEF OverOf
  <2>2. CASE r \notin replies
    <3>1. PICK d \in Clients :
            /\ r.op = Job(d) /\ Busy(d) /\ info(d) /\ r.file = fileTimeMap[ftpConn]
            /\ confused' = Mixed(d, ftpConn)
      <4>1. ASSUME NEW d \in Clients, info(d) PROVE r.op = Job(d) => r.op = Job(d)
        OBVIOUS
      <4> QED BY <1>7, <2>2, RepliesStep
    <3>2. d = c
      BY <1>0, <1>7, <1>c, <3>1, OwnThread DEF Hit
    <3>3. ftpConn = c
      BY <1>0, <3>1, <3>2 DEF Mixed
    <3>4. Doing(o, {"info"})
      BY <1>7, <1>c, <3>1, <3>2 DEF Doing, Job, info, At
    <3>5. Done(r.file, o)
      BY <1>c, <3>1, <3>3, <3>4 DEF OverOf
    <3> QED BY <1>1, <3>5
  <2> QED BY <2>1, <2>2
<1>8. ASSUME NEW a \in announced', a.op = o PROVE Done(a.file, o)'
  <2>1. CASE a \in announced
    BY <1>1, <1>8, <2>1 DEF OverOf
  <2>2. CASE a \notin announced
    <3>1. PICK r \in replies : r.kind = "999" /\ a = [op |-> r.op, file |-> r.file]
      BY <2>2, AnnouncedStep
    <3>2. r.op = o /\ a.file = r.file
      BY <1>8, <3>1
    <3>3. Done(r.file, o)
      BY <3>1, <3>2 DEF OverOf
    <3> QED BY <1>1, <3>2, <3>3
  <2> QED BY <2>1, <2>2
<1>9. fileTimeMap'[Who(o)'] = fileTimeMap'[c] /\ (Doing(o, {"info"})' <=> Now(o, {"info"}))
      /\ (Busy(Who(o))' <=> Busy(c)') /\ (Done(fileTimeMap[Who(o)], o)' <=>
            Done(fileTimeMap[c], o)')
  BY <1>0, <1>2 DEF Busy, Done
<1> QED BY <1>0, <1>5, <1>6, <1>7, <1>8, <1>9 DEF OverOf

\* What is on disk is whole, or is being written by its upload.
LEMMA UploadStep ==
    ASSUME TypeOK, TypeOK', Shape, Shape', OrderInv, OrderInv', MixInv, MixInv', FreshInv,
           ControlInv, ControlInv', NameInv, UploadInv, [Next]_vars
    PROVE  UploadInv'
<1> SUFFICES ASSUME NEW o \in Asked', ~Hit(Who(o))', op'[o].kind = "stor"
             PROVE  WritingOf(o)' /\ OverOf(o)'
  BY DEF UploadInv
<1>1. CASE o \in Asked
  <2>1. ~Hit(Who(o)) /\ op[o].kind = "stor"
    BY <1>1, HitKept
  <2>2. WritingOf(o) /\ OverOf(o)
    BY <1>1, <2>1 DEF UploadInv
  <2> QED BY <1>1, <2>1, <2>2, WritingKept, OverKept
<1>2. CASE o \notin Asked
  <2>1. /\ link'[o] = NoLink /\ ~Doing(o, Places)'
        /\ (\A r \in replies' : r.op # o) /\ (\A a \in announced' : a.op # o)
    BY <1>2, NewTransfer
  <2>2. Msg("stor", o) \in Queued'
    <3>1. PICK c \in Clients, k \in {"stor", "retr"}, f \in Files \cup {NoFile} :
            Asks(c, o, k, f) /\ op'[o].kind = k
      BY <1>2, NewTransfer
    <3> QED BY <3>1 DEF Asks
  <2>3. ~Doing(o, {"open", "port", "bind", "listen", "tell", "ported", "accept",
                   "reading"})'
        /\ ~Doing(o, {"port", "bind", "listen", "tell", "ported", "accept", "reading"})'
        /\ ~Doing(o, {"port", "bind", "listen", "tell", "ported",
                      "accept"})' /\ ~Doing(o, {"reading"})' /\ ~Doing(o, {"info"})'
    BY <2>1 DEF Doing, Places
  <2>4. SubSeq(Whole(o)', 1, 0) = <<>>
    <3>1. Who(o)' \in Clients /\ o \in Ops
      BY DEF Shape, Asked
    <3> QED BY <3>1, TwoChunks DEF Whole
  <2>5. /\ link'[o].st = "none" /\ link'[o].n = 0 /\ link'[o].sent = <<>> /\ ~link'[o].sentAll
    BY <2>1 DEF NoLink, Empty
  <2>6. WritingOf(o)'
    BY <2>3, <2>4, <2>5 DEF WritingOf
  <2>7. OverOf(o)'
    BY <2>1, <2>2, <2>3 DEF OverOf, Storing
  <2> QED BY <2>6, <2>7
<1> QED BY <1>1, <1>2

----------------------------------------------------------------------------
(***************************************************************************)
(* Downloads.                                                              *)
(***************************************************************************)
LEMMA CopyStep ==
    ASSUME TypeOK, [Next]_vars, NEW o \in Ops
    PROVE  copy'[o] = copy[o] \/ Copies(o)
<1>1. CASE copy' = copy
  BY <1>1
<1>2. ASSUME NEW p \in Ops, readData(p) PROVE copy'[o] = copy[o] \/ Copies(o)
  <2>1. CASE p # o \/ copy' = copy
    BY <1>2, <2>1 DEF readData, TypeOK
  <2>2. CASE p = o /\ copy' # copy
    <3>1. /\ op[o].kind = "retr" /\ link[o].st \in {"backlog", "open"}
          /\ link[o].back # <<>>
          /\ copy' = [copy EXCEPT ![o] = Append(@, Head(link[o].back))]
          /\ link' = [link EXCEPT ![o] = [link[o] EXCEPT !.back = Tail(link[o].back)]]
      BY <1>2, <2>2 DEF readData, Runs
    <3>2. link[o] \in Link /\ link'[o] = [link[o] EXCEPT !.back = Tail(link[o].back)]
      BY <3>1 DEF TypeOK
    <3>3. /\ Turns(o, link[o].st) /\ SameSent(o) /\ link'[o].back = Tail(link[o].back)
          /\ link'[o].backAll = link[o].backAll
      BY <3>2, LinkFields DEF Turns, SameSent
    <3> QED BY <1>2, <2>2, <3>1, <3>3 DEF Copies
  <2> QED BY <2>1, <2>2
<1>3. ASSUME NEW c \in Clients, upload(c) \/ download(c) \/ ServerStep(c) \/ openFails(c) \/ crash(c)
      PROVE  copy' = copy
  BY <1>3 DEF upload, download, ask, ServerStep, messageCallback, nextMessage, createFile,
     openFile,
     openFails, getFilefd, connectPort, bindAddress, listenPort, tellPort, acceptBegins,
     accept1, stor, retr, info, cloe, otherMessage, crash
<1>4. ASSUME NEW p \in Ops, TaskStep(p), ~readData(p) PROVE copy' = copy
  BY <1>4 DEF TaskStep, openLocal, sendmain, printError, connectData, sendData
<1>5. ASSUME NEW r \in replies, openLocalFails(r) PROVE copy' = copy
  BY <1>5 DEF openLocalFails
<1> QED BY <1>1, <1>2, <1>3, <1>4, <1>5 DEF Next, Failure, vars

\* The server's thread sends the next chunk of the file.
LEMMA SendsHere ==
    ASSUME TypeOK, NEW c \in Clients, NEW o \in Ops, retr(c), thread[c].listen = o
    PROVE  Sends(c, o) /\ copy' = copy
<1> DEFINE f == disk[thread[c].file]
           pos == thread[c].pos
           more == pos < Len(f) /\ link[o].by \notin gone
           last == pos + 1 >= Len(f) \/ ~more
           b == IF more THEN Append(link[o].back, f[pos + 1]) ELSE link[o].back
<1>1. link' = [link EXCEPT ![o] = [link[o] EXCEPT !.back = b, !.backAll = last]]
  BY DEF retr
<1>2. link[o] \in Link /\ link'[o] = [link[o] EXCEPT !.back = b, !.backAll = last]
  BY <1>1 DEF TypeOK
<1>3. IF last THEN Finishes(c, "sending") ELSE thread'[c].pos = pos + 1
  BY DEF retr, Finishes, Ends, At, TypeOK, Thread
<1> HIDE DEF b, last
<1>4. Turns(o, link[o].st) /\ SameSent(o) /\ link'[o].back = b /\ link'[o].backAll = last
  BY <1>2, LinkFields DEF Turns, SameSent
<1> QED BY <1>3, <1>4 DEF Sends, b, last, retr

LEMMA DownloadKept ==
    ASSUME TypeOK, TypeOK', Shape, Shape', MixInv, ControlInv, NameInv, UploadInv, [Next]_vars,
           NEW o \in Asked, ~Hit(Who(o)), ~Hit(Who(o))', op[o].kind = "retr", DownloadOf(o)
    PROVE  DownloadOf(o)'
<1>c. PICK c \in Clients : c = Who(o)
  BY DEF Shape
<1>0. /\ o \in Ops /\ Who(o)' = c /\ c \notin failed /\ c \notin failed' /\ op'[o] = op[o]
      /\ ControlOf(o) /\ Advances(o)
      /\ link'[o] = link[o] \/ LinkOf(o)
      /\ copy'[o] = copy[o] \/ Copies(o)
  <2>1. o \in Ops /\ Who(o)' = c /\ op'[o] = op[o]
    BY <1>c, HitKept DEF Asked
  <2>2. c \notin confused /\ c \notin failed /\ c \notin failed'
    BY <1>c, <2>1 DEF Hit
  <2> QED BY <1>c, <2>1, <2>2, AdvancesStep, LinkOfStep, CopyStep, OwnThread
<1>1. ASSUME NEW P PROVE Doing(o, P)' <=> Now(o, P)
  BY <1>c, <1>0 DEF Doing, Now
\* What does not happen to a download, or to a client who is not hit.
<1>2. /\ ~Doing(o, {"stor", "open", "reading", "info"})
      /\ ~SendsMore(o) /\ ~Breaks(c, o)
  <2>1. ~Doing(o, {"stor", "open", "reading", "info"})
    BY <1>c DEF Doing, Shape, ThreadShape, Job
  <2>2. ~SendsMore(o)
    BY DEF SendsMore
  <2>3. ~Breaks(c, o)
    BY <1>0 DEF Breaks, crash
  <2> QED BY <2>1, <2>2, <2>3
<1>3. ASSUME retr(c), Doing(o, {"sending"})
      PROVE  Sends(c, o) /\ copy' = copy /\ link[o].st = "open" /\ ~link[o].backAll
  <2>1. Doing(o, {"accept", "reading", "sending"}) /\ Doing(o, {"reading", "sending"})
    BY <1>3 DEF Doing
  <2>2. thread[c].listen = o /\ link[o].st = "open" /\ ~link[o].backAll
    BY <1>0, <1>3, <1>c, <2>1 DEF ControlOf
  <2> QED BY <1>0, <1>3, <2>2, SendsHere
<1>4. ASSUME Now(o, {"port", "bind", "listen", "tell", "ported", "accept", "sending"})
      PROVE  thread'[c].file = op[o].file
  <2>1. ASSUME Doing(o, {"port", "bind", "listen", "tell", "ported", "accept", "sending"})
        PROVE  thread[c].file = op[o].file
    BY <1>c, <2>1 DEF DownloadOf
  <2>2. thread'[c].pc \in {"port", "bind", "listen", "tell", "ported", "accept", "sending"}
    BY <1>4, <1>c DEF Now
  <2>3. CASE thread'[c] = thread[c]
    BY <1>4, <1>c, <2>1, <2>3 DEF Doing, Now
  <2>4. CASE getFilefd(c) /\ Doing(o, {"retr"}) /\ thread'[c].file = op[o].file
    BY <2>4
  <2>5. CASE Doing(o, {"port", "bind", "listen", "tell", "ported", "accept",
                       "sending"}) /\ SameFile(c)
    BY <2>1, <2>5 DEF SameFile
  <2> QED BY <1>0, <1>2, <1>4, <1>c, <2>2, <2>3, <2>4, <2>5 DEF Advances, Doing, Now, Places
\* The data connection, but for what the thread sends.
<1>5. ASSUME ~(retr(c) /\ Doing(o, {"sending"}))
      PROVE  \/ link'[o] = link[o]
             \/ Accepts(c, o) /\ Doing(o, {"accept"})
             \/ /\ \E r \in replies : r.op = o /\ r.to = c /\ Opens(r, o)
                /\ link[o].st = "none"
             \/ Connects(o) \/ Refused(o) \/ Copies(o) \/ CopiesEnd(o)
  <2>1. ASSUME NEW r \in replies, r.op = o, Opens(r, o) PROVE link[o].st = "none"
    <3>1. Told(o)
      BY <2>1 DEF Opens, openLocal, Told
    <3> QED BY <1>0, <3>1 DEF ControlOf
  <2>2. ~Sends(c, o) \/ ~Doing(o, {"sending"})
    BY <1>5 DEF Sends
  <2>3. ~Doing(o, {"reading"})
    BY <1>2 DEF Doing
  <2> QED BY <1>0, <1>2, <1>c, <2>1, <2>2, <2>3 DEF LinkOf
<1>6. /\ link[o].backAll => link[o].st = "open"
      /\ link[o].st = "read" => link[o].back = <<>>
  BY DEF DownloadOf
<1>7. /\ link'[o].backAll => link'[o].st = "open"
      /\ link'[o].st = "read" => link'[o].back = <<>>
  <2>1. CASE retr(c) /\ Doing(o, {"sending"})
    BY <1>3, <2>1 DEF Sends, Turns
  <2>2. CASE ~(retr(c) /\ Doing(o, {"sending"}))
    <3>1. CASE link'[o] = link[o]
      BY <1>6, <3>1
    <3>2. CASE Accepts(c, o)
      BY <1>6, <3>2 DEF Accepts, Turns, SameBack
    <3>3. ASSUME NEW r \in replies, Opens(r, o), link[o].st = "none"
          PROVE  ~link'[o].backAll /\ link'[o].st = "opening"
      BY <1>6, <3>3 DEF Opens, SameBack
    <3>4. CASE Connects(o) \/ Refused(o)
      BY <1>6, <3>4 DEF Connects, Refused, Turns, SameBack
    <3>5. CASE Copies(o)
      BY <1>6, <3>5 DEF Copies, Turns
    <3>6. CASE CopiesEnd(o)
      BY <3>6 DEF CopiesEnd, Emptied, Empty
    <3> QED BY <1>5, <2>2, <3>1, <3>2, <3>3, <3>4, <3>5, <3>6
  <2> QED BY <2>1, <2>2
<1>8. PICK a \in Source(o) :
        \/ Hit(Who(a.op))
        \/ /\ Doing(o, {"sending"}) => thread[c].pos \in {0, 1}
           /\ copy[o] \o link[o].back = SubSeq(Whole(a.op), 1, Got(o))
  BY <1>c DEF DownloadOf
<1>9. /\ a \in Source(o)' /\ a.op \in Asked /\ a.file = op[o].file
      /\ Who(a.op)' = Who(a.op) /\ Whole(a.op)' = Whole(a.op)
      /\ Hit(Who(a.op)) => Hit(Who(a.op))'
  <2>1. a \in announced /\ a.file = op[o].file
    BY DEF Source
  <2>2. a.op \in Asked
    BY <2>1 DEF Shape
  <2> QED BY <1>0, <2>1, <2>2, HitKept, Mono DEF Source, Whole, Hit
<1>10. ASSUME ~Hit(Who(a.op))'
       PROVE  /\ Now(o, {"sending"}) => thread'[c].pos \in {0, 1}
              /\ copy'[o] \o link'[o].back = SubSeq(Whole(a.op), 1, Got(o)')
  <2> DEFINE w == Whole(a.op)
  <2>1. /\ ~Hit(Who(a.op))
        /\ Doing(o, {"sending"}) => thread[c].pos \in {0, 1}
        /\ copy[o] \o link[o].back = SubSeq(w, 1, Got(o))
    BY <1>8, <1>9, <1>10
  <2>2. disk[op[o].file] = w
    <3>1. a \in announced /\ op[a.op].kind = "stor"
      BY DEF Source, NameInv
    <3>2. OverOf(a.op)
      BY <1>9, <2>1, <3>1 DEF UploadInv
    <3> QED BY <1>9, <3>1, <3>2 DEF OverOf, Done
  <2>3. /\ w \in Seq(Chunk) /\ Len(w) = 2
        /\ \A n \in 0 .. 1 : w[n + 1] \in Chunk
                             /\ SubSeq(w, 1, n + 1) = Append(SubSeq(w, 1, n), w[n + 1])
    <3>1. Who(a.op) \in Clients /\ a.op \in Ops
      BY <1>9 DEF Shape, Asked
    <3> QED BY <3>1, TwoChunks DEF Whole
  <2>4. /\ copy[o] \in Seq(Chunk) /\ link[o].back \in Seq(Chunk)
        /\ copy'[o] \in Seq(Chunk) /\ link'[o].back \in Seq(Chunk)
    BY <1>0 DEF TypeOK, Link
  <2> HIDE DEF w
  <2>5. CASE retr(c) /\ Doing(o, {"sending"})
    <3>1. PICK p \in {0, 1} : p = thread[c].pos
      BY <2>1, <2>5
    <3>2. Sends(c, o) /\ copy' = copy /\ link[o].st = "open" /\ ~link[o].backAll
      BY <1>3, <2>5
    <3>3. thread[c].file = op[o].file
      <4>1. Doing(o, {"port", "bind", "listen", "tell", "ported", "accept", "sending"})
        BY <2>5 DEF Doing
      <4> QED BY <1>c, <4>1 DEF DownloadOf
    <3>4. link[o].by \notin gone
      BY <1>0, <1>c, <3>2 DEF ControlOf, Shape
    <3>5. /\ link'[o].back = Append(link[o].back, w[p + 1])
          /\ link'[o].backAll <=> p = 1
          /\ p = 1 => thread'[c].pc = "next"
          /\ p = 0 => thread'[c].pos = 1
          /\ link'[o].st = "open"
      <4>1. p < Len(w) /\ (p + 1 >= Len(w) <=> p = 1)
        BY <2>3
      <4>2. disk[thread[c].file] = w /\ thread[c].pos = p
        BY <2>2, <3>1, <3>3
      <4>3. /\ link'[o].back = Append(link[o].back, w[p + 1])
            /\ link'[o].backAll <=> p + 1 >= Len(w)
            /\ p + 1 >= Len(w) => Finishes(c, "sending")
            /\ ~(p + 1 >= Len(w)) => thread'[c].pos = p + 1
        <5>1. /\ link'[o].back = IF p < Len(w) /\ link[o].by \notin gone
                                 THEN Append(link[o].back, w[p + 1]) ELSE link[o].back
              /\ link'[o].backAll =
                    (p + 1 >= Len(w) \/ ~(p < Len(w) /\ link[o].by \notin gone))
              /\ IF p + 1 >= Len(w) \/ ~(p < Len(w) /\ link[o].by \notin gone)
                 THEN Finishes(c, "sending") ELSE thread'[c].pos = p + 1
          BY <3>2, <4>2 DEF Sends
        <5> QED BY <3>4, <4>1, <5>1
      <4>4. link'[o].st = "open"
        BY <3>2 DEF Sends, Turns
      <4>5. Finishes(c, "sending") => thread'[c].pc = "next"
        BY DEF Finishes, Idle
      <4>6. p = 0 => p + 1 = 1 /\ p # 1
        OBVIOUS
      <4> QED BY <3>1, <4>1, <4>3, <4>4, <4>5, <4>6
    <3>6. Got(o) = p
      BY <1>c, <2>5, <3>1, <3>2 DEF Got
    <3>7. Now(o, {"sending"}) <=> p = 0
      <4>1. p = 1 => ~Now(o, {"sending"})
        BY <1>c, <3>5 DEF Now
      <4>2. p = 0 => Now(o, {"sending"})
        <5>1. p = 0 => ~link'[o].backAll /\ thread'[c] # thread[c]
          <6>1. p = 0 => thread'[c].pos # thread[c].pos
            BY <3>1, <3>5
          <6> QED BY <3>5, <6>1
        <5>2. ~Doing(o, {"retr", "port", "bind", "listen", "tell", "ported", "accept"})
          BY <2>5 DEF Doing
        <5>3. Doing(o, Places)
          BY <2>5 DEF Doing, Places
        <5> QED BY <1>0, <1>2, <1>c, <2>5, <5>1, <5>2, <5>3 DEF Advances, Doing
      <4> QED BY <4>1, <4>2
    <3>8. Got(o)' = p + 1
      BY <1>0, <1>1, <3>5, <3>7 DEF Got
    <3>9. copy[o] \o Append(link[o].back, w[p + 1]) = Append(copy[o] \o link[o].back, w[p + 1])
      <4> DEFINE x == copy[o]
                 y == link[o].back
      <4>1. x \in Seq(Chunk) /\ y \in Seq(Chunk) /\ w[p + 1] \in Chunk
        BY <2>3, <2>4, <3>1
      <4> HIDE DEF x, y
      <4>2. x \o Append(y, w[p + 1]) = Append(x \o y, w[p + 1])
        BY <4>1, AppendedLater
      <4> QED BY <4>2 DEF x, y
    <3>10. SubSeq(w, 1, p + 1) = Append(SubSeq(w, 1, p), w[p + 1])
      BY <2>3
    <3> QED BY <2>1, <3>2, <3>5, <3>6, <3>7, <3>8, <3>9, <3>10 DEF w
  <2>6. CASE ~(retr(c) /\ Doing(o, {"sending"}))
    <3>1. \/ Now(o, {"sending"}) /\ Doing(o, {"sending"}) /\ thread'[c].pos = thread[c].pos
          \/ ~Now(o, {"sending"}) /\ ~Doing(o, {"sending"})
          \/ /\ Now(o, {"sending"}) /\ ~Doing(o, {"sending"}) /\ accept1(c)
             /\ link[o].st = "backlog" /\ link'[o].st = "open" /\ thread'[c].pos = 0
      <4>1. CASE thread'[c] = thread[c]
        BY <1>c, <4>1 DEF Now, Doing
      <4>2. CASE thread'[c] # thread[c] /\ Doing(o, {"sending"})
        <5>1. ~Doing(o, {"retr", "port", "bind", "listen", "tell", "ported", "accept",
                         "stor", "open"}) /\ Doing(o, Places)
          BY <4>2 DEF Doing, Places
        <5> QED BY <1>0, <1>c, <2>6, <4>2, <5>1 DEF Advances, Doing
      <4>3. CASE ~Doing(o, {"sending"})
        <5>1. Doing(o, {"accept"}) =>
                 ~Doing(o, {"port", "bind", "listen", "tell", "ported", "stor", "open",
                            "retr"})
          BY DEF Doing
        <5> QED BY <1>0, <1>c, <4>1, <4>3, <5>1 DEF Advances, Doing, Now, Places
      <4> QED BY <4>1, <4>2, <4>3
    <3>2. CASE link'[o] = link[o] /\ copy'[o] = copy[o]
      <4>1. Got(o)' = Got(o)
        BY <1>0, <1>1, <1>c, <3>1, <3>2 DEF Got
      <4> QED BY <2>1, <3>1, <3>2, <4>1 DEF w
    <3>3. CASE Copies(o)
      <4>1. /\ link'[o].st = link[o].st /\ (link'[o].backAll <=> link[o].backAll)
            /\ link[o].back # <<>> /\ link'[o].back = Tail(link[o].back)
            /\ copy'[o] = Append(copy[o], Head(link[o].back))
        BY <1>0, <3>3 DEF Copies, Turns, TypeOK
      <4>2. Got(o)' = Got(o)
        BY <1>0, <1>1, <1>c, <3>1, <4>1 DEF Got
      <4>3. Append(copy[o], Head(link[o].back)) \o Tail(link[o].back) = copy[o] \o link[o].back
        <5> DEFINE x == copy[o]
                   y == link[o].back
        <5>1. x \in Seq(Chunk) /\ y \in Seq(Chunk) /\ y # <<>>
          BY <2>4, <4>1
        <5> HIDE DEF x, y
        <5>2. Append(x, Head(y)) \o Tail(y) = x \o y
          BY <5>1, HeadMoved
        <5> QED BY <5>2 DEF x, y
      <4> QED BY <2>1, <3>1, <4>1, <4>2, <4>3 DEF w
\* Nothing has been sent, and nothing is.
    <3>4. ASSUME copy'[o] = copy[o], link'[o].back = link[o].back, ~Doing(o, {"sending"}),
                 ~link[o].backAll, ~link'[o].backAll, link[o].st # "read", link'[o].st # "read"
          PROVE  /\ Now(o, {"sending"}) => thread'[c].pos \in {0, 1}
                 /\ copy'[o] \o link'[o].back = SubSeq(w, 1, Got(o)')
      <4>1. Got(o) = 0
        BY <3>4 DEF Got
      <4>2. Now(o, {"sending"}) => thread'[c].pos = 0
        BY <3>1, <3>4
      <4>3. Got(o)' = 0
        BY <1>0, <1>1, <3>4, <4>2 DEF Got
      <4> QED BY <2>1, <3>4, <4>1, <4>2, <4>3
    <3>5. Doing(o, {"sending"}) => link[o].st = "open" /\ ~link[o].backAll
      <4>1. Doing(o, {"sending"}) => Doing(o, {"reading", "sending"})
        BY DEF Doing
      <4> QED BY <1>0, <4>1 DEF ControlOf
    <3>6. CASE copy'[o] = copy[o] /\ Accepts(c, o)
      <4>1. /\ link[o].st = "backlog" /\ link'[o].st = "open" /\ link'[o].back = link[o].back
            /\ link'[o].backAll = link[o].backAll
        BY <3>6 DEF Accepts, Turns, SameBack
      <4> QED BY <1>6, <3>4, <3>5, <3>6, <4>1 DEF w
    <3>7. ASSUME copy'[o] = copy[o], NEW r \in replies, Opens(r, o), link[o].st = "none"
          PROVE  /\ Now(o, {"sending"}) => thread'[c].pos \in {0, 1}
                 /\ copy'[o] \o link'[o].back = SubSeq(w, 1, Got(o)')
      <4>1. /\ link'[o].st = "opening" /\ link'[o].back = link[o].back
            /\ link'[o].backAll = link[o].backAll
        BY <3>7 DEF Opens, SameBack
      <4> QED BY <1>6, <3>4, <3>5, <3>7, <4>1
    <3>8. CASE copy'[o] = copy[o] /\ (Connects(o) \/ Refused(o))
      <4>1. /\ link[o].st \in {"opening", "backlog"} /\ link'[o].st \in {"backlog",
                                                                         "closed"}
            /\ link'[o].back = link[o].back /\ link'[o].backAll = link[o].backAll
        BY <3>8 DEF Connects, Refused, Turns, SameBack
      <4> QED BY <1>6, <3>4, <3>5, <3>8, <4>1 DEF w
    <3>9. CASE CopiesEnd(o)
      <4>1. /\ link[o].back = <<>> /\ link[o].backAll /\ link'[o].st = "read"
            /\ link'[o].back = <<>> /\ copy' = copy
        BY <3>9 DEF CopiesEnd, Emptied, Turns, Empty
      <4>2. Got(o) = 2 /\ Got(o)' = 2
        BY <4>1 DEF Got
      <4>3. ~Now(o, {"sending"})
        BY <3>1, <3>5, <4>1
      <4> QED BY <2>1, <4>1, <4>2, <4>3 DEF w
    <3> QED BY <1>0, <1>5, <2>6, <3>2, <3>3, <3>6, <3>7, <3>8, <3>9 DEF w
  <2> QED BY <2>5, <2>6
<1>11. /\ Doing(o, {"port", "bind", "listen", "tell", "ported", "accept", "sending"})' <=>
             Now(o, {"port", "bind", "listen", "tell", "ported", "accept", "sending"})
       /\ Doing(o, {"sending"})' <=> Now(o, {"sending"})
       /\ thread'[Who(o)'] = thread'[c]
  BY <1>0, <1>1
<1> QED BY <1>0, <1>4, <1>7, <1>9, <1>10, <1>11 DEF DownloadOf

LEMMA DownloadStep ==
    ASSUME TypeOK, TypeOK', Shape, Shape', MixInv, FreshInv, ControlInv, NameInv, UploadInv,
           DownloadInv, [Next]_vars
    PROVE  DownloadInv'
<1> SUFFICES ASSUME NEW o \in Asked', ~Hit(Who(o))', op'[o].kind = "retr"
             PROVE  DownloadOf(o)'
  BY DEF DownloadInv
<1>1. CASE o \in Asked
  <2>1. ~Hit(Who(o)) /\ op[o].kind = "retr"
    BY <1>1, HitKept
  <2>2. DownloadOf(o)
    BY <1>1, <2>1 DEF DownloadInv
  <2> QED BY <1>1, <2>1, <2>2, DownloadKept
<1>2. CASE o \notin Asked
  <2>1. link'[o] = NoLink /\ copy'[o] = <<>> /\ ~Doing(o, Places)'
    BY <1>2, NewTransfer
  <2>2. ~Doing(o, {"port", "bind", "listen", "tell", "ported", "accept",
                   "sending"})' /\ ~Doing(o, {"sending"})'
    BY <2>1 DEF Doing, Places
  <2>3. PICK a \in announced' : a.file = op'[o].file
    <3>1. PICK c \in Clients, k \in {"stor", "retr"}, f \in Files \cup {NoFile} :
            Asks(c, o, k, f) /\ op'[o].kind = k /\ op'[o].file = f
      BY <1>2, NewTransfer
    <3> QED BY <3>1 DEF Asks
  <2>4. a \in Source(o)'
    BY <2>3 DEF Source
  <2>5. SubSeq(Whole(a.op)', 1, 0) = <<>>
    <3>1. Who(a.op)' \in Clients /\ a.op \in Ops
      BY <2>3 DEF Shape, Asked
    <3> QED BY <3>1, TwoChunks DEF Whole
  <2>6. link'[o].back = <<>> /\ ~link'[o].backAll /\ link'[o].st = "none"
    BY <2>1 DEF NoLink, Empty
  <2>7. Got(o)' = 0
    BY <2>2, <2>6 DEF Got
  <2>8. copy'[o] \o link'[o].back = SubSeq(Whole(a.op)', 1, Got(o)')
    BY <2>1, <2>5, <2>6, <2>7
  <2> QED BY <2>2, <2>4, <2>6, <2>8 DEF DownloadOf
<1> QED BY <1>1, <1>2

----------------------------------------------------------------------------
(***************************************************************************)
(* Files stay whole.                                                       *)
(***************************************************************************)
LEMMA InitFiles == Init => NameInv /\ UploadInv /\ DownloadInv
<1> SUFFICES ASSUME Init PROVE NameInv /\ UploadInv /\ DownloadInv
  OBVIOUS
<1>1. TypeOK /\ Shape
  BY InitOK
<1>2. /\ \A o \in Asked : o = 1 /\ op[o].kind = "stor"
      /\ \A d \in Clients : thread[d].pc = "idle"
      /\ replies = {} /\ Queued = {}
      /\ \A o \in Ops : link[o] = NoLink
      /\ \A o \in Asked : ~Doing(o, Places)
  BY InitQuiet
<1>3. PICK n \in Names :
        /\ op[1].file = <<n, 0>> /\ op[1].kind = "stor"
        /\ exists = {<<n, 0>>} /\ announced = {[op |-> 1, file |-> <<n, 0>>]}
        /\ disk = [f \in Files |-> IF f = <<n, 0>> THEN Whole(1) ELSE <<>>]
  <2>1. 1 \in Ops
    BY TransferAssumption DEF Ops
  <2>2. PICK n \in Names :
          LET c == CHOOSE c \in Clients : TRUE
          IN  /\ op = [o \in Ops |-> IF o = 1 THEN [who |-> c, kind |-> "stor", file |-> <<n, 0>>]
                                     ELSE [who |-> None, kind |-> "none", file |-> NoFile]]
              /\ exists = {<<n, 0>>} /\ announced = {[op |-> 1, file |-> <<n, 0>>]}
              /\ disk = [f \in Files |-> IF f = <<n, 0>> THEN Whole(1) ELSE <<>>]
    BY Zenon DEF Init
  <2>3. op[1].file = <<n, 0>> /\ op[1].kind = "stor"
    BY <2>1, <2>2
  <2> QED BY <2>2, <2>3
<1>4. \A d \in Clients : ~Writing(d) /\ thread[d].pc # "open"
  BY <1>2 DEF Writing
<1>5. NameInv
  BY <1>2, <1>3, <1>4 DEF NameInv
<1>6. DownloadInv
  BY <1>2 DEF DownloadInv
<1>7. ASSUME NEW o \in Asked PROVE WritingOf(o) /\ OverOf(o)
  <2>1. o = 1 /\ o \in Ops /\ Who(o) \in Clients
    BY <1>1, <1>2 DEF Asked, Shape
  <2>2. link[o].st = "none" /\ link[o].n = 0 /\ link[o].sent = <<>> /\ ~link[o].sentAll
    BY <1>2, <2>1 DEF NoLink, Empty
  <2>3. SubSeq(Whole(o), 1, 0) = <<>>
    BY <2>1, TwoChunks DEF Whole
  <2>4. ~Doing(o, {"open", "port", "bind", "listen", "tell", "ported", "accept", "reading"})
        /\ ~Doing(o, {"port", "bind", "listen", "tell", "ported", "accept", "reading"})
        /\ ~Doing(o, {"port", "bind", "listen", "tell", "ported",
                      "accept"}) /\ ~Doing(o, {"reading"}) /\ ~Doing(o, {"info"})
    BY <1>2 DEF Doing, Places
  <2>5. WritingOf(o)
    BY <2>2, <2>3, <2>4 DEF WritingOf
  <2>6. Done(<<n, 0>>, 1)
    <3>1. <<n, 0>> \in Files
      BY <1>1, <1>3 DEF TypeOK
    <3> QED BY <1>3, <1>4, <3>1 DEF Done
  <2>7. \A a \in announced : a.file = <<n, 0>>
    BY <1>3
  <2>8. OverOf(o)
    BY <1>2, <2>1, <2>4, <2>6, <2>7 DEF OverOf
  <2> QED BY <2>5, <2>8
<1> QED BY <1>5, <1>6, <1>7 DEF UploadInv

LEMMA TransferInductive == (Init => TransferInv) /\ (TransferInv /\ [Next]_vars =>
   TransferInv')
<1>1. Init => TransferInv
  BY WaitInductive, InitFiles DEF TransferInv, WaitIInv
<1>2. ASSUME TransferInv, [Next]_vars PROVE TransferInv'
  <2>1. WaitIInv /\ WaitIInv'
    BY <1>2, WaitInductive DEF TransferInv, WaitIInv
  <2>2. /\ TypeOK /\ Shape /\ OrderInv /\ MixInv /\ FreshInv /\ ControlInv
        /\ NameInv /\ UploadInv /\ DownloadInv
        /\ TypeOK' /\ Shape' /\ OrderInv' /\ MixInv' /\ ControlInv'
    BY <1>2, <2>1 DEF TransferInv, WaitIInv
  <2>3. NameInv'
    BY <1>2, <2>2, NameStep
  <2>4. UploadInv'
    BY <1>2, <2>2, UploadStep
  <2>5. DownloadInv'
    BY <1>2, <2>2, DownloadStep
  <2> QED BY <2>1, <2>3, <2>4, <2>5 DEF TransferInv, WaitIInv
<1> QED BY <1>1, <1>2

\* Transfer's FilesIntact: what is on disk and in the stream of an upload is
\* what its client has sent, from its first byte until the FILE record, and
\* what a download has is what the server has read of such a file
\* (handleFile.cc:50-84).
THEOREM FilesStayWhole == Spec => []FilesIntact
<1>1. TransferInv => FilesIntact
  <2> SUFFICES ASSUME TransferInv PROVE FilesIntact
    OBVIOUS
  <2>0. TypeOK /\ Shape /\ FreshInv /\ NameInv /\ UploadInv /\ DownloadInv
    BY DEF TransferInv
  <2>1. ASSUME NEW a \in announced, ~Hit(Who(a.op)) PROVE disk[a.file] = Whole(a.op)
    <3>1. a.op \in Asked /\ op[a.op].kind = "stor"
      BY <2>0 DEF Shape, NameInv
    <3>2. OverOf(a.op)
      BY <2>0, <2>1, <3>1 DEF UploadInv
    <3> QED BY <3>2 DEF OverOf, Done
  <2>2. ASSUME NEW o \in Ops, link[o].st = "read", ~Hit(Who(o))
        PROVE  \E a \in announced :
                  /\ a.file = op[o].file
                  /\ Hit(Who(a.op)) \/ copy[o] = Whole(a.op)
    <3>1. o \in Asked
      BY <2>0, <2>2 DEF FreshInv, NoLink, Empty
    <3>2. op[o].kind = "retr"
      <4>1. op[o].kind \in {"stor", "retr"}
        BY <2>0, <3>1 DEF TypeOK, Asked
      <4>2. op[o].kind # "stor"
        BY <2>0, <2>2, <3>1 DEF UploadInv, WritingOf
      <4> QED BY <4>1, <4>2
    <3>3. DownloadOf(o)
      BY <2>0, <2>2, <3>1, <3>2 DEF DownloadInv
    <3>4. PICK a \in announced :
            /\ a.file = op[o].file
            /\ Hit(Who(a.op)) \/ copy[o] \o link[o].back = SubSeq(Whole(a.op), 1, Got(o))
      BY <3>3 DEF DownloadOf, Source
    <3>5. link[o].back = <<>> /\ Got(o) = 2
      BY <2>2, <3>3 DEF DownloadOf, Got
    <3>6. copy[o] \o <<>> = copy[o]
      <4>1. copy[o] \in Seq(Chunk)
        BY <2>0 DEF TypeOK
      <4> QED BY <4>1
    <3>7. SubSeq(Whole(a.op), 1, 2) = Whole(a.op)
      <4>1. Who(a.op) \in Clients /\ a.op \in Ops
        BY <2>0 DEF Shape, Asked
      <4> QED BY <4>1, TwoChunks DEF Whole
    <3> QED BY <3>4, <3>5, <3>6, <3>7
  <2> QED BY <2>1, <2>2 DEF FilesIntact
<1> QED BY <1>1, TransferInductive, PTL DEF Spec
============================================================================
