---------------------------- MODULE GroupProofs ----------------------------
(***************************************************************************)
(* Proofs about Group, for any users and any numbers of requests,          *)
(* messages, tasks and faults.                                             *)
(***************************************************************************)
EXTENDS Group, FiniteSetTheorems, TLAPS

----------------------------------------------------------------------------
(***************************************************************************)
(* Types.                                                                  *)
(***************************************************************************)
Later == {"own", "other", "mine", "theirs", "push", "my", "grop", "lrem",
          "rank", "rank1", "rank2", "rank3", "quit", "members", "drop", "target", "write",
          "fetch", "reset", "flag", "store", "each", "incr"}
Screens == {"menu", "wait", "confirm", "chat", "command", "stuck"}

\* Whom a task is about.
Aims(t) ==
    /\ t.op \in {"invite", "agree", "refuse", "del", "upl", "dnl"} => t.v \in Users
    /\ t.op = "create" => t.v # t.u
    /\ At(t, {"create"}, "other") => t.v \in Users
    /\ At(t, {"message"}, "incr") => t.v \in t.todo

RecordsOK ==
    /\ grop \in [Users -> Ranks \cup {None}]
    /\ mygp \in [Users -> Nat \cup {None}]
    /\ asks \subseteq Users
    /\ invites \subseteq Users \X Users
    /\ regp \in Nat
    /\ chatStatus_ \subseteq Users
ClientsOK ==
    /\ online \subseteq Users
    /\ screen \in [Users -> Screens]
    /\ requests \in [Users -> Nat]
    /\ words \in [Users -> Nat]
    /\ faults \in Nat
TasksOK ==
    /\ tasks \subseteq Task /\ IsFiniteSet(tasks)
    /\ \A t \in tasks : Aims(t)
    /\ storeMtx2 \in Task \cup {None}
HistoryOK ==
    /\ unseen \in [Users -> Nat]
    /\ disturbed \in BOOLEAN /\ outOfDate \in BOOLEAN
    /\ uncounted \subseteq Users \cup {None}
    /\ ghosts \subseteq Users
TypeOK == RecordsOK /\ ClientsOK /\ TasksOK /\ HistoryOK

----------------------------------------------------------------------------
\* The task t at another place of its handler.
Onward(t, step) == [t EXCEPT !.step = step]

LEMMA OnwardFields ==
    ASSUME NEW t \in Task, NEW step \in Later
    PROVE  /\ Onward(t, step) \in Task
           /\ Onward(t, step).op = t.op /\ Onward(t, step).u = t.u
           /\ Onward(t, step).v = t.v /\ Onward(t, step).id = t.id
           /\ Onward(t, step).rank = t.rank /\ Onward(t, step).todo = t.todo
           /\ Onward(t, step).n = t.n /\ Onward(t, step).step = step
BY DEF Onward, Task, Later

LEMMA Fields ==
    ASSUME NEW t \in Task
    PROVE  /\ t.u \in Users /\ t.v \in Users \cup {None} /\ t.id \in Nat
           /\ t.rank \in Ranks \cup {None} /\ t.todo \in SUBSET Users /\ t.n \in Nat
           /\ t.step \in Later \cup {"begin"}
           /\ t.op \in {"ask", "invite", "agree", "refuse", "accept", "decline",
                        "create", "leave", "leave2", "del", "upl", "dnl",
                        "chat", "history", "endchat", "message"}
BY DEF Task, Later

\* r is t at another place; what a handler changes of its task.
Moves(t, r) ==
    /\ r \in Task /\ r.op = t.op /\ r.u = t.u /\ r.id = t.id /\ r.step \in Later

\* The changes of a task that are more than a new place.
Aimed(t, v, step) == [t EXCEPT !.v = v, !.step = step]
Listed(t, step, todo) == [t EXCEPT !.step = step, !.todo = todo]
Ranked(t, rank) == [t EXCEPT !.step = "target", !.rank = rank]
Counted(t, v, n) == [t EXCEPT !.step = "incr", !.v = v, !.n = n]

LEMMA AimedFields ==
    ASSUME NEW t \in Task, NEW v \in Users, NEW s \in Later
    PROVE  /\ Moves(t, Aimed(t, v, s)) /\ Aimed(t, v, s).v = v
           /\ Aimed(t, v, s).step = s
<1>1. Aimed(t, v, s) \in Task
  BY DEF Task, Aimed, Later
<1>2. /\ Aimed(t, v, s).op = t.op /\ Aimed(t, v, s).u = t.u
      /\ Aimed(t, v, s).id = t.id /\ Aimed(t, v, s).v = v
      /\ Aimed(t, v, s).step = s
  BY DEF Task, Aimed
<1> QED BY <1>1, <1>2 DEF Moves

LEMMA ListedFields ==
    ASSUME NEW t \in Task, NEW s \in Later, NEW todo \in SUBSET Users
    PROVE  /\ Moves(t, Listed(t, s, todo)) /\ Listed(t, s, todo).v = t.v
           /\ Listed(t, s, todo).step = s /\ Listed(t, s, todo).todo = todo
           /\ Listed(t, s, todo).n = t.n
           /\ t.step = s => [t EXCEPT !.todo = todo] = Listed(t, s, todo)
<1>1. Listed(t, s, todo) \in Task
  BY DEF Task, Listed, Later
<1>2. /\ Listed(t, s, todo).op = t.op /\ Listed(t, s, todo).u = t.u
      /\ Listed(t, s, todo).id = t.id /\ Listed(t, s, todo).v = t.v
      /\ Listed(t, s, todo).step = s /\ Listed(t, s, todo).todo = todo
      /\ Listed(t, s, todo).n = t.n
  BY DEF Task, Listed
<1>3. t.step = s => [t EXCEPT !.todo = todo] = Listed(t, s, todo)
  BY DEF Task, Listed
<1> QED BY <1>1, <1>2, <1>3 DEF Moves

LEMMA RankedFields ==
    ASSUME NEW t \in Task, NEW rank \in Ranks \cup {None}
    PROVE  /\ Moves(t, Ranked(t, rank)) /\ Ranked(t, rank).v = t.v
           /\ Ranked(t, rank).step = "target" /\ Ranked(t, rank).rank = rank
BY DEF Task, Later, Moves, Ranked

LEMMA CountedFields ==
    ASSUME NEW t \in Task, NEW v \in Users, NEW n \in Nat
    PROVE  /\ Moves(t, Counted(t, v, n)) /\ Counted(t, v, n).v = v
           /\ Counted(t, v, n).step = "incr" /\ Counted(t, v, n).n = n
           /\ Counted(t, v, n).todo = t.todo
BY DEF Task, Later, Moves, Counted

\* What Note adds to the history.
LEMMA Noted ==
    ASSUME HistoryOK, TasksOK, NEW t \in tasks, Note(t)
    PROVE  /\ disturbed' \in BOOLEAN /\ uncounted' \subseteq Users \cup {None}
           /\ disturbed => disturbed'
           /\ uncounted \subseteq uncounted'
           /\ \A s \in tasks \ {t} : s.step # "begin" =>
                 /\ "message" \in {s.op, t.op} => Touched(t) \subseteq uncounted'
                 /\ \A a \in Leaving, b \in Joining \cup Ranking \cup Counting :
                       {s.op, t.op} = {a, b} => disturbed'
                 /\ \A b \in Joining \cup Ranking :
                       {s.op, t.op} = {"create", b} => disturbed'
                 /\ \A a \in Ranking, b \in Joining : {s.op, t.op} = {a, b} => disturbed'
<1>1. \A s \in tasks : Touched(s) \subseteq Users \cup {None}
  <2>1. TAKE s \in tasks
  <2>2. s \in Task
    BY DEF TasksOK
  <2>3. s.u \in Users /\ s.v \in Users \cup {None}
    BY <2>2, Fields
  <2> QED BY <2>3 DEF Touched, Target
<1>2. /\ disturbed' \in BOOLEAN /\ (disturbed => disturbed')
  BY Zenon DEF Note, HistoryOK
<1>3. uncounted' = uncounted \cup
          UNION {Touched(s) \cup Touched(t) :
                    s \in {r \in Beside(t) : "message" \in {r.op, t.op}}}
  BY DEF Note
<1>4. uncounted' \subseteq Users \cup {None} /\ uncounted \subseteq uncounted'
  BY <1>1, <1>3 DEF HistoryOK, Beside
<1>5. ASSUME NEW s \in tasks \ {t}, s.step # "begin"
      PROVE  /\ "message" \in {s.op, t.op} => Touched(t) \subseteq uncounted'
             /\ \A a \in Leaving, b \in Joining \cup Ranking \cup Counting :
                   {s.op, t.op} = {a, b} => disturbed'
             /\ \A b \in Joining \cup Ranking :
                   {s.op, t.op} = {"create", b} => disturbed'
             /\ \A a \in Ranking, b \in Joining : {s.op, t.op} = {a, b} => disturbed'
  <2>1. s \in Beside(t)
    BY <1>5 DEF Beside
  <2>2. "message" \in {s.op, t.op} => Touched(t) \subseteq uncounted'
    BY <1>3, <2>1
  <2>3. ASSUME NEW a \in {s.op, t.op},
               \/ /\ a \in Leaving
                  /\ {s.op, t.op} \ Leaving # {}
                  /\ {s.op, t.op} \subseteq
                         Leaving \cup Joining \cup Ranking \cup Counting
               \/ /\ a = "create" \/ {s.op, t.op} \cap Ranking # {}
                  /\ a \in Joining
                  /\ {s.op, t.op} \subseteq Joining \cup Ranking
        PROVE  disturbed'
    BY <2>1, <2>3 DEF Note
  <2>4. ASSUME NEW a \in Leaving, NEW b \in Joining \cup Ranking \cup Counting,
               {s.op, t.op} = {a, b}
        PROVE  disturbed'
    <3>1. b \notin Leaving
      BY DEF Leaving, Joining, Ranking, Counting
    <3> QED BY <2>3, <2>4, <3>1
  <2>5. ASSUME NEW b \in Joining \cup Ranking, {s.op, t.op} = {"create", b}
        PROVE  disturbed'
    <3>1. "create" \in Joining
      BY DEF Joining
    <3> QED BY <2>3, <2>5, <3>1
  <2>6. ASSUME NEW a \in Ranking, NEW b \in Joining, {s.op, t.op} = {a, b}
        PROVE  disturbed'
    BY <2>3, <2>6
  <2> QED BY <2>2, <2>4, <2>5, <2>6
<1> QED BY <1>2, <1>4, <1>5

----------------------------------------------------------------------------
\* A step that ends a task or moves it on, and what it leaves of the clients.
Locks(r) == r.step = "incr" => storeMtx2 = None /\ storeMtx2' = r
Goes(t) == \E r \in Task : Moves(t, r) /\ Aims(r) /\ Locks(r) /\ Replace(t, r)

\* A client waits no longer for a task that ends, unless it never did.
Awaited == {"wait", "command"}
Unawaited == {"create", "leave2", "endchat", "message"}
Answers(t) ==
    \/ t.op \in Unawaited
    \/ t.u \in online /\ requests[t.u] = t.id + 1 => screen'[t.u] \notin Awaited
Shows ==
    /\ online' = online /\ requests' = requests
    /\ \A u \in Users : screen'[u] \in Awaited => screen[u] \in Awaited
Step(t) ==
    ClientsOK' /\ words' = words /\ Shows /\ ((Done(t) /\ Answers(t)) \/ Goes(t))

LEMMA AnswerSteps ==
    ASSUME TypeOK, NEW t \in tasks, NEW to \in Screens \ Awaited, Answer(t, to)
    PROVE  Step(t)
<1>1. online' = online /\ requests' = requests /\ words' = words /\ faults' = faults
  BY DEF Answer
<1>2. screen' \in [Users -> Screens]
  BY DEF Answer, TypeOK, ClientsOK
<1>3. Done(t)
  BY DEF Answer
<1>4. t.u \in Users /\ screen \in [Users -> Screens]
  BY Fields DEF TypeOK, TasksOK, ClientsOK
<1>5. \A u \in Users : screen'[u] = screen[u] \/ screen'[u] = to
  BY <1>4 DEF Answer
<1>6. t.u \in online /\ requests[t.u] = t.id + 1 => screen'[t.u] \notin Awaited
  BY <1>4 DEF Answer, Awaited
<1>7. Shows /\ Answers(t)
  BY <1>1, <1>5, <1>6 DEF Shows, Answers
<1> QED BY <1>1, <1>2, <1>3, <1>7 DEF Step, TypeOK, ClientsOK

\* Where the handlers go with GoOn.
LEMMA GoOnSteps ==
    ASSUME TypeOK, NEW t \in tasks, NEW step \in Later, GoOn(t, step),
           step = "other" => t.v \in Users, step # "incr"
    PROVE  Step(t)
<1>1. t \in Task /\ Aims(t)
  BY DEF TypeOK, TasksOK
<1>2. UNCHANGED clients /\ Replace(t, Onward(t, step))
  BY DEF GoOn, Goto, Onward
<1>3. Moves(t, Onward(t, step)) /\ Aims(Onward(t, step)) /\ Locks(Onward(t, step))
  BY <1>1, OnwardFields DEF Moves, Aims, At, Locks
<1>4. Goes(t)
  BY <1>2, <1>3 DEF Goes, Moves
<1> QED BY <1>2, <1>4 DEF Step, Shows, clients, TypeOK, ClientsOK

LEMMA RestSteps ==
    ASSUME TypeOK, NEW t \in tasks, UNCHANGED clients,
           \/ Done(t) /\ t.op \in Unawaited
           \/ \E r : Moves(t, r) /\ Aims(r) /\ Locks(r) /\ Replace(t, r)
    PROVE  Step(t)
<1>1. (Done(t) /\ Answers(t)) \/ Goes(t)
  BY DEF Goes, Moves, Answers
<1> QED BY <1>1 DEF Step, Shows, clients, TypeOK, ClientsOK

\* Every step of a task but a crash of the server is one.
LEMMA TaskSteps ==
    ASSUME TypeOK, NEW t \in tasks, TaskStep(t), ~MessageCrash(t)
    PROVE  Step(t)
<1>0. /\ t \in Task /\ Aims(t) /\ t.u \in Users /\ t.v \in Users \cup {None}
      /\ t.todo \in SUBSET Users /\ t.n \in Nat
      /\ Members \in SUBSET Users
  BY Fields DEF TypeOK, TasksOK, Members
<1>1. \A to \in Screens \ Awaited : Answer(t, to) => Step(t)
  BY AnswerSteps
<1>2. \A step \in Later \ {"other", "incr"} : GoOn(t, step) => Step(t)
  BY GoOnSteps
<1>3. ASSUME End(t), t.op \in {"create", "leave2", "endchat", "message"} PROVE Step(t)
  BY <1>3, RestSteps DEF End, Unawaited
<1>4. /\ "menu" \in Screens \ Awaited /\ "confirm" \in Screens \ Awaited
      /\ "chat" \in Screens \ Awaited /\ "stuck" \in Screens \ Awaited
  BY DEF Screens, Awaited
<1>5. /\ "own" \in Later \ {"other", "incr"} /\ "mine" \in Later \ {"other", "incr"}
      /\ "theirs" \in Later \ {"other", "incr"} /\ "push" \in Later \ {"other", "incr"}
      /\ "my" \in Later \ {"other", "incr"} /\ "grop" \in Later \ {"other", "incr"}
      /\ "lrem" \in Later \ {"other", "incr"} /\ "rank" \in Later \ {"other", "incr"}
      /\ "rank1" \in Later \ {"other", "incr"} /\ "rank3" \in Later \ {"other", "incr"}
      /\ "rank2" \in Later \ {"other", "incr"} /\ "quit" \in Later \ {"other", "incr"}
      /\ "members" \in Later \ {"other", "incr"} /\ "write" \in Later \ {"other", "incr"}
      /\ "fetch" \in Later \ {"other", "incr"} /\ "reset" \in Later \ {"other", "incr"}
      /\ "flag" \in Later \ {"other", "incr"} /\ "store" \in Later \ {"other", "incr"}
  BY DEF Later
<1>6. \A r : UNCHANGED clients /\ Moves(t, r) /\ Aims(r) /\ Locks(r) /\ Replace(t, r)
              => Step(t)
  BY RestSteps
<1>7. /\ "lrem" \in Later /\ "my" \in Later /\ "drop" \in Later /\ "each" \in Later
      /\ "incr" \in Later /\ "other" \in Later
  BY DEF Later
<1>11. CASE CreateCheck(t)
  BY <1>11, <1>2, <1>3, <1>5 DEF CreateCheck, At
<1>12. CASE CreateJoin(t)
  <2>1. t.op = "create" /\ (End(t) \/ (t.v # None /\ GoOn(t, "other")))
    BY <1>12 DEF CreateJoin, At
  <2>2. ASSUME t.v # None, GoOn(t, "other") PROVE Step(t)
    BY <2>2, <1>0, <1>7, GoOnSteps
  <2> QED BY <2>1, <2>2, <1>3
<1>13. CASE AddIsGroup(t)
  BY <1>13, <1>1, <1>2, <1>4, <1>5 DEF AddIsGroup
<1>14. CASE AddMine(t)
  <2>1. GoOn(t, "push") \/ GoOn(t, "theirs") \/ Answer(t, "menu")
    BY <1>14 DEF AddMine
  <2> QED BY <2>1, <1>1, <1>2, <1>4, <1>5
<1>15. CASE AddPush(t)
  BY <1>15, <1>1, <1>4 DEF AddPush
<1>16. CASE VerifyFind(t)
  <2>1. \/ GoOn(t, "my") \/ GoOn(t, "lrem") \/ Answer(t, "menu")
        \/ \E v \in Users :
              /\ t.op \in {"accept", "decline"} /\ UNCHANGED clients
              /\ \/ Replace(t, [t EXCEPT !.v = v, !.step = "my"])
                 \/ Replace(t, [t EXCEPT !.v = v, !.step = "lrem"])
    <3>1. CASE At(t, {"agree", "refuse"}, "begin")
      BY <1>16, <3>1 DEF VerifyFind, At
    <3>2. CASE At(t, {"accept", "decline"}, "begin")
      <4>1. CASE \A v \in Users : <<t.u, v>> \notin invites
        BY <1>16, <3>2, <4>1 DEF VerifyFind, At
      <4>2. CASE ~(\A v \in Users : <<t.u, v>> \notin invites)
        <5>1. PICK v \in Users :
                 /\ Replace(t, [t EXCEPT !.v = v, !.step =
                          IF t.op = "accept" THEN "my" ELSE "lrem"])
                 /\ UNCHANGED clients
          BY <1>16, <3>2, <4>2 DEF VerifyFind, At
        <5> QED BY <5>1, <3>2 DEF At
      <4> QED BY <4>1, <4>2
    <3> QED BY <1>16, <3>1, <3>2 DEF VerifyFind
  <2>2. ASSUME NEW v \in Users, t.op \in {"accept", "decline"}, UNCHANGED clients,
               \/ Replace(t, [t EXCEPT !.v = v, !.step = "my"])
               \/ Replace(t, [t EXCEPT !.v = v, !.step = "lrem"])
        PROVE  Step(t)
    <3>1. PICK s \in {"my", "lrem"} : Replace(t, Aimed(t, v, s))
      BY <2>2 DEF Aimed
    <3> DEFINE r == Aimed(t, v, s)
    <3>2. Moves(t, r) /\ r.v = v /\ r.step = s
      BY <1>0, <1>7, AimedFields
    <3> HIDE DEF r
    <3>3. Aims(r) /\ Locks(r)
      BY <3>2, <2>2 DEF Moves, Aims, Locks, At
    <3>4. Replace(t, r)
      BY <3>1 DEF r
    <3> QED BY <3>2, <3>3, <3>4, <2>2, <1>6
  <2> QED BY <2>1, <2>2, <1>1, <1>2, <1>4, <1>5
<1>17. CASE VerifyMy(t)
  BY <1>17, <1>2, <1>5 DEF VerifyMy
<1>18. CASE VerifyGrop(t)
  BY <1>18, <1>2, <1>5 DEF VerifyGrop
<1>19. CASE VerifyLrem(t)
  BY <1>19, <1>1, <1>4 DEF VerifyLrem
<1>20. CASE LeaveCheck(t)
  <2>1. GoOn(t, "mine") \/ GoOn(t, "rank") \/ Answer(t, "stuck")
    BY <1>20 DEF LeaveCheck
  <2> QED BY <2>1, <1>1, <1>2, <1>4, <1>5
<1>21. CASE LeaveRank(t)
  <2>1. \/ GoOn(t, "rank1") \/ GoOn(t, "rank2") \/ GoOn(t, "rank3")
        \/ GoOn(t, "quit") \/ GoOn(t, "members") \/ Answer(t, "confirm")
    BY <1>21 DEF LeaveRank
  <2> QED BY <2>1, <1>1, <1>2, <1>4, <1>5
<1>22. CASE LeaveQuit(t)
  BY <1>22, <1>1, <1>4 DEF LeaveQuit
<1>23. CASE LeaveMembers(t)
  <2> DEFINE r == Listed(t, "drop", Members)
  <2>1. /\ t.op = "leave2" /\ UNCHANGED clients /\ Replace(t, r)
    BY <1>23 DEF LeaveMembers, At, Listed
  <2>2. Moves(t, r) /\ r.step = "drop"
    BY <1>0, <1>7, ListedFields
  <2> HIDE DEF r
  <2>3. Aims(r) /\ Locks(r)
    BY <2>1, <2>2 DEF Moves, Aims, Locks, At
  <2> QED BY <2>1, <2>2, <2>3, <1>6
<1>24. CASE LeaveDrop(t)
  BY <1>24, <1>3 DEF LeaveDrop, At
<1>25. CASE CmdRank(t)
  <2> DEFINE r == Ranked(t, grop[t.u])
  <2>1. /\ t.op \in {"del", "upl", "dnl"} /\ UNCHANGED clients /\ Replace(t, r)
    BY <1>25 DEF CmdRank, At, Ranked
  <2>2. grop[t.u] \in Ranks \cup {None}
    BY <1>0 DEF TypeOK, RecordsOK
  <2>3. Moves(t, r) /\ r.step = "target" /\ r.v = t.v
    BY <1>0, <2>2, RankedFields
  <2> HIDE DEF r
  <2>4. Aims(r) /\ Locks(r)
    BY <2>1, <2>3, <1>0 DEF Moves, Aims, Locks, At
  <2> QED BY <2>1, <2>3, <2>4, <1>6
<1>26. CASE CmdTarget(t)
  BY <1>26, <1>1, <1>2, <1>4, <1>5 DEF CmdTarget
<1>27. CASE CmdWrite(t)
  BY <1>27, <1>1, <1>4 DEF CmdWrite
<1>28. CASE ChatCheck(t)
  <2>1. GoOn(t, "fetch") \/ GoOn(t, "reset") \/ Answer(t, "menu")
    BY <1>28 DEF ChatCheck
  <2> QED BY <2>1, <1>1, <1>2, <1>4, <1>5
<1>29. CASE ChatReset(t)
  BY <1>29, <1>2, <1>5 DEF ChatReset
<1>30. CASE ChatFlag(t)
  BY <1>30, <1>1, <1>4 DEF ChatFlag
<1>31. CASE endChat(t)
  BY <1>31, <1>3 DEF endChat, At
<1>32. CASE MessageCheck(t)
  <2>1. CASE GoOn(t, "store")
    BY <2>1, <1>2, <1>5
  <2>2. CASE ~GoOn(t, "store")
    <3>1. /\ Done(t) /\ online' = online /\ requests' = requests
          /\ words' = words /\ faults' = faults /\ t.op = "message"
          /\ screen' = IF t.u \in online /\ screen[t.u] = "command"
                       THEN [screen EXCEPT ![t.u] = "chat"] ELSE screen
      BY <1>32, <2>2 DEF MessageCheck, At
    <3>2. screen' \in [Users -> Screens]
          /\ \A u \in Users : screen'[u] = screen[u] \/ screen'[u] = "chat"
      BY <3>1, <1>0, <1>4 DEF TypeOK, ClientsOK
    <3>3. Shows /\ Answers(t)
      BY <3>1, <3>2 DEF Shows, Answers, Awaited, Unawaited
    <3> QED BY <3>1, <3>2, <3>3 DEF Step, TypeOK, ClientsOK
  <2> QED BY <2>1, <2>2
<1>33. CASE MessageStore(t)
  <2>1. CASE GoOn(t, "members")
    BY <2>1, <1>2, <1>5
  <2>2. CASE ~GoOn(t, "members")
    <3> DEFINE r == Listed(t, "each", Members \ {t.u})
    <3>1. t.op = "message" /\ UNCHANGED clients /\ Replace(t, r)
      BY <1>33, <2>2 DEF MessageStore, At, Listed
    <3>2. Members \ {t.u} \in SUBSET Users
      BY <1>0
    <3>3. Moves(t, r) /\ r.step = "each"
      BY <1>0, <1>7, <3>2, ListedFields
    <3> HIDE DEF r
    <3>4. Aims(r) /\ Locks(r)
      BY <3>1, <3>3 DEF Moves, Aims, Locks, At
    <3> QED BY <3>1, <3>3, <3>4, <1>6
  <2> QED BY <2>1, <2>2
<1>34. CASE MessageSend(t)
  <2>1. PICK w \in t.todo \cap chatStatus_ \cap online :
           Replace(t, [t EXCEPT !.todo = @ \ {w}])
    BY <1>34 DEF MessageSend
  <2> DEFINE todo == t.todo \ {w}
  <2>2. /\ t.op = "message" /\ t.step = "each" /\ UNCHANGED clients
        /\ todo \in SUBSET Users /\ Replace(t, [t EXCEPT !.todo = todo])
    BY <1>34, <2>1, <1>0 DEF MessageSend, At
  <2> HIDE DEF todo
  <2> DEFINE r == Listed(t, "each", todo)
  <2>4. Moves(t, r) /\ r.step = "each" /\ Replace(t, r)
    BY <1>0, <1>7, <2>2, ListedFields
  <2> HIDE DEF r
  <2>5. Aims(r) /\ Locks(r)
    BY <2>2, <2>4 DEF Moves, Aims, Locks, At
  <2> QED BY <2>2, <2>4, <2>5, <1>6
<1>35. CASE MessageCount(t)
  <2>1. UNCHANGED clients /\ t.op \in Unawaited
    BY <1>35 DEF MessageCount, At, Unawaited
  <2>2. PICK w \in t.todo \ chatStatus_ :
           \/ Done(t)
           \/ /\ mygp[w] # None /\ storeMtx2 = None
              /\ storeMtx2' = [t EXCEPT !.step = "incr", !.v = w, !.n = mygp[w]]
              /\ Replace(t, [t EXCEPT !.step = "incr", !.v = w, !.n = mygp[w]])
    BY <1>35 DEF MessageCount
  <2>3. CASE Done(t)
    BY <2>1, <2>3, RestSteps
  <2>4. CASE ~Done(t)
    <3> DEFINE r == Counted(t, w, mygp[w])
    <3>1. w \in Users /\ w \in t.todo /\ mygp[w] \in Nat /\ Replace(t, r)
          /\ storeMtx2 = None /\ storeMtx2' = r
      BY <2>2, <2>4, <1>0 DEF TypeOK, RecordsOK, Counted
    <3>2. Moves(t, r) /\ r.v = w /\ r.step = "incr" /\ r.todo = t.todo
      BY <1>0, <3>1, CountedFields
    <3>3. t.op = "message"
      BY <1>35 DEF MessageCount, At
    <3> HIDE DEF r
    <3>4. Aims(r) /\ Locks(r)
      BY <3>1, <3>2, <3>3 DEF Moves, Aims, Locks, At
    <3> QED BY <2>1, <3>1, <3>2, <3>4, <1>6
  <2> QED BY <2>3, <2>4
<1>36. CASE MessageIncr(t)
  <2> DEFINE r == Listed(t, "each", t.todo \ {t.v})
  <2>1. t.op = "message" /\ UNCHANGED clients /\ Replace(t, r)
    BY <1>36 DEF MessageIncr, At, Listed
  <2>2. t.todo \ {t.v} \in SUBSET Users
    BY <1>0
  <2>3. Moves(t, r) /\ r.step = "each"
    BY <1>0, <1>7, <2>2, ListedFields
  <2> HIDE DEF r
  <2>4. Aims(r) /\ Locks(r)
    BY <2>1, <2>3 DEF Moves, Aims, Locks, At
  <2> QED BY <2>1, <2>3, <2>4, <1>6
<1>37. CASE MessageEnd(t)
  BY <1>37, <1>3 DEF MessageEnd, At
<1>38. CASE seeHistory(t)
  BY <1>38, <1>1, <1>2, <1>4, <1>5 DEF seeHistory
<1> QED BY <1>11, <1>12, <1>13, <1>14, <1>15, <1>16, <1>17, <1>18, <1>19, <1>20,
       <1>21, <1>22, <1>23, <1>24, <1>25, <1>26, <1>27, <1>28, <1>29, <1>30,
       <1>31, <1>32, <1>33, <1>34, <1>35, <1>36, <1>37, <1>38 DEF TaskStep

----------------------------------------------------------------------------
\* Messages are told apart by who said them and when; the one that is being
\* counted holds the lock.
Ident ==
    /\ \A t \in tasks : t.op = "message" => t.id < words[t.u]
    /\ \A s, t \in tasks :
          s.op = "message" /\ t.op = "message" /\ s.u = t.u /\ s.id = t.id => s = t
    /\ \A t \in tasks : At(t, {"message"}, "incr") => storeMtx2 = t

\* What a step of a client is for the server.
Arrives(q) == q \in Task /\ q.step = "begin" /\ tasks' = tasks \cup {q}
ClientOnly ==
    /\ UNCHANGED <<grop, mygp, ghosts, chatStatus_, storeMtx2, unseen, disturbed,
                   outOfDate>>
    /\ uncounted \subseteq uncounted'
    /\ tasks' = tasks \/ \E q : Arrives(q)

NewTaskOf(op, u, v, id) == [op |-> op, u |-> u, v |-> v, id |-> id, step |-> "begin",
                            rank |-> None, todo |-> {}, n |-> 0]

LEMMA Renumbered ==
    ASSUME NEW op, NEW u, NEW v, NEW i, NEW j
    PROVE  [NewTaskOf(op, u, v, i) EXCEPT !.id = j] = NewTaskOf(op, u, v, j)
BY DEF NewTaskOf

LEMMA Arrival ==
    ASSUME TypeOK, NEW u \in Users,
           NEW op \in {"ask", "invite", "agree", "refuse", "accept", "decline",
                       "create", "leave", "leave2", "del", "upl", "dnl", "chat",
                       "history", "endchat", "message"},
           NEW v \in Users \cup {None}, NEW id \in Nat,
           op \in {"invite", "agree", "refuse", "del", "upl", "dnl"} => v \in Users,
           op = "create" => v # u,
           storeMtx2' = storeMtx2, tasks' = tasks \cup {NewTaskOf(op, u, v, id)}
    PROVE  /\ TasksOK' /\ Arrives(NewTaskOf(op, u, v, id))
           /\ NewTaskOf(op, u, v, id).op = op /\ NewTaskOf(op, u, v, id).u = u
           /\ NewTaskOf(op, u, v, id).id = id
<1> DEFINE q == NewTaskOf(op, u, v, id)
<1>1. q \in Task
  BY DEF Task, NewTaskOf
<1>2. q.op = op /\ q.u = u /\ q.v = v /\ q.id = id /\ q.step = "begin"
  BY DEF NewTaskOf
<1>7. tasks' = tasks \cup {q}
  OBVIOUS
<1> HIDE DEF q
<1>3. Aims(q)
  BY <1>2 DEF Aims, At
<1>4. tasks' \subseteq Task /\ \A t \in tasks' : Aims(t)
  BY <1>1, <1>3, <1>7 DEF TypeOK, TasksOK
<1>5. IsFiniteSet(tasks \cup {q})
  BY FS_AddElement DEF TypeOK, TasksOK
<1>6. TasksOK' /\ Arrives(q)
  BY <1>1, <1>2, <1>4, <1>5, <1>7 DEF TypeOK, TasksOK, Arrives
<1> QED BY <1>2, <1>6 DEF q

LEMMA SameRecords ==
    ASSUME RecordsOK, HistoryOK, grop' = grop, mygp' = mygp, ghosts' = ghosts,
           asks' = asks, invites' = invites, regp' = regp,
           chatStatus_' = chatStatus_, unseen' = unseen,
           disturbed' = disturbed, outOfDate' = outOfDate,
           uncounted' = uncounted
    PROVE  RecordsOK' /\ HistoryOK'
<1>1. RecordsOK'
  BY DEF RecordsOK
<1>2. HistoryOK'
  BY DEF HistoryOK
<1> QED BY <1>1, <1>2

LEMMA RequestSteps ==
    ASSUME TypeOK, Ident, NEW u \in Users,
           NEW op \in {"ask", "invite", "agree", "refuse", "accept", "decline",
                       "create", "leave", "leave2", "del", "upl", "dnl", "chat",
                       "history", "endchat"},
           NEW v \in Users \cup {None}, NEW from, NEW to \in Screens,
           op \in {"invite", "agree", "refuse", "del", "upl", "dnl"} => v \in Users,
           op = "create" => v # u,
           Request(u, op, v, from, to)
    PROVE  TypeOK' /\ Ident' /\ ClientOnly
<1> DEFINE q == NewTaskOf(op, u, v, requests[u])
<1>1. /\ UNCHANGED <<membership, pending, regp, chatStatus_, storeMtx2, online,
                     words, faults, unseen, history>>
      /\ requests' = [requests EXCEPT ![u] = @ + 1]
      /\ screen' = [screen EXCEPT ![u] = to]
      /\ tasks' = tasks \cup {q}
  BY DEF Request, NewTask, NewTaskOf
<1>2. requests[u] \in Nat /\ storeMtx2' = storeMtx2
  BY <1>1 DEF TypeOK, ClientsOK
<1>3. TasksOK' /\ Arrives(q) /\ q.op = op
  <2>1. op \in {"ask", "invite", "agree", "refuse", "accept", "decline",
                "create", "leave", "leave2", "del", "upl", "dnl", "chat",
                "history", "endchat", "message"}
    OBVIOUS
  <2>2. /\ op \in {"invite", "agree", "refuse", "del", "upl", "dnl"} => v \in Users
        /\ op = "create" => v # u
    OBVIOUS
  <2>3. tasks' = tasks \cup {NewTaskOf(op, u, v, requests[u])}
    BY <1>1
  <2> QED BY <1>2, <2>1, <2>2, <2>3, Arrival
<1> HIDE DEF q
<1>4. RecordsOK' /\ HistoryOK'
  <2>1. /\ grop' = grop /\ mygp' = mygp /\ ghosts' = ghosts /\ asks' = asks
        /\ invites' = invites /\ regp' = regp /\ chatStatus_' = chatStatus_
        /\ storeMtx2' = storeMtx2 /\ unseen' = unseen /\ disturbed' = disturbed
        /\ outOfDate' = outOfDate /\ uncounted' = uncounted
    BY <1>1, Zenon DEF membership, pending, history
  <2>2. RecordsOK /\ HistoryOK
    BY DEF TypeOK
  <2> QED BY <2>1, <2>2, SameRecords
<1>5. ClientsOK'
  <2>1. screen' \in [Users -> Screens] /\ requests' \in [Users -> Nat]
    BY <1>1 DEF TypeOK, ClientsOK
  <2> QED BY <2>1, <1>1 DEF TypeOK, ClientsOK
<1>6. q.op # "message"
  BY <1>3
<1>7. Ident'
  BY <1>1, <1>6 DEF Ident, At
<1>8. ClientOnly
  BY <1>1, <1>3 DEF ClientOnly, membership, history
<1> QED BY <1>3, <1>4, <1>5, <1>7, <1>8 DEF TypeOK

\* A step of a client keeps its type and adds at most a task.
LEMMA ClientSteps ==
    ASSUME TypeOK, Ident, NEW u \in Users, ClientStep(u)
    PROVE  TypeOK' /\ Ident' /\ ClientOnly
<1> DEFINE Goal == TypeOK' /\ Ident' /\ ClientOnly
<1>0. /\ "menu" \in Screens /\ "wait" \in Screens /\ "chat" \in Screens
      /\ "command" \in Screens /\ "confirm" \in Screens
  BY DEF Screens
<1>1. None \notin Users
  BY ConstantsAssumption
<1>2. \A op \in {"ask", "accept", "decline", "leave", "leave2", "chat", "history", "endchat"},
         from \in Screens, to \in Screens : Request(u, op, None, from, to) => Goal
  BY RequestSteps
<1>3. \A op \in {"invite", "agree", "refuse", "create", "del", "upl", "dnl"}, v \in Users,
         from \in Screens, to \in Screens :
            Request(u, op, v, from, to) /\ (op = "create" => v # u) => Goal
  BY RequestSteps
<1>4. \A from \in Screens, to \in Screens : Request(u, "create", None, from, to) => Goal
  BY <1>1, RequestSteps
<1>5. ASSUME UNCHANGED <<grop, mygp, ghosts, asks, invites, regp, chatStatus_, storeMtx2,
                         words, requests, tasks, unseen, disturbed, outOfDate>>,
             screen' \in [Users -> Screens], online' \subseteq Users, faults' \in Nat,
             uncounted' \subseteq Users \cup {None}, uncounted \subseteq uncounted'
      PROVE  Goal
  <2>1. RecordsOK' /\ HistoryOK' /\ ClientsOK' /\ TasksOK'
    BY <1>5 DEF TypeOK, RecordsOK, HistoryOK, ClientsOK, TasksOK
  <2>2. Ident'
    BY <1>5 DEF Ident
  <2> QED BY <2>1, <2>2, <1>5 DEF TypeOK, ClientOnly
<1>6. \A to \in Screens : [screen EXCEPT ![u] = to] \in [Users -> Screens]
  BY DEF TypeOK, ClientsOK
<1> SUFFICES Goal
  OBVIOUS
<1> HIDE DEF Goal
<1>11. CASE joinGroup(u)
  BY <1>11, <1>0, <1>2, <1>3 DEF joinGroup
<1>12. CASE handleCmd(u)
  BY <1>12, <1>0, <1>2, <1>3 DEF handleCmd
<1>13. CASE managerGroup(u)
  <2>1. \/ \E v \in Users \ {u} : Request(u, "create", v, "menu", "menu")
        \/ Request(u, "create", None, "menu", "menu")
        \/ Request(u, "leave", None, "menu", "wait")
    BY <1>13 DEF managerGroup
  <2> QED BY <2>1, <1>0, <1>2, <1>3, <1>4
<1>14. CASE Confirm(u)
  <2>1. CASE Request(u, "leave2", None, "confirm", "menu")
    BY <2>1, <1>0, <1>2
  <2>2. CASE ~Request(u, "leave2", None, "confirm", "menu")
    <3>1. /\ screen' = [screen EXCEPT ![u] = "menu"]
          /\ UNCHANGED <<membership, pending, regp, chatStatus_, storeMtx2,
                         online, requests, words, faults, tasks, unseen, history>>
      BY <1>14, <2>2 DEF Confirm
    <3>2. screen' \in [Users -> Screens] /\ online' \subseteq Users /\ faults' \in Nat
          /\ uncounted' \subseteq Users \cup {None}
      BY <3>1, <1>0, <1>6 DEF TypeOK, ClientsOK, HistoryOK, history
    <3> QED BY <3>1, <3>2, <1>5 DEF membership, pending, history
  <2> QED BY <2>1, <2>2
<1>15. CASE EnterChat(u)
  BY <1>15, <1>0, <1>2 DEF EnterChat
<1>16. CASE myGroup(u)
  BY <1>16, <1>0, <1>2, <1>3 DEF myGroup
<1>17. CASE Say(u)
  <2> DEFINE q == NewTaskOf("message", u, None, words[u])
  <2>1. /\ UNCHANGED <<membership, pending, regp, chatStatus_, storeMtx2, online,
                       screen, requests, faults, unseen, history>>
        /\ words' = [words EXCEPT ![u] = @ + 1]
        /\ tasks' = tasks \cup {q}
    <3>1. NewTask(u, "message", None) = NewTaskOf("message", u, None, requests[u])
      BY DEF NewTask, NewTaskOf
    <3>2. [NewTask(u, "message", None) EXCEPT !.id = words[u]] = q
      BY <3>1, Renumbered
    <3> HIDE DEF q
    <3> QED BY <1>17, <3>2 DEF Say
  <2>2. words[u] \in Nat /\ storeMtx2' = storeMtx2 /\ words \in [Users -> Nat]
    BY <2>1 DEF TypeOK, ClientsOK
  <2>3. /\ "message" \notin {"invite", "agree", "refuse", "del", "upl", "dnl"}
        /\ "message" # "create" /\ None \in Users \cup {None}
    OBVIOUS
  <2>4. TasksOK' /\ Arrives(q) /\ q.op = "message" /\ q.u = u /\ q.id = words[u]
    <3>1. words[u] \in Nat /\ storeMtx2' = storeMtx2
          /\ tasks' = tasks \cup {NewTaskOf("message", u, None, words[u])}
      BY <2>1, <2>2
    <3>2. \A id \in Nat : tasks' = tasks \cup {NewTaskOf("message", u, None, id)} =>
             /\ TasksOK' /\ Arrives(NewTaskOf("message", u, None, id))
             /\ NewTaskOf("message", u, None, id).op = "message"
             /\ NewTaskOf("message", u, None, id).u = u
             /\ NewTaskOf("message", u, None, id).id = id
      BY <2>3, <3>1, Arrival
    <3> QED BY <3>1, <3>2
  <2> HIDE DEF q
  <2>5. RecordsOK' /\ HistoryOK'
    BY <2>1 DEF TypeOK, RecordsOK, HistoryOK, membership, pending, history
  <2>6. ClientsOK'
    <3>1. words' \in [Users -> Nat]
      BY <2>1, <2>2
    <3> QED BY <3>1, <2>1 DEF TypeOK, ClientsOK
  <2>7. Ident'
    <3>1. \A t \in tasks : t.u \in Users /\ t.id \in Nat
      BY Fields DEF TypeOK, TasksOK
    <3>2. \A w \in Users : words[w] \in Nat /\ words'[w] \in Nat /\ words[w] <= words'[w]
      BY <2>1, <2>2
    <3>3. words[u] < words'[u]
      BY <2>1, <2>2
    <3>4. \A t \in tasks : t.op = "message" => t.id < words'[t.u]
      BY <3>1, <3>2 DEF Ident
    <3>5. \A t \in tasks : t.op = "message" /\ t.u = u => t.id # words[u]
      BY <3>1, <3>2 DEF Ident
    <3>6. q.step # "incr"
      BY <2>4 DEF Arrives
    <3> QED BY <2>1, <2>2, <2>4, <3>3, <3>4, <3>5, <3>6 DEF Ident, At
  <2>8. ClientOnly
    BY <2>1, <2>4 DEF ClientOnly, membership, history
  <2> QED BY <2>4, <2>5, <2>6, <2>7, <2>8 DEF TypeOK, Goal
<1>18. CASE Drop(u)
  <2>1. /\ screen' = [screen EXCEPT ![u] = "menu"]
        /\ online' = online \ {u} /\ faults' = faults + 1
        /\ uncounted' = uncounted \cup {u} \/ uncounted' = uncounted
        /\ UNCHANGED <<membership, pending, regp, chatStatus_, storeMtx2,
                       requests, words, tasks, unseen, disturbed, outOfDate>>
    BY <1>18 DEF Drop
  <2>2. screen' \in [Users -> Screens] /\ online' \subseteq Users /\ faults' \in Nat
        /\ uncounted' \subseteq Users \cup {None} /\ uncounted \subseteq uncounted'
    BY <2>1, <1>0, <1>6 DEF TypeOK, ClientsOK, HistoryOK
  <2> QED BY <2>1, <2>2, <1>5 DEF membership, pending
<1>19. CASE Return(u)
  <2>1. /\ online' = online \cup {u}
        /\ UNCHANGED <<membership, pending, regp, chatStatus_, storeMtx2, screen,
                       requests, words, faults, tasks, unseen, history>>
    BY <1>19 DEF Return
  <2>2. screen' \in [Users -> Screens] /\ online' \subseteq Users /\ faults' \in Nat
        /\ uncounted' \subseteq Users \cup {None} /\ uncounted \subseteq uncounted'
    BY <2>1 DEF TypeOK, ClientsOK, HistoryOK, history
  <2> QED BY <2>1, <2>2, <1>5 DEF membership, pending, history
<1> QED BY <1>11, <1>12, <1>13, <1>14, <1>15, <1>16, <1>17, <1>18, <1>19
       DEF ClientStep

----------------------------------------------------------------------------
\* The tasks after a step of one of them.
LEMMA TasksAfter ==
    ASSUME TypeOK, Ident, NEW t \in tasks, Step(t), storeMtx2' \in Task \cup {None},
           storeMtx2' # storeMtx2 =>
              \/ storeMtx2 = None
              \/ At(t, {"message"}, "incr") /\ storeMtx2' = None
    PROVE  TasksOK' /\ Ident'
<1>1. tasks \subseteq Task /\ IsFiniteSet(tasks) /\ \A s \in tasks : Aims(s)
  BY DEF TypeOK, TasksOK
<1>2. None \notin Task
  BY ConstantsAssumption
<1>3. \A s \in tasks \ {t} : At(s, {"message"}, "incr") => storeMtx2' = s
  BY <1>1, <1>2 DEF Ident
<1>4. IsFiniteSet(tasks \ {t})
  BY <1>1, FS_RemoveElement
<1>5. words' = words
  BY DEF Step
<1>6. CASE Done(t)
  <2>1. tasks' = tasks \ {t}
    BY <1>6 DEF Done
  <2> QED BY <2>1, <1>1, <1>3, <1>4, <1>5 DEF TasksOK, Ident
<1>7. CASE Goes(t)
  <2>1. PICK r \in Task : Moves(t, r) /\ Aims(r) /\ Locks(r) /\ Replace(t, r)
    BY <1>7 DEF Goes
  <2>2. tasks' = (tasks \ {t}) \cup {r}
    BY <2>1 DEF Replace
  <2>3. r.op = t.op /\ r.u = t.u /\ r.id = t.id
    BY <2>1 DEF Moves
  <2>4. IsFiniteSet((tasks \ {t}) \cup {r})
    BY <1>4, FS_AddElement
  <2>5. TasksOK'
    BY <1>1, <2>1, <2>2, <2>4 DEF TasksOK
  <2>6. \A s \in tasks' : s.op = "message" => s.id < words'[s.u]
    BY <1>5, <2>2, <2>3 DEF Ident
  <2>7. \A s, q \in tasks' :
          s.op = "message" /\ q.op = "message" /\ s.u = q.u /\ s.id = q.id => s = q
    BY <2>2, <2>3 DEF Ident
  <2>8. \A s \in tasks' : At(s, {"message"}, "incr") => storeMtx2' = s
    BY <2>1, <2>2, <1>3 DEF Locks, At
  <2> QED BY <2>5, <2>6, <2>7, <2>8 DEF Ident
<1> QED BY <1>6, <1>7 DEF Step

\* A step that changes at most its task, its client and the history.
Quiet(t) ==
    /\ Note(t)
    /\ UNCHANGED <<grop, mygp, ghosts, asks, invites, regp, chatStatus_, storeMtx2, unseen,
                   outOfDate>>

LEMMA QuietSteps ==
    ASSUME NEW t,
           \/ CreateCheck(t) \/ AddIsGroup(t) \/ AddMine(t) \/ VerifyFind(t)
           \/ LeaveCheck(t) \/ LeaveRank(t) \/ LeaveMembers(t) \/ CmdRank(t)
           \/ CmdTarget(t) \/ ChatCheck(t) \/ MessageCheck(t) \/ MessageSend(t)
           \/ MessageEnd(t)
    PROVE  Quiet(t)
<1> USE DEF Quiet, membership, pending
<1>1. CASE CreateCheck(t)
  BY <1>1 DEF CreateCheck
<1>2. CASE AddIsGroup(t)
  BY <1>2 DEF AddIsGroup
<1>3. CASE AddMine(t)
  BY <1>3 DEF AddMine
<1>4. CASE VerifyFind(t)
  BY <1>4 DEF VerifyFind
<1>5. CASE LeaveCheck(t)
  BY <1>5 DEF LeaveCheck
<1>6. CASE LeaveRank(t)
  BY <1>6 DEF LeaveRank
<1>7. CASE LeaveMembers(t)
  BY <1>7 DEF LeaveMembers
<1>8. CASE CmdRank(t)
  BY <1>8 DEF CmdRank
<1>9. CASE CmdTarget(t)
  BY <1>9 DEF CmdTarget
<1>10. CASE ChatCheck(t)
  BY <1>10 DEF ChatCheck
<1>11. CASE MessageCheck(t)
  BY <1>11 DEF MessageCheck
<1>12. CASE MessageSend(t)
  BY <1>12 DEF MessageSend
<1>13. CASE MessageEnd(t)
  BY <1>13 DEF MessageEnd
<1> QED BY <1>1, <1>2, <1>3, <1>4, <1>5, <1>6, <1>7, <1>8, <1>9, <1>10, <1>11,
       <1>12, <1>13

\* What the other steps of tasks write is of the right type.
LEMMA LoudSteps ==
    ASSUME TypeOK, NEW t \in tasks,
           \/ CreateJoin(t) \/ AddPush(t) \/ VerifyMy(t) \/ VerifyGrop(t)
           \/ VerifyLrem(t) \/ LeaveQuit(t) \/ LeaveDrop(t) \/ CmdWrite(t)
           \/ ChatReset(t) \/ ChatFlag(t) \/ seeHistory(t) \/ endChat(t) \/ MessageStore(t)
    PROVE  RecordsOK' /\ HistoryOK' /\ storeMtx2' = storeMtx2
<1>1. /\ t \in Task /\ Aims(t) /\ t.u \in Users /\ t.v \in Users \cup {None}
      /\ t.todo \in SUBSET Users /\ t.n \in Nat /\ Target(t) \in Users \cup {None}
  BY Fields DEF TypeOK, TasksOK, Target
<1>2. RecordsOK /\ HistoryOK /\ TasksOK
  BY DEF TypeOK
<1>3. Note(t) => disturbed' \in BOOLEAN /\ uncounted' \subseteq Users \cup {None}
  BY <1>2, Noted
<1>4. ASSUME NEW u, NEW r \in Ranks
      PROVE  /\ [grop EXCEPT ![u] = r] \in [Users -> Ranks \cup {None}]
             /\ [mygp EXCEPT ![u] = 0] \in [Users -> Nat \cup {None}]
             /\ [unseen EXCEPT ![u] = 0] \in [Users -> Nat]
  BY <1>2 DEF RecordsOK, HistoryOK
<1>5. "owner" \in Ranks /\ "admin" \in Ranks /\ "member" \in Ranks
  BY DEF Ranks
<1>6. ASSUME NEW S
      PROVE  /\ [u \in Users |-> IF u \in S THEN None ELSE grop[u]]
                  \in [Users -> Ranks \cup {None}]
             /\ [u \in Users |-> IF u \in S THEN None ELSE mygp[u]]
                  \in [Users -> Nat \cup {None}]
  BY <1>2 DEF RecordsOK
<1>7. ASSUME NEW S
      PROVE  [u \in Users |-> IF u \in S THEN unseen[u] + 1 ELSE unseen[u]]
                  \in [Users -> Nat]
  BY <1>2 DEF HistoryOK
<1>11. CASE CreateJoin(t)
  <2>1. /\ UNCHANGED <<pending, regp, chatStatus_, storeMtx2, outOfDate>> /\ Note(t)
        /\ Join(t.u, "owner") \/ Join(t.v, "member")
    BY <1>11 DEF CreateJoin
  <2>2. /\ grop' \in [Users -> Ranks \cup {None}]
        /\ mygp' \in [Users -> Nat \cup {None}]
        /\ unseen' \in [Users -> Nat] /\ ghosts' \subseteq ghosts
    BY <2>1, <1>4, <1>5 DEF Join
  <2> QED BY <2>1, <2>2, <1>2, <1>3 DEF RecordsOK, HistoryOK, pending
<1>12. CASE AddPush(t)
  <2>1. /\ UNCHANGED <<membership, regp, chatStatus_, storeMtx2, unseen, outOfDate>>
        /\ Note(t)
    BY <1>12 DEF AddPush
  <2>2. \/ asks' = asks \cup {t.u} /\ invites' = invites
        \/ t.op = "invite" /\ invites' = invites \cup {<<t.v, t.u>>} /\ asks' = asks
    BY <1>12 DEF AddPush, At
  <2>3. t.op = "invite" => t.v \in Users
    BY <1>1 DEF Aims
  <2>4. asks' \subseteq Users /\ invites' \subseteq Users \X Users
    BY <2>2, <2>3, <1>1, <1>2 DEF RecordsOK
  <2> QED BY <2>1, <2>4, <1>2, <1>3 DEF RecordsOK, HistoryOK, membership
<1>13. CASE VerifyMy(t)
  <2>1. /\ UNCHANGED <<grop, ghosts, pending, regp, chatStatus_, storeMtx2, outOfDate>>
        /\ Note(t)
        /\ mygp' = [mygp EXCEPT ![Target(t)] = 0]
        /\ unseen' = [unseen EXCEPT ![Target(t)] = 0]
    BY <1>13 DEF VerifyMy
  <2>2. mygp' \in [Users -> Nat \cup {None}] /\ unseen' \in [Users -> Nat]
    BY <2>1, <1>4, <1>5
  <2> QED BY <2>1, <2>2, <1>2, <1>3 DEF RecordsOK, HistoryOK, pending
<1>14. CASE VerifyGrop(t)
  <2>1. /\ UNCHANGED <<mygp, pending, regp, chatStatus_, storeMtx2, unseen>>
        /\ Note(t)
        /\ grop' = [grop EXCEPT ![Target(t)] = "member"] /\ ghosts' \subseteq ghosts
    BY <1>14 DEF VerifyGrop
  <2>2. grop' \in [Users -> Ranks \cup {None}]
    BY <2>1, <1>4, <1>5
  <2>3. outOfDate' \in BOOLEAN
    BY <1>14, <1>2, Zenon DEF VerifyGrop, HistoryOK
  <2> QED BY <2>1, <2>2, <2>3, <1>2, <1>3 DEF RecordsOK, HistoryOK, pending
<1>15. CASE VerifyLrem(t)
  <2>1. /\ UNCHANGED <<membership, regp, chatStatus_, storeMtx2, unseen, outOfDate>>
        /\ Note(t)
    BY <1>15 DEF VerifyLrem
  <2>2. asks' \subseteq asks /\ invites' \subseteq invites
    BY <1>15 DEF VerifyLrem
  <2>3. asks' \subseteq Users /\ invites' \subseteq Users \X Users
    BY <2>2, <1>2 DEF RecordsOK
  <2> QED BY <2>1, <2>3, <1>2, <1>3 DEF RecordsOK, HistoryOK, membership
<1>16. CASE LeaveQuit(t)
  <2>1. /\ UNCHANGED <<pending, regp, chatStatus_, storeMtx2, unseen, outOfDate>>
        /\ Note(t) /\ Part({t.u})
    BY <1>16 DEF LeaveQuit
  <2>2. /\ grop' \in [Users -> Ranks \cup {None}]
        /\ mygp' \in [Users -> Nat \cup {None}]
        /\ ghosts' \subseteq ghosts
    BY <2>1, <1>6 DEF Part
  <2> QED BY <2>1, <2>2, <1>2, <1>3 DEF RecordsOK, HistoryOK, pending
<1>17. CASE LeaveDrop(t)
  <2>1. /\ UNCHANGED <<pending, chatStatus_, storeMtx2, unseen, outOfDate>>
        /\ Note(t) /\ regp' = 0
        /\ grop' = [u \in Users |-> None] /\ ghosts' \subseteq ghosts
        /\ mygp' = [u \in Users |-> IF u \in t.todo THEN None ELSE mygp[u]]
    BY <1>17 DEF LeaveDrop
  <2>2. /\ grop' \in [Users -> Ranks \cup {None}]
        /\ mygp' \in [Users -> Nat \cup {None}]
    BY <2>1, <1>6
  <2> QED BY <2>1, <2>2, <1>2, <1>3 DEF RecordsOK, HistoryOK, pending
<1>18. CASE CmdWrite(t)
  <2>1. /\ UNCHANGED <<pending, regp, chatStatus_, storeMtx2, unseen>> /\ Note(t)
        /\ \/ Part({t.v})
           \/ /\ \/ grop' = [grop EXCEPT ![t.v] = "admin"]
                 \/ grop' = [grop EXCEPT ![t.v] = "member"]
              /\ mygp' = mygp /\ ghosts' = ghosts
    BY <1>18 DEF CmdWrite
  <2>2. /\ grop' \in [Users -> Ranks \cup {None}]
        /\ mygp' \in [Users -> Nat \cup {None}]
        /\ ghosts' \subseteq ghosts
    BY <2>1, <1>2, <1>4, <1>5, <1>6 DEF Part, RecordsOK
  <2>3. outOfDate' \in BOOLEAN
    BY <1>18, <1>2, Zenon DEF CmdWrite, HistoryOK
  <2> QED BY <2>1, <2>2, <2>3, <1>2, <1>3 DEF RecordsOK, HistoryOK, pending
<1>19. CASE ChatReset(t)
  <2>1. /\ UNCHANGED <<grop, ghosts, pending, regp, chatStatus_, storeMtx2, outOfDate>>
        /\ Note(t)
        /\ mygp' = [mygp EXCEPT ![t.u] = 0]
        /\ unseen' = [unseen EXCEPT ![t.u] = 0]
    BY <1>19 DEF ChatReset
  <2>2. mygp' \in [Users -> Nat \cup {None}] /\ unseen' \in [Users -> Nat]
    BY <2>1, <1>4, <1>5
  <2> QED BY <2>1, <2>2, <1>2, <1>3 DEF RecordsOK, HistoryOK, pending
<1>20. CASE ChatFlag(t)
  BY <1>20, <1>1, <1>2, <1>3 DEF ChatFlag, RecordsOK, HistoryOK, membership, pending
<1>21. CASE endChat(t)
  BY <1>21, <1>1, <1>2, <1>3 DEF endChat, RecordsOK, HistoryOK, membership, pending
<1>22. CASE MessageStore(t)
  <2>1. /\ UNCHANGED <<membership, pending, chatStatus_, storeMtx2, outOfDate>> /\ Note(t)
        /\ regp' = regp + 1 \/ regp' = regp
        /\ \/ unseen' = unseen
           \/ unseen' = [u \in Users |->
                  IF u \in Members \ ({t.u} \cup chatStatus_)
                  THEN unseen[u] + 1 ELSE unseen[u]]
    BY <1>22 DEF MessageStore
  <2>2. unseen' \in [Users -> Nat]
    BY <2>1, <1>2, <1>7 DEF HistoryOK
  <2>3. regp' \in Nat
    BY <2>1, <1>2 DEF RecordsOK
  <2> QED BY <2>1, <2>2, <2>3, <1>2, <1>3 DEF RecordsOK, HistoryOK, membership, pending
<1>23. CASE seeHistory(t)
  <2>1. /\ UNCHANGED <<grop, pending, regp, chatStatus_, storeMtx2, outOfDate>> /\ Note(t)
        /\ \/ UNCHANGED <<mygp, unseen, ghosts>>
           \/ /\ mygp' = [mygp EXCEPT ![t.u] = 0]
              /\ unseen' = [unseen EXCEPT ![t.u] = 0]
              /\ ghosts' \subseteq ghosts \cup {t.u}
    BY <1>23 DEF seeHistory
  <2>2. /\ mygp' \in [Users -> Nat \cup {None}] /\ unseen' \in [Users -> Nat]
        /\ ghosts' \subseteq Users
    BY <2>1, <1>1, <1>2, <1>4, <1>5 DEF RecordsOK, HistoryOK
  <2> QED BY <2>1, <2>2, <1>2, <1>3 DEF RecordsOK, HistoryOK, pending
<1> QED BY <1>11, <1>12, <1>13, <1>14, <1>15, <1>16, <1>17, <1>18, <1>19, <1>20,
       <1>21, <1>22, <1>23

\* After a crash or a restart there are no tasks.
LEMMA DiesSteps ==
    ASSUME TypeOK, ServerDies, faults' \in Nat
    PROVE  /\ TypeOK' /\ Ident' /\ tasks' = {} /\ chatStatus_' = {}
           /\ UNCHANGED <<grop, mygp, ghosts, unseen, outOfDate>>
           /\ disturbed \/ tasks # {} => disturbed'
           /\ tasks = {} => uncounted' = uncounted
<1>1. /\ online' = {} /\ screen' = [u \in Users |-> "menu"] /\ chatStatus_' = {}
      /\ storeMtx2' = None /\ tasks' = {}
      /\ uncounted' = IF tasks # {} THEN Users ELSE uncounted
      /\ UNCHANGED <<membership, pending, regp, requests, words, unseen, outOfDate>>
  BY DEF ServerDies
<1>2. /\ disturbed' \in BOOLEAN /\ (disturbed \/ tasks # {} => disturbed')
  BY Zenon DEF ServerDies, TypeOK, HistoryOK
<1>3. RecordsOK' /\ ClientsOK'
  BY <1>1 DEF TypeOK, RecordsOK, ClientsOK, membership, pending, Screens
<1>4. TasksOK' /\ Ident'
  BY <1>1, FS_EmptySet DEF TasksOK, Ident
<1>5. HistoryOK'
  BY <1>1, <1>2 DEF TypeOK, HistoryOK, membership
<1>6. tasks = {} => uncounted' = uncounted
  BY <1>1
<1> QED BY <1>1, <1>2, <1>3, <1>4, <1>5, <1>6 DEF TypeOK, membership

\* Types and identities are kept.
LEMMA TypesKept ==
    ASSUME TypeOK, Ident, [Next]_vars
    PROVE  TypeOK' /\ Ident'
<1>1. ASSUME NEW u \in Users, ClientStep(u) PROVE TypeOK' /\ Ident'
  BY <1>1, ClientSteps
<1>2. ASSUME NEW t \in tasks, TaskStep(t) PROVE TypeOK' /\ Ident'
  <2>1. CASE MessageCrash(t)
    <3>1. ServerDies /\ faults' = faults
      BY <2>1 DEF MessageCrash
    <3> QED BY <3>1, DiesSteps DEF TypeOK, ClientsOK
  <2>2. CASE ~MessageCrash(t)
    <3>1. Step(t)
      BY <1>2, <2>2, TaskSteps
    <3>2. RecordsOK /\ HistoryOK /\ TasksOK
      BY DEF TypeOK
    <3>3. CASE \/ CreateCheck(t) \/ AddIsGroup(t) \/ AddMine(t) \/ VerifyFind(t)
               \/ LeaveCheck(t) \/ LeaveRank(t) \/ LeaveMembers(t) \/ CmdRank(t)
               \/ CmdTarget(t) \/ ChatCheck(t) \/ MessageCheck(t) \/ MessageSend(t)
               \/ MessageEnd(t)
      <4>1. Quiet(t)
        BY <3>3, QuietSteps
      <4>2. disturbed' \in BOOLEAN /\ uncounted' \subseteq Users \cup {None}
        BY <3>2, <4>1, Noted DEF Quiet
      <4>3. RecordsOK' /\ HistoryOK' /\ storeMtx2' = storeMtx2
        BY <3>2, <4>1, <4>2 DEF Quiet, RecordsOK, HistoryOK
      <4>4. TasksOK' /\ Ident'
        BY <3>1, <3>2, <4>3, TasksAfter DEF TasksOK
      <4> QED BY <3>1, <4>3, <4>4 DEF TypeOK, Step
    <3>4. CASE \/ CreateJoin(t) \/ AddPush(t) \/ VerifyMy(t) \/ VerifyGrop(t)
               \/ VerifyLrem(t) \/ LeaveQuit(t) \/ LeaveDrop(t) \/ CmdWrite(t)
               \/ ChatReset(t) \/ ChatFlag(t) \/ seeHistory(t) \/ endChat(t)
               \/ MessageStore(t)
      <4>1. RecordsOK' /\ HistoryOK' /\ storeMtx2' = storeMtx2
        BY <3>4, LoudSteps
      <4>2. TasksOK' /\ Ident'
        BY <3>1, <3>2, <4>1, TasksAfter DEF TasksOK
      <4> QED BY <3>1, <4>1, <4>2 DEF TypeOK, Step
    <3>5. CASE MessageCount(t)
      <4>1. /\ UNCHANGED <<membership, pending, regp, chatStatus_, unseen, outOfDate>>
            /\ storeMtx2 = None
        BY <3>5 DEF MessageCount
      <4>2. PICK w \in t.todo \ chatStatus_ :
               IF mygp[w] # None
               THEN LET r == [t EXCEPT !.step = "incr", !.v = w, !.n = mygp[w]]
                    IN /\ Replace(t, r)
                       /\ storeMtx2' = r
                       /\ Note(t)
               ELSE /\ Done(t)
                    /\ uncounted' = uncounted \cup t.todo
                    /\ UNCHANGED <<storeMtx2, disturbed>>
        BY <3>5 DEF MessageCount
      <4>3. t \in Task /\ t.todo \in SUBSET Users
        BY <3>2, Fields DEF TasksOK
      <4>4. CASE mygp[w] # None
        <5>1. w \in Users /\ mygp[w] \in Nat
          BY <3>2, <4>3, <4>4 DEF RecordsOK
        <5>2. storeMtx2' = Counted(t, w, mygp[w]) /\ Note(t)
          BY <4>2, <4>4 DEF Counted
        <5>3. storeMtx2' \in Task
          BY <4>3, <5>1, <5>2, CountedFields DEF Moves
        <5>4. disturbed' \in BOOLEAN /\ uncounted' \subseteq Users \cup {None}
          BY <3>2, <5>2, Noted
        <5>5. RecordsOK' /\ HistoryOK'
          BY <3>2, <4>1, <5>4 DEF RecordsOK, HistoryOK, membership, pending
        <5>6. TasksOK' /\ Ident'
          BY <3>1, <4>1, <5>3, TasksAfter
        <5> QED BY <3>1, <5>5, <5>6 DEF TypeOK, Step
      <4>5. CASE mygp[w] = None
        <5>1. uncounted' = uncounted \cup t.todo /\ UNCHANGED <<storeMtx2, disturbed>>
          BY <4>2, <4>5
        <5>2. RecordsOK' /\ HistoryOK'
          BY <3>2, <4>1, <4>3, <5>1 DEF RecordsOK, HistoryOK, membership, pending
        <5>3. TasksOK' /\ Ident'
          BY <3>1, <3>2, <5>1, TasksAfter DEF TasksOK
        <5> QED BY <3>1, <5>2, <5>3 DEF TypeOK, Step
      <4> QED BY <4>4, <4>5
    <3>6. CASE MessageIncr(t)
      <4>1. /\ mygp' = [mygp EXCEPT ![t.v] = t.n + 1] /\ storeMtx2' = None /\ Note(t)
            /\ UNCHANGED <<grop, ghosts, pending, regp, chatStatus_, unseen, outOfDate>>
            /\ At(t, {"message"}, "incr")
        BY <3>6 DEF MessageIncr
      <4>2. t.n \in Nat
        BY <3>2, Fields DEF TasksOK
      <4>3. mygp' \in [Users -> Nat \cup {None}]
        <5>1. t.n + 1 \in Nat
          BY <4>2
        <5>2. \A v : \A k \in Nat : [mygp EXCEPT ![v] = k] \in [Users -> Nat \cup {None}]
          BY <3>2 DEF RecordsOK
        <5> QED BY <4>1, <5>1, <5>2
      <4>4. disturbed' \in BOOLEAN /\ uncounted' \subseteq Users \cup {None}
        BY <3>2, <4>1, Noted
      <4>5. RecordsOK' /\ HistoryOK'
        BY <3>2, <4>1, <4>3, <4>4 DEF RecordsOK, HistoryOK, pending
      <4>6. TasksOK' /\ Ident'
        BY <3>1, <4>1, TasksAfter
      <4> QED BY <3>1, <4>5, <4>6 DEF TypeOK, Step
    <3> QED BY <1>2, <2>2, <3>3, <3>4, <3>5, <3>6 DEF TaskStep
  <2> QED BY <2>1, <2>2
<1>3. ASSUME Restart PROVE TypeOK' /\ Ident'
  BY <1>3, DiesSteps DEF Restart, TypeOK, ClientsOK
<1>4. ASSUME UNCHANGED vars PROVE TypeOK' /\ Ident'
  <2>1. RecordsOK' /\ ClientsOK' /\ TasksOK' /\ HistoryOK'
    BY <1>4 DEF vars, TypeOK, RecordsOK, ClientsOK, TasksOK, HistoryOK
  <2> QED BY <2>1, <1>4 DEF vars, TypeOK, Ident
<1> QED BY <1>1, <1>2, <1>3, <1>4 DEF Next

LEMMA TypesInit == Init => TypeOK /\ Ident
<1> SUFFICES ASSUME Init PROVE TypeOK /\ Ident
  OBVIOUS
<1>1. RecordsOK
  BY DEF Init, RecordsOK
<1>2. ClientsOK
  BY DEF Init, ClientsOK, Screens
<1>3. TasksOK
  BY FS_EmptySet DEF Init, TasksOK
<1>4. HistoryOK /\ Ident
  BY DEF Init, HistoryOK, Ident
<1> QED BY <1>1, <1>2, <1>3, <1>4 DEF TypeOK

----------------------------------------------------------------------------
(***************************************************************************)
(* The members.  F is grop, M is mygp, G is ghosts.                        *)
(***************************************************************************)
\* He has the group among his, the group does not have him yet.
HalfIn(t) == At(t, {"agree", "accept"}, "grop")

\* What a task has found out and what is still so when it writes ...
Holds(F, M, G, t) ==
    /\ HalfIn(t) => M[Target(t)] # None
    /\ At(t, {"leave2"}, "drop") => \A u \in Users : M[u] # None => u \in t.todo \/ u \in G
    /\ At(t, Ranking, "write") => F[t.v] # None
    /\ At(t, {"message"}, "incr") => M[t.v] # None
    /\ At(t, {"chat"}, "fetch") => M[t.u] # None
    /\ At(t, {"chat"}, "reset") => M[t.u] # None

\* ... and the same for who the owner is.
HoldsRank(F, t) ==
    /\ At(t, {"create"}, "own") => \A u \in Users : F[u] = None
    /\ At(t, {"create"}, "other") => F[t.u] = "owner"
    /\ At(t, {"leave"}, "rank3") => F[t.u] # "owner"
    /\ At(t, {"leave", "leave2"}, "quit") => F[t.u] # "owner"
    /\ At(t, {"del", "upl", "dnl"}, "write") /\ t.rank # None => F[t.v] # "owner"

OneOwner(F) ==
    \/ \A u \in Users : F[u] = None
    \/ \E o \in Users : \A u \in Users : F[u] = "owner" <=> u = o

MembersInv ==
    ~disturbed =>
        /\ \A u \in Users : grop[u] # None => mygp[u] # None
        /\ \A u \in Users : mygp[u] # None =>
              grop[u] # None \/ u \in ghosts \/ \E t \in tasks : HalfIn(t) /\ Target(t) = u
        /\ \A t \in tasks : Holds(grop, mygp, ghosts, t) /\ HoldsRank(grop, t)
        /\ ~outOfDate => OneOwner(grop)

\* A task that writes undisturbed has no other beside it that might mind.
LEMMA Alone ==
    ASSUME TypeOK, NEW t \in tasks, Note(t), ~disturbed',
           NEW s \in tasks \ {t}, s.step # "begin"
    PROVE  /\ t.op \in Joining \cup Ranking \cup Counting => s.op \notin Leaving
           /\ t.op \in Leaving => s.op \notin Joining \cup Ranking \cup Counting
           /\ t.op = "create" => s.op \notin Joining \cup Ranking
           /\ t.op \in Joining => s.op # "create" /\ s.op \notin Ranking
           /\ t.op \in Ranking => s.op \notin Joining
<1>1. HistoryOK /\ TasksOK
  BY DEF TypeOK
<1>2. /\ \A a \in Leaving, b \in Joining \cup Ranking \cup Counting : {s.op, t.op} # {a, b}
      /\ \A b \in Joining \cup Ranking : {s.op, t.op} # {"create", b}
      /\ \A a \in Ranking, b \in Joining : {s.op, t.op} # {a, b}
  BY <1>1, Noted
<1>3. {s.op, t.op} = {t.op, s.op}
  OBVIOUS
<1> QED BY <1>2, <1>3

\* At these places there is nothing to hold.
LEMMA FreeSteps ==
    ASSUME NEW F, NEW M, NEW G, NEW r,
           r.step \in {"mine", "theirs", "push", "my", "lrem", "rank", "rank1",
                       "rank2", "members", "target", "flag", "store", "each"}
    PROVE  Holds(F, M, G, r) /\ HoldsRank(F, r)
BY DEF Holds, HoldsRank, HalfIn, At

\* What is to be shown of a step.
LEMMA MembersAfter ==
    ASSUME NEW t \in tasks, NEW R, tasks' = (tasks \ {t}) \cup R,
           ~disturbed' =>
              /\ \A u \in Users : grop'[u] # None => mygp'[u] # None
              /\ \A u \in Users : mygp'[u] # None =>
                    \/ grop'[u] # None \/ u \in ghosts'
                    \/ \E s \in (tasks \ {t}) \cup R : HalfIn(s) /\ Target(s) = u
              /\ \A s \in tasks \ {t} : Holds(grop', mygp', ghosts', s) /\ HoldsRank(grop', s)
              /\ \A r \in R : Holds(grop', mygp', ghosts', r) /\ HoldsRank(grop', r)
              /\ ~outOfDate' => OneOwner(grop')
    PROVE  MembersInv'
BY DEF MembersInv

\* A step that leaves the ranks alone, and gives and takes no counter.
LEMMA MembersQuiet ==
    ASSUME MembersInv, NEW t \in tasks, NEW R, tasks' = (tasks \ {t}) \cup R,
           grop' = grop, ghosts' = ghosts, outOfDate' = outOfDate,
           disturbed => disturbed',
           ~disturbed' => \A u \in Users : mygp'[u] = None <=> mygp[u] = None,
           ~HalfIn(t), TypeOK,
           ~disturbed' => \A r \in R : Holds(grop, mygp, ghosts, r) /\ HoldsRank(grop, r),
           \A r \in R : r \in Task /\ Aims(r)
    PROVE  MembersInv'
<1> SUFFICES ASSUME ~disturbed'
             PROVE  /\ \A u \in Users : grop'[u] # None => mygp'[u] # None
                    /\ \A u \in Users : mygp'[u] # None =>
                          \/ grop'[u] # None \/ u \in ghosts'
                          \/ \E s \in (tasks \ {t}) \cup R : HalfIn(s) /\ Target(s) = u
                    /\ \A s \in tasks \ {t} : Holds(grop', mygp', ghosts', s) /\ HoldsRank(grop', s)
                    /\ \A r \in R : Holds(grop', mygp', ghosts', r) /\ HoldsRank(grop', r)
                    /\ ~outOfDate' => OneOwner(grop')
  BY MembersAfter
<1>1. /\ \A u \in Users : grop[u] # None => mygp[u] # None
      /\ \A u \in Users : mygp[u] # None =>
            grop[u] # None \/ u \in ghosts \/ \E s \in tasks : HalfIn(s) /\ Target(s) = u
      /\ \A s \in tasks : Holds(grop, mygp, ghosts, s) /\ HoldsRank(grop, s)
      /\ ~outOfDate => OneOwner(grop)
  BY DEF MembersInv
<1>2. ASSUME NEW s \in tasks \cup R, Holds(grop, mygp, ghosts, s) PROVE Holds(grop', mygp', ghosts', s)
  <2>1. s \in Task /\ Aims(s)
    BY DEF TypeOK, TasksOK
  <2>2. /\ s.u \in Users
        /\ HalfIn(s) => Target(s) \in Users
        /\ At(s, {"message"}, "incr") => s.v \in Users
    BY <2>1, Fields DEF Aims, HalfIn, Target, At
  <2> QED BY <1>2, <2>2 DEF Holds
<1> QED BY <1>1, <1>2

\* Such a step that ends the task, or moves it to where the code goes.
LEMMA MembersEnd ==
    ASSUME TypeOK, MembersInv, NEW t \in tasks, grop' = grop, mygp' = mygp,
           ghosts' = ghosts,
           outOfDate' = outOfDate, disturbed => disturbed', ~HalfIn(t), Done(t)
    PROVE  MembersInv'
<1> DEFINE R == {}
<1>1. tasks' = (tasks \ {t}) \cup R
  BY DEF Done
<1>2. \A u \in Users : mygp'[u] = None <=> mygp[u] = None
  OBVIOUS
<1>3. \A r \in R : r \in Task /\ Aims(r) /\ Holds(grop, mygp, ghosts, r) /\ HoldsRank(grop, r)
  OBVIOUS
<1> HIDE DEF R
<1> QED BY <1>1, <1>2, <1>3, MembersQuiet

LEMMA MembersMove ==
    ASSUME TypeOK, MembersInv, NEW t \in tasks, grop' = grop, mygp' = mygp,
           ghosts' = ghosts,
           outOfDate' = outOfDate, disturbed => disturbed', ~HalfIn(t),
           NEW r \in Task, Aims(r), Replace(t, r),
           ~disturbed' => Holds(grop, mygp, ghosts, r) /\ HoldsRank(grop, r)
    PROVE  MembersInv'
<1> DEFINE R == {r}
<1>1. tasks' = (tasks \ {t}) \cup R
  BY DEF Replace
<1>2. \A u \in Users : mygp'[u] = None <=> mygp[u] = None
  OBVIOUS
<1>3. /\ \A q \in R : q \in Task /\ Aims(q)
      /\ ~disturbed' => \A q \in R : Holds(grop, mygp, ghosts, q) /\ HoldsRank(grop, q)
  OBVIOUS
<1> HIDE DEF R
<1> QED BY <1>1, <1>2, <1>3, MembersQuiet

LEMMA MembersGoOn ==
    ASSUME TypeOK, MembersInv, NEW t \in tasks, grop' = grop, mygp' = mygp,
           ghosts' = ghosts,
           outOfDate' = outOfDate, disturbed => disturbed', ~HalfIn(t),
           NEW step \in Later \ {"other", "incr"}, GoOn(t, step),
           ~disturbed' => Holds(grop, mygp, ghosts, Onward(t, step))
                          /\ HoldsRank(grop, Onward(t, step))
    PROVE  MembersInv'
<1>1. Replace(t, Onward(t, step))
  BY DEF GoOn, Goto, Onward
<1>2. t \in Task /\ Aims(t)
  BY DEF TypeOK, TasksOK
<1>3. Onward(t, step) \in Task /\ Aims(Onward(t, step))
  BY <1>2, OnwardFields DEF Aims, At
<1> QED BY <1>1, <1>3, MembersMove

\* The steps that change nothing a member is told by.
LEMMA MembersAtRest ==
    ASSUME TypeOK, MembersInv, NEW t \in tasks,
           \/ CreateCheck(t) \/ AddIsGroup(t) \/ AddMine(t) \/ VerifyFind(t)
           \/ LeaveCheck(t) \/ LeaveRank(t) \/ LeaveMembers(t) \/ CmdRank(t)
           \/ CmdTarget(t) \/ ChatCheck(t) \/ MessageCheck(t) \/ MessageSend(t)
           \/ MessageEnd(t)
    PROVE  MembersInv'
<1>1. Quiet(t)
  BY QuietSteps
<1>2. /\ Note(t) /\ grop' = grop /\ mygp' = mygp /\ ghosts' = ghosts
      /\ outOfDate' = outOfDate
  BY <1>1 DEF Quiet
<1>3. HistoryOK /\ TasksOK
  BY DEF TypeOK
<1>4. disturbed => disturbed'
  BY <1>2, <1>3, Noted
<1>5. /\ t \in Task /\ Aims(t) /\ t.u \in Users /\ t.v \in Users \cup {None}
      /\ t.todo \in SUBSET Users /\ t.n \in Nat /\ Members \in SUBSET Users
  BY <1>3, Fields DEF TasksOK, Members
<1>6. ~HalfIn(t) /\ Done(t) => MembersInv'
  BY <1>2, <1>4, MembersEnd
<1>7. \A r \in Task : ~HalfIn(t) /\ Aims(r) /\ Replace(t, r)
          /\ (~disturbed' => Holds(grop, mygp, ghosts, r) /\ HoldsRank(grop, r)) => MembersInv'
  BY <1>2, <1>4, MembersMove
<1>8. \A step \in Later \ {"other", "incr"} : ~HalfIn(t) /\ GoOn(t, step)
          /\ (~disturbed' => Holds(grop, mygp, ghosts, Onward(t, step))
                             /\ HoldsRank(grop, Onward(t, step))) => MembersInv'
  BY <1>2, <1>4, MembersGoOn
<1>9. \A step \in {"mine", "theirs", "push", "my", "lrem", "rank", "rank1",
                    "rank2", "members", "target", "flag", "store", "each"} :
         ~HalfIn(t) /\ GoOn(t, step) => MembersInv'
  <2>1. TAKE step \in {"mine", "theirs", "push", "my", "lrem", "rank", "rank1",
                    "rank2", "members", "target", "flag", "store", "each"}
  <2>2. step \in Later \ {"other", "incr"} /\ step \in Later
    BY DEF Later
  <2>3. Onward(t, step).step = step
    BY <1>5, <2>2, OnwardFields
  <2>4. Holds(grop, mygp, ghosts, Onward(t, step)) /\ HoldsRank(grop, Onward(t, step))
    BY <2>3, FreeSteps
  <2> QED BY <2>2, <2>4, <1>8
<1>10. \A to : Answer(t, to) => Done(t)
  BY DEF Answer
<1>11. End(t) => Done(t)
  BY DEF End
<1>12. ~disturbed => Holds(grop, mygp, ghosts, t) /\ HoldsRank(grop, t)
  BY DEF MembersInv
<1>21. CASE CreateCheck(t)
  <2>1. At(t, {"create"}, "begin") /\ (IF isgroup THEN End(t) ELSE GoOn(t, "own"))
    BY <1>21 DEF CreateCheck
  <2>2. ~HalfIn(t)
    BY <2>1 DEF HalfIn, At
  <2>3. CASE isgroup
    BY <2>1, <2>2, <2>3, <1>6, <1>11
  <2>4. CASE ~isgroup
    <3>1. "own" \in Later \ {"other", "incr"} /\ "own" \in Later
      BY DEF Later
    <3>2. Onward(t, "own").step = "own" /\ Onward(t, "own").op = "create"
      BY <1>5, <2>1, <3>1, OnwardFields DEF At
    <3>3. \A u \in Users : grop[u] = None
      BY <2>4 DEF isgroup, Members
    <3>4. Holds(grop, mygp, ghosts, Onward(t, "own")) /\ HoldsRank(grop, Onward(t, "own"))
      BY <3>2, <3>3 DEF Holds, HoldsRank, HalfIn, At
    <3> QED BY <2>1, <2>2, <2>4, <3>1, <3>4, <1>8
  <2> QED BY <2>3, <2>4
<1>22. CASE AddIsGroup(t)
  <2>1. At(t, {"ask", "invite"}, "begin") /\ (GoOn(t, "mine") \/ Answer(t, "menu"))
    BY <1>22 DEF AddIsGroup
  <2> QED BY <2>1, <1>6, <1>9, <1>10 DEF HalfIn, At
<1>23. CASE AddMine(t)
  <2>1. /\ t.op \in {"ask", "invite"}
        /\ GoOn(t, "push") \/ GoOn(t, "theirs") \/ Answer(t, "menu")
    BY <1>23 DEF AddMine, At
  <2> QED BY <2>1, <1>6, <1>9, <1>10 DEF HalfIn, At
<1>24. CASE VerifyFind(t)
  <2>1. /\ t.step = "begin" /\ t.op \in {"agree", "refuse", "accept", "decline"}
        /\ \/ GoOn(t, "my") \/ GoOn(t, "lrem") \/ Done(t)
           \/ \E v \in Users : Replace(t, [t EXCEPT !.v = v, !.step =
                          IF t.op = "accept" THEN "my" ELSE "lrem"])
    BY <1>24, <1>10 DEF VerifyFind, At
  <2>2. ~HalfIn(t)
    BY <2>1 DEF HalfIn, At
  <2>3. ASSUME NEW v \in Users, Replace(t, [t EXCEPT !.v = v, !.step =
                          IF t.op = "accept" THEN "my" ELSE "lrem"])
        PROVE  MembersInv'
    <3>1. PICK step \in {"my", "lrem"} : Replace(t, Aimed(t, v, step))
      BY <2>3 DEF Aimed
    <3> DEFINE r == Aimed(t, v, step)
    <3>2. step \in Later
      BY DEF Later
    <3>3. Moves(t, r) /\ r.v = v /\ r.step = step
      BY <1>5, <3>2, AimedFields
    <3>4. Replace(t, r)
      BY <3>1
    <3> HIDE DEF r
    <3>5. r \in Task /\ Aims(r)
      BY <2>1, <3>3, <1>5 DEF Moves, Aims, At
    <3>6. Holds(grop, mygp, ghosts, r) /\ HoldsRank(grop, r)
      BY <3>3, FreeSteps
    <3> QED BY <2>2, <3>4, <3>5, <3>6, <1>7
  <2> QED BY <2>1, <2>2, <2>3, <1>6, <1>9
<1>25. CASE LeaveCheck(t)
  <2>1. /\ t.op \in {"leave", "leave2"}
        /\ GoOn(t, "mine") \/ GoOn(t, "rank") \/ Answer(t, "stuck")
    BY <1>25 DEF LeaveCheck, At
  <2> QED BY <2>1, <1>6, <1>9, <1>10 DEF HalfIn, At
<1>26. CASE LeaveRank(t)
  <2>1. /\ t.op \in {"leave", "leave2"}
        /\ \/ GoOn(t, "rank1") \/ GoOn(t, "rank2") \/ GoOn(t, "members")
           \/ Answer(t, "confirm")
           \/ GoOn(t, "rank3") /\ (t.op = "leave2" \/ grop[t.u] # "owner")
           \/ GoOn(t, "quit") /\ (At(t, {"leave"}, "rank3") \/ grop[t.u] # "owner")
    BY <1>26 DEF LeaveRank, At
  <2>2. ~HalfIn(t)
    BY <2>1 DEF HalfIn, At
  <2>3. ASSUME NEW step \in {"rank3", "quit"}, GoOn(t, step),
               ~disturbed' => (step = "rank3" /\ t.op = "leave2") \/ grop[t.u] # "owner"
        PROVE  MembersInv'
    <3>1. step \in Later \ {"other", "incr"} /\ step \in Later
      BY DEF Later
    <3>2. /\ Onward(t, step).step = step /\ Onward(t, step).op = t.op
          /\ Onward(t, step).u = t.u
      BY <1>5, <3>1, OnwardFields
    <3>3. ~disturbed' => /\ Holds(grop, mygp, ghosts, Onward(t, step))
                         /\ HoldsRank(grop, Onward(t, step))
      BY <2>1, <2>3, <3>2 DEF Holds, HoldsRank, HalfIn, At, Ranking
    <3> QED BY <2>2, <2>3, <3>1, <3>3, <1>8
  <2>4. ~disturbed' /\ At(t, {"leave"}, "rank3") => grop[t.u] # "owner"
    BY <1>4, <1>12 DEF HoldsRank
  <2> QED BY <2>1, <2>2, <2>3, <2>4, <1>6, <1>9, <1>10
<1>27. CASE LeaveMembers(t)
  <2>1. At(t, {"leave2"}, "members") /\ Replace(t, Listed(t, "drop", Members))
    BY <1>27 DEF LeaveMembers, Listed
  <2> DEFINE r == Listed(t, "drop", Members)
  <2>2. "drop" \in Later
    BY DEF Later
  <2>3. Moves(t, r) /\ r.v = t.v /\ r.step = "drop" /\ r.todo = Members /\ Replace(t, r)
    BY <1>5, <2>1, <2>2, ListedFields
  <2>4. t.op = "leave2" /\ r.op = "leave2" /\ ~HalfIn(t)
    BY <2>1, <2>3 DEF Moves, At, HalfIn
  <2> HIDE DEF r
  <2>5. r \in Task /\ Aims(r)
    BY <2>3, <2>4 DEF Moves, Aims, At
  <2>6. ASSUME ~disturbed' PROVE Holds(grop, mygp, ghosts, r) /\ HoldsRank(grop, r)
    <3>1. \A q \in tasks \ {t} : q.step # "begin" => q.op \notin Joining
      BY <2>4, <2>6, <1>2, Alone DEF Leaving
    <3>2. \A q \in tasks : ~HalfIn(q)
      BY <3>1, <2>4 DEF HalfIn, At, Joining
    <3>3. \A u \in Users : mygp[u] # None => u \in Members \/ u \in ghosts
      BY <2>6, <3>2, <1>4 DEF MembersInv, Members
    <3> QED BY <2>3, <2>4, <3>3 DEF Holds, HoldsRank, HalfIn, At, Ranking
  <2> QED BY <2>3, <2>4, <2>5, <2>6, <1>7
<1>28. CASE CmdRank(t)
  <2>1. At(t, {"del", "upl", "dnl"}, "begin") /\ Replace(t, Ranked(t, grop[t.u]))
    BY <1>28 DEF CmdRank, Ranked
  <2>2. grop[t.u] \in Ranks \cup {None}
    BY <1>5 DEF TypeOK, RecordsOK
  <2> DEFINE r == Ranked(t, grop[t.u])
  <2>3. Moves(t, r) /\ r.v = t.v /\ r.step = "target" /\ Replace(t, r)
    BY <1>5, <2>1, <2>2, RankedFields
  <2> HIDE DEF r
  <2>4. r \in Task /\ Aims(r) /\ ~HalfIn(t)
    BY <1>5, <2>1, <2>3 DEF Moves, Aims, At, HalfIn
  <2>5. Holds(grop, mygp, ghosts, r) /\ HoldsRank(grop, r)
    BY <2>3, FreeSteps
  <2> QED BY <2>3, <2>4, <2>5, <1>7
<1>29. CASE CmdTarget(t)
  <2>1. /\ At(t, {"del", "upl", "dnl"}, "target")
        /\ \/ Answer(t, "chat")
           \/ /\ GoOn(t, "write") /\ grop[t.v] # None
              /\ compareLevel(t.rank, grop[t.v])
    BY <1>29 DEF CmdTarget
  <2>2. ~HalfIn(t)
    BY <2>1 DEF HalfIn, At
  <2>3. ASSUME GoOn(t, "write"), grop[t.v] # None, compareLevel(t.rank, grop[t.v])
        PROVE  MembersInv'
    <3>1. "write" \in Later \ {"other", "incr"} /\ "write" \in Later
      BY DEF Later
    <3>2. /\ Onward(t, "write").step = "write" /\ Onward(t, "write").op = t.op
          /\ Onward(t, "write").v = t.v /\ Onward(t, "write").rank = t.rank
      BY <1>5, <3>1, OnwardFields
    <3>3. t.rank # None => grop[t.v] # "owner"
      <4>1. t.rank \in Ranks \cup {None}
        BY <1>5, Fields
      <4>2. None \notin Ranks
        BY ConstantsAssumption
      <4> QED BY <4>1, <4>2, <2>3 DEF compareLevel, Strength, Ranks
    <3>4. Holds(grop, mygp, ghosts, Onward(t, "write")) /\ HoldsRank(grop, Onward(t, "write"))
      BY <2>1, <2>3, <3>2, <3>3 DEF Holds, HoldsRank, HalfIn, At
    <3> QED BY <2>2, <2>3, <3>1, <3>4, <1>8
  <2> QED BY <2>1, <2>2, <2>3, <1>6, <1>10
<1>30. CASE ChatCheck(t)
  <2>1. /\ t.op = "chat"
        /\ \/ Answer(t, "menu")
           \/ GoOn(t, "fetch") /\ mygp[t.u] # None
           \/ GoOn(t, "reset") /\ t.step = "fetch"
    BY <1>30 DEF ChatCheck, At
  <2>2. ~HalfIn(t)
    BY <2>1 DEF HalfIn, At
  <2>3. ASSUME NEW step \in {"fetch", "reset"}, GoOn(t, step),
               ~disturbed' => mygp[t.u] # None
        PROVE  MembersInv'
    <3>1. step \in Later \ {"other", "incr"} /\ step \in Later
      BY DEF Later
    <3>2. /\ Onward(t, step).step = step /\ Onward(t, step).op = t.op
          /\ Onward(t, step).u = t.u
      BY <1>5, <3>1, OnwardFields
    <3>3. ~disturbed' => Holds(grop, mygp, ghosts, Onward(t, step)) /\ HoldsRank(grop, Onward(t, step))
      BY <2>1, <2>3, <3>2 DEF Holds, HoldsRank, HalfIn, At, Ranking
    <3> QED BY <2>2, <2>3, <3>1, <3>3, <1>8
  <2>4. GoOn(t, "reset") /\ t.step = "fetch" => (~disturbed' => mygp[t.u] # None)
    BY <2>1, <1>4, <1>12 DEF Holds, At
  <2> QED BY <2>1, <2>2, <2>3, <2>4, <1>6, <1>10
<1>31. CASE MessageCheck(t)
  <2>1. At(t, {"message"}, "begin") /\ (GoOn(t, "store") \/ Done(t))
    BY <1>31 DEF MessageCheck
  <2> QED BY <2>1, <1>6, <1>9 DEF HalfIn, At
<1>32. CASE MessageSend(t)
  <2>1. PICK w \in t.todo \cap chatStatus_ \cap online :
           Replace(t, [t EXCEPT !.todo = @ \ {w}])
    BY <1>32 DEF MessageSend
  <2> DEFINE todo == t.todo \ {w}
  <2>2. /\ t.op = "message" /\ t.step = "each" /\ todo \in SUBSET Users
        /\ Replace(t, [t EXCEPT !.todo = todo])
    BY <1>32, <2>1, <1>5 DEF MessageSend, At
  <2> HIDE DEF todo
  <2> DEFINE r == Listed(t, "each", todo)
  <2>3. "each" \in Later
    BY DEF Later
  <2>4. Moves(t, r) /\ r.step = "each" /\ Replace(t, r)
    BY <1>5, <2>2, <2>3, ListedFields
  <2> HIDE DEF r
  <2>5. r \in Task /\ Aims(r) /\ ~HalfIn(t)
    BY <2>2, <2>4 DEF Moves, Aims, At, HalfIn
  <2>6. Holds(grop, mygp, ghosts, r) /\ HoldsRank(grop, r)
    BY <2>4, FreeSteps
  <2> QED BY <2>4, <2>5, <2>6, <1>7
<1>33. CASE MessageEnd(t)
  BY <1>33, <1>6, <1>11 DEF MessageEnd, HalfIn, At
<1> QED BY <1>21, <1>22, <1>23, <1>24, <1>25, <1>26, <1>27, <1>28, <1>29, <1>30,
       <1>31, <1>32, <1>33

\* What is known before a step of t, and of the tasks beside it, when the step
\* is undisturbed.
LEMMA MembersBefore ==
    ASSUME TypeOK, MembersInv, NEW t \in tasks, Note(t), ~disturbed'
    PROVE  /\ \A u \in Users : grop[u] # None => mygp[u] # None
           /\ \A u \in Users : mygp[u] # None =>
                 grop[u] # None \/ u \in ghosts \/ \E s \in tasks : HalfIn(s) /\ Target(s) = u
           /\ \A s \in tasks : Holds(grop, mygp, ghosts, s) /\ HoldsRank(grop, s)
           /\ ~outOfDate => OneOwner(grop)
           /\ grop \in [Users -> Ranks \cup {None}]
           /\ mygp \in [Users -> Nat \cup {None}]
           /\ \A s \in tasks : /\ s \in Task /\ Aims(s) /\ s.u \in Users
                               /\ HalfIn(s) => Target(s) \in Users
                               /\ At(s, {"message"}, "incr") => s.v \in Users
           /\ None \notin Ranks /\ None \notin Nat
<1>1. HistoryOK /\ TasksOK
  BY DEF TypeOK
<1>2. ~disturbed
  BY <1>1, Noted
<1>3. ASSUME NEW s \in tasks
      PROVE  /\ s \in Task /\ Aims(s) /\ s.u \in Users
             /\ HalfIn(s) => Target(s) \in Users
             /\ At(s, {"message"}, "incr") => s.v \in Users
  <2>1. s \in Task /\ Aims(s)
    BY <1>1 DEF TasksOK
  <2> QED BY <2>1, Fields DEF Aims, HalfIn, Target, At
<1> QED BY <1>2, <1>3, ConstantsAssumption DEF MembersInv, TypeOK, RecordsOK

\* A task beside one that joins, undisturbed, is not about to leave or rank.
LEMMA BesideJoining ==
    ASSUME TypeOK, NEW t \in tasks, t.op \in Joining, Note(t), ~disturbed',
           NEW s \in tasks \ {t}
    PROVE  /\ ~At(s, {"leave2"}, "drop") /\ ~At(s, {"leave", "leave2"}, "quit")
           /\ ~At(s, {"del", "upl", "dnl"}, "write") /\ ~At(s, Ranking, "write")
           /\ ~At(s, {"leave"}, "rank3")
           /\ ~At(s, {"create"}, "own") /\ ~At(s, {"create"}, "other")
<1>1. s.step # "begin" => s.op \notin Leaving /\ s.op # "create" /\ s.op \notin Ranking
  BY Alone
<1> QED BY <1>1 DEF At, Leaving, Ranking

\* A member joins with both records, or with one after the other.
LEMMA MembersGrow ==
    ASSUME TypeOK, MembersInv, NEW t \in tasks,
           CreateJoin(t) \/ VerifyMy(t) \/ VerifyGrop(t)
    PROVE  MembersInv'
<1>1. Note(t) /\ t.op \in Joining
  BY DEF CreateJoin, VerifyMy, VerifyGrop, At, Joining
<1>2. (Done(t) => tasks' = (tasks \ {t}) \cup {})
  BY DEF Done
<1>3. "owner" \in Ranks /\ "member" \in Ranks
  BY DEF Ranks
<1>4. /\ t \in Task /\ Aims(t) /\ t.u \in Users
  BY Fields DEF TypeOK, TasksOK
<1>11. CASE CreateJoin(t) /\ t.step = "own"
  <2>1. /\ At(t, {"create"}, "own") /\ outOfDate' = outOfDate
        /\ grop' = [grop EXCEPT ![t.u] = "owner"] /\ mygp' = [mygp EXCEPT ![t.u] = 0]
        /\ ghosts' = ghosts \ {t.u}
        /\ End(t) \/ (t.v # None /\ GoOn(t, "other"))
    BY <1>11 DEF CreateJoin, Join, At
  <2> DEFINE r == Onward(t, "other")
  <2>2. "other" \in Later
    BY DEF Later
  <2>3. r.op = "create" /\ r.u = t.u /\ r.step = "other"
    BY <1>4, <2>1, <2>2, OnwardFields DEF At
  <2>4. PICK R \in {{}, {r}} : tasks' = (tasks \ {t}) \cup R
    BY <2>1 DEF End, Done, GoOn, Goto, Replace, Onward
  <2> HIDE DEF r
  <2>5. ASSUME ~disturbed'
        PROVE  /\ \A u \in Users : grop'[u] # None => mygp'[u] # None
               /\ \A u \in Users : mygp'[u] # None =>
                     \/ grop'[u] # None \/ u \in ghosts'
                     \/ \E s \in (tasks \ {t}) \cup R : HalfIn(s) /\ Target(s) = u
               /\ \A s \in tasks \ {t} : Holds(grop', mygp', ghosts', s) /\ HoldsRank(grop', s)
               /\ \A q \in R : Holds(grop', mygp', ghosts', q) /\ HoldsRank(grop', q)
               /\ ~outOfDate' => OneOwner(grop')
    <3> DEFINE F == grop'
               M == mygp'
               G == ghosts'
    <3>1. /\ \A u \in Users : grop[u] = None
          /\ \A u \in Users : F[u] = IF u = t.u THEN "owner" ELSE None
          /\ \A u \in Users : M[u] = IF u = t.u THEN 0 ELSE mygp[u]
          /\ \A u \in Users : u \in ghosts => u = t.u \/ u \in G
          /\ 0 # None /\ "owner" # None
      BY <1>1, <1>3, <2>1, <2>5, MembersBefore DEF HoldsRank
    <3>2. /\ \A u \in Users : mygp[u] # None =>
                 u \in ghosts \/ \E s \in tasks : HalfIn(s) /\ Target(s) = u
          /\ \A s \in tasks : Holds(grop, mygp, ghosts, s)
          /\ \A s \in tasks : /\ s.u \in Users
                              /\ HalfIn(s) => Target(s) \in Users
                              /\ At(s, {"message"}, "incr") => s.v \in Users
      BY <1>1, <2>5, <3>1, MembersBefore
    <3> HIDE DEF F, M, G
    <3>3. ~HalfIn(t)
      BY <2>1 DEF HalfIn, At
    <3>4. ASSUME NEW s \in tasks \ {t} PROVE Holds(F, M, G, s) /\ HoldsRank(F, s)
      BY <1>1, <2>5, <3>1, <3>2, BesideJoining DEF Holds, HoldsRank
    <3>5. Holds(F, M, G, r) /\ HoldsRank(F, r)
      BY <1>4, <2>3, <3>1 DEF Holds, HoldsRank, HalfIn, At, Ranking
    <3>6. OneOwner(F)
      BY <1>4, <3>1 DEF OneOwner
    <3>7. \A u \in Users : F[u] # None => M[u] # None
      BY <3>1
    <3>8. \A u \in Users : M[u] # None =>
             F[u] # None \/ u \in G \/ \E s \in (tasks \ {t}) \cup R : HalfIn(s) /\ Target(s) = u
      BY <3>1, <3>2, <3>3
    <3> QED BY <3>3, <3>4, <3>5, <3>6, <3>7, <3>8 DEF F, M, G
  <2> QED BY <2>4, <2>5, MembersAfter
<1>12. CASE CreateJoin(t) /\ t.step # "own"
  <2>1. /\ At(t, {"create"}, "other") /\ outOfDate' = outOfDate
        /\ grop' = [grop EXCEPT ![t.v] = "member"] /\ mygp' = [mygp EXCEPT ![t.v] = 0]
        /\ ghosts' = ghosts \ {t.v} /\ Done(t)
    BY <1>12 DEF CreateJoin, Join, At, End
  <2> DEFINE R == {}
  <2>2. tasks' = (tasks \ {t}) \cup R
    BY <2>1 DEF Done
  <2>3. t.v \in Users /\ t.v # t.u
    BY <1>4, <2>1 DEF Aims, At
  <2>5. ASSUME ~disturbed'
        PROVE  /\ \A u \in Users : grop'[u] # None => mygp'[u] # None
               /\ \A u \in Users : mygp'[u] # None =>
                     \/ grop'[u] # None \/ u \in ghosts'
                     \/ \E s \in (tasks \ {t}) \cup R : HalfIn(s) /\ Target(s) = u
               /\ \A s \in tasks \ {t} : Holds(grop', mygp', ghosts', s) /\ HoldsRank(grop', s)
               /\ \A q \in R : Holds(grop', mygp', ghosts', q) /\ HoldsRank(grop', q)
               /\ ~outOfDate' => OneOwner(grop')
    <3> DEFINE F == grop'
               M == mygp'
               G == ghosts'
    <3>1. /\ grop[t.u] = "owner"
          /\ \A u \in Users : F[u] = IF u = t.v THEN "member" ELSE grop[u]
          /\ \A u \in Users : M[u] = IF u = t.v THEN 0 ELSE mygp[u]
          /\ \A u \in Users : u \in ghosts => u = t.v \/ u \in G
          /\ 0 # None /\ "member" # None /\ "owner" # None
      BY <1>1, <1>3, <2>1, <2>5, MembersBefore DEF HoldsRank
    <3>2. /\ \A u \in Users : grop[u] # None => mygp[u] # None
          /\ \A u \in Users : mygp[u] # None =>
                 grop[u] # None \/ u \in ghosts \/ \E s \in tasks : HalfIn(s) /\ Target(s) = u
          /\ \A s \in tasks : Holds(grop, mygp, ghosts, s)
          /\ \A s \in tasks : /\ s.u \in Users
                              /\ HalfIn(s) => Target(s) \in Users
                              /\ At(s, {"message"}, "incr") => s.v \in Users
          /\ ~outOfDate => OneOwner(grop)
      BY <1>1, <2>5, MembersBefore
    <3> HIDE DEF F, M, G
    <3>3. ~HalfIn(t)
      BY <2>1 DEF HalfIn, At
    <3>4. ASSUME NEW s \in tasks \ {t} PROVE Holds(F, M, G, s) /\ HoldsRank(F, s)
      BY <1>1, <2>5, <3>1, <3>2, BesideJoining DEF Holds, HoldsRank
    <3>6. ~outOfDate => OneOwner(F)
      BY <1>4, <2>3, <3>1, <3>2 DEF OneOwner
    <3>7. \A u \in Users : F[u] # None => M[u] # None
      BY <3>1, <3>2
    <3>8. \A u \in Users : M[u] # None =>
             F[u] # None \/ u \in G \/ \E s \in (tasks \ {t}) \cup R : HalfIn(s) /\ Target(s) = u
      BY <3>1, <3>2, <3>3
    <3> QED BY <2>1, <3>4, <3>6, <3>7, <3>8 DEF F, M, G
  <2> HIDE DEF R
  <2> QED BY <2>2, <2>5, MembersAfter
<1>13. CASE VerifyMy(t)
  <2> DEFINE r == Onward(t, "grop")
  <2>1. /\ At(t, {"agree", "accept"}, "my") /\ outOfDate' = outOfDate /\ grop' = grop
        /\ mygp' = [mygp EXCEPT ![Target(t)] = 0] /\ ghosts' = ghosts
        /\ tasks' = (tasks \ {t}) \cup {r}
    BY <1>13 DEF VerifyMy, GoOn, Goto, Replace, Onward
  <2>2. "grop" \in Later
    BY DEF Later
  <2>3. r.op = t.op /\ r.u = t.u /\ r.v = t.v /\ r.step = "grop"
    BY <1>4, <2>2, OnwardFields
  <2>4. /\ Target(r) = Target(t) /\ Target(t) \in Users /\ HalfIn(r)
        /\ r.op \in {"agree", "accept"}
    BY <1>4, <2>1, <2>3 DEF Target, Aims, HalfIn, At
  <2> HIDE DEF r
  <2> DEFINE R == {r}
  <2>5. ASSUME ~disturbed'
        PROVE  /\ \A u \in Users : grop'[u] # None => mygp'[u] # None
               /\ \A u \in Users : mygp'[u] # None =>
                     \/ grop'[u] # None \/ u \in ghosts'
                     \/ \E s \in (tasks \ {t}) \cup R : HalfIn(s) /\ Target(s) = u
               /\ \A s \in tasks \ {t} : Holds(grop', mygp', ghosts', s) /\ HoldsRank(grop', s)
               /\ \A q \in R : Holds(grop', mygp', ghosts', q) /\ HoldsRank(grop', q)
               /\ ~outOfDate' => OneOwner(grop')
    <3> DEFINE M == mygp'
    <3>1. /\ \A u \in Users : M[u] = IF u = Target(t) THEN 0 ELSE mygp[u]
          /\ 0 # None
      BY <1>1, <2>1, <2>5, MembersBefore
    <3>2. /\ \A u \in Users : grop[u] # None => mygp[u] # None
          /\ \A u \in Users : mygp[u] # None =>
                 grop[u] # None \/ u \in ghosts \/ \E s \in tasks : HalfIn(s) /\ Target(s) = u
          /\ \A s \in tasks : Holds(grop, mygp, ghosts, s)
          /\ \A s \in tasks : /\ s.u \in Users
                              /\ HalfIn(s) => Target(s) \in Users
                              /\ At(s, {"message"}, "incr") => s.v \in Users
          /\ ~outOfDate => OneOwner(grop)
      BY <1>1, <2>5, MembersBefore
    <3> HIDE DEF M
    <3>3. ~HalfIn(t)
      BY <2>1 DEF HalfIn, At
    <3>4. ASSUME NEW s \in tasks \ {t} PROVE Holds(grop, M, ghosts, s) /\ HoldsRank(grop, s)
      BY <1>1, <2>5, <3>1, <3>2, BesideJoining DEF Holds, HoldsRank
    <3>5. Holds(grop, M, ghosts, r) /\ HoldsRank(grop, r)
      BY <2>3, <2>4, <3>1 DEF Holds, HoldsRank, At, Ranking
    <3>7. \A u \in Users : grop[u] # None => M[u] # None
      BY <3>1, <3>2
    <3>8. \A u \in Users : M[u] # None =>
             grop[u] # None \/ u \in ghosts \/ \E s \in (tasks \ {t}) \cup R : HalfIn(s) /\ Target(s) = u
      BY <2>4, <3>1, <3>2, <3>3
    <3> QED BY <2>1, <3>2, <3>4, <3>5, <3>7, <3>8 DEF M
  <2> HIDE DEF R
  <2>6. tasks' = (tasks \ {t}) \cup R
    BY <2>1 DEF R
  <2> QED BY <2>6, <2>5, MembersAfter
<1>14. CASE VerifyGrop(t)
  <2> DEFINE r == Onward(t, "lrem")
  <2>1. /\ At(t, {"agree", "accept"}, "grop") /\ mygp' = mygp /\ ghosts' = ghosts \ {Target(t)}
        /\ grop' = [grop EXCEPT ![Target(t)] = "member"]
        /\ ~outOfDate' => ~outOfDate /\ isgroup /\ grop[Target(t)] # "owner"
        /\ tasks' = (tasks \ {t}) \cup {r}
    BY <1>14 DEF VerifyGrop, GoOn, Goto, Replace, Onward
  <2>2. "lrem" \in Later
    BY DEF Later
  <2>3. r.step = "lrem"
    BY <1>4, <2>2, OnwardFields
  <2>4. Target(t) \in Users /\ HalfIn(t)
    BY <1>4, <2>1 DEF Target, Aims, HalfIn, At
  <2> HIDE DEF r
  <2> DEFINE R == {r}
  <2>5. ASSUME ~disturbed'
        PROVE  /\ \A u \in Users : grop'[u] # None => mygp'[u] # None
               /\ \A u \in Users : mygp'[u] # None =>
                     \/ grop'[u] # None \/ u \in ghosts'
                     \/ \E s \in (tasks \ {t}) \cup R : HalfIn(s) /\ Target(s) = u
               /\ \A s \in tasks \ {t} : Holds(grop', mygp', ghosts', s) /\ HoldsRank(grop', s)
               /\ \A q \in R : Holds(grop', mygp', ghosts', q) /\ HoldsRank(grop', q)
               /\ ~outOfDate' => OneOwner(grop')
    <3> DEFINE F == grop'
               G == ghosts'
    <3>1. /\ \A u \in Users : F[u] = IF u = Target(t) THEN "member" ELSE grop[u]
          /\ \A u \in Users : u \in ghosts => u = Target(t) \/ u \in G
          /\ "member" # None
      BY <1>1, <1>3, <2>1, <2>5, MembersBefore
    <3>2. /\ \A u \in Users : grop[u] # None => mygp[u] # None
          /\ \A u \in Users : mygp[u] # None =>
                 grop[u] # None \/ u \in ghosts \/ \E s \in tasks : HalfIn(s) /\ Target(s) = u
          /\ \A s \in tasks : Holds(grop, mygp, ghosts, s)
          /\ ~outOfDate => OneOwner(grop)
      BY <1>1, <2>5, MembersBefore
    <3> HIDE DEF F, G
    <3>3. mygp[Target(t)] # None
      BY <2>4, <3>2 DEF Holds
    <3>4. ASSUME NEW s \in tasks \ {t} PROVE Holds(F, mygp, G, s) /\ HoldsRank(F, s)
      BY <1>1, <2>5, <3>1, <3>2, BesideJoining DEF Holds, HoldsRank
    <3>5. Holds(F, mygp, G, r) /\ HoldsRank(F, r)
      BY <2>3, FreeSteps
    <3>6. ~outOfDate' => OneOwner(F)
      <4>1. SUFFICES ASSUME ~outOfDate' PROVE OneOwner(F)
        OBVIOUS
      <4>2. PICK o \in Users : \A u \in Users : grop[u] = "owner" <=> u = o
        BY <2>1, <3>2, <4>1 DEF OneOwner, isgroup, Members
      <4>3. o # Target(t)
        BY <2>1, <4>1, <4>2
      <4>4. \A u \in Users : F[u] = "owner" <=> u = o
        BY <3>1, <4>2, <4>3
      <4> QED BY <4>4 DEF OneOwner
    <3>7. \A u \in Users : F[u] # None => mygp[u] # None
      BY <3>1, <3>2, <3>3
    <3>8. \A u \in Users : mygp[u] # None =>
             F[u] # None \/ u \in G \/ \E s \in (tasks \ {t}) \cup R : HalfIn(s) /\ Target(s) = u
      BY <3>1, <3>2
    <3> QED BY <2>1, <3>4, <3>5, <3>6, <3>7, <3>8 DEF F, G
  <2> HIDE DEF R
  <2>6. tasks' = (tasks \ {t}) \cup R
    BY <2>1 DEF R
  <2> QED BY <2>6, <2>5, MembersAfter
<1> QED BY <1>11, <1>12, <1>13, <1>14

\* A task beside one that leaves, undisturbed, is not about to join, to rank
\* or to count.
LEMMA BesideLeaving ==
    ASSUME TypeOK, NEW t \in tasks, t.op \in Leaving, Note(t), ~disturbed',
           NEW s \in tasks \ {t}
    PROVE  /\ ~HalfIn(s) /\ ~At(s, Ranking, "write")
           /\ ~At(s, {"message"}, "incr") /\ ~At(s, {"chat"}, "fetch")
           /\ ~At(s, {"chat"}, "reset")
           /\ ~At(s, {"create"}, "own") /\ ~At(s, {"create"}, "other")
<1>1. s.step # "begin" => s.op \notin Joining \cup Ranking \cup Counting
  BY Alone
<1> QED BY <1>1 DEF HalfIn, At, Joining, Ranking, Counting

\* Members are gone with both records: one that is not the owner, or all.
LEMMA MembersShrink ==
    ASSUME TypeOK, MembersInv, NEW t \in tasks, t.op \in Leaving, Note(t),
           NEW S, grop' = [u \in Users |-> IF u \in S THEN None ELSE grop[u]],
           ~disturbed' => \A u \in Users :
              /\ IF u \in S THEN mygp'[u] = None \/ (mygp'[u] = mygp[u] /\ u \in ghosts')
                 ELSE mygp'[u] = mygp[u]
              /\ u \in ghosts /\ mygp'[u] # None => u \in ghosts',
           ~disturbed' /\ ~outOfDate' =>
              ~outOfDate /\ (Users \subseteq S \/ \A u \in S : grop[u] # "owner"),
           Done(t)
    PROVE  MembersInv'
<1> DEFINE R == {}
           F == grop'
           M == mygp'
           G == ghosts'
<1>1. tasks' = (tasks \ {t}) \cup R
  BY DEF Done
<1>2. ASSUME ~disturbed'
      PROVE  /\ \A u \in Users : grop'[u] # None => mygp'[u] # None
             /\ \A u \in Users : mygp'[u] # None =>
                   \/ grop'[u] # None \/ u \in ghosts'
                   \/ \E s \in (tasks \ {t}) \cup R : HalfIn(s) /\ Target(s) = u
             /\ \A s \in tasks \ {t} : Holds(grop', mygp', ghosts', s) /\ HoldsRank(grop', s)
             /\ \A q \in R : Holds(grop', mygp', ghosts', q) /\ HoldsRank(grop', q)
             /\ ~outOfDate' => OneOwner(grop')
  <2>1. /\ \A u \in Users : F[u] = IF u \in S THEN None ELSE grop[u]
        /\ \A u \in Users : IF u \in S THEN M[u] = None \/ (M[u] = mygp[u] /\ u \in G)
                            ELSE M[u] = mygp[u]
        /\ \A u \in Users : u \in ghosts /\ M[u] # None => u \in G
        /\ ~outOfDate' =>
              ~outOfDate /\ (Users \subseteq S \/ \A u \in S : grop[u] # "owner")
    BY <1>2
  <2>2. /\ \A u \in Users : grop[u] # None => mygp[u] # None
        /\ \A u \in Users : mygp[u] # None =>
               grop[u] # None \/ u \in ghosts \/ \E s \in tasks : HalfIn(s) /\ Target(s) = u
        /\ \A s \in tasks : Holds(grop, mygp, ghosts, s) /\ HoldsRank(grop, s)
        /\ \A s \in tasks : s.u \in Users /\ Aims(s)
        /\ ~outOfDate => OneOwner(grop)
        /\ None # "owner"
    BY <1>2, MembersBefore DEF Ranks
  <2> HIDE DEF F, M, G
  <2>3. \A s \in tasks : ~HalfIn(s)
    BY <1>2, BesideLeaving DEF HalfIn, At, Leaving
  <2>4. ASSUME NEW s \in tasks \ {t} PROVE Holds(F, M, G, s) /\ HoldsRank(F, s)
    <3>1. Holds(F, M, G, s)
      BY <1>2, <2>1, <2>2, BesideLeaving DEF Holds
    <3>2. At(s, {"del", "upl", "dnl"}, "write") => s.v \in Users
      BY <2>2 DEF Aims, At
    <3>3. HoldsRank(F, s)
      BY <1>2, <2>1, <2>2, <3>2, BesideLeaving DEF HoldsRank
    <3> QED BY <3>1, <3>3
  <2>5. ~outOfDate' => OneOwner(F)
    <3>1. SUFFICES ASSUME ~outOfDate' PROVE OneOwner(F)
      OBVIOUS
    <3>2. CASE \A u \in Users : F[u] = None
      BY <3>2 DEF OneOwner
    <3>3. CASE ~(\A u \in Users : F[u] = None)
      <4>1. PICK o \in Users : \A u \in Users : grop[u] = "owner" <=> u = o
        BY <2>1, <2>2, <3>1, <3>3 DEF OneOwner
      <4>2. o \notin S
        BY <2>1, <3>1, <3>3, <4>1
      <4>3. \A u \in Users : F[u] = "owner" <=> u = o
        BY <2>1, <2>2, <4>1, <4>2
      <4> QED BY <4>3 DEF OneOwner
    <3> QED BY <3>2, <3>3
  <2>6. \A u \in Users : F[u] # None => M[u] # None
    BY <2>1, <2>2
  <2>7. \A u \in Users : M[u] # None => F[u] # None \/ u \in G
    BY <2>1, <2>2, <2>3
  <2> QED BY <2>4, <2>5, <2>6, <2>7 DEF F, M, G
<1> HIDE DEF R
<1> QED BY <1>1, <1>2, MembersAfter

\* A member gets another rank, who is not the owner.
LEMMA MembersRanked ==
    ASSUME TypeOK, MembersInv, NEW t \in tasks, At(t, Ranking, "write"), Note(t),
           NEW rank \in {"admin", "member"}, grop' = [grop EXCEPT ![t.v] = rank],
           mygp' = mygp, ghosts' = ghosts,
           outOfDate' = (outOfDate \/ t.rank = None), Done(t)
    PROVE  MembersInv'
<1> DEFINE R == {}
           F == grop'
<1>1. tasks' = (tasks \ {t}) \cup R
  BY DEF Done
<1>2. ASSUME ~disturbed'
      PROVE  /\ \A u \in Users : grop'[u] # None => mygp'[u] # None
             /\ \A u \in Users : mygp'[u] # None =>
                   \/ grop'[u] # None \/ u \in ghosts'
                   \/ \E s \in (tasks \ {t}) \cup R : HalfIn(s) /\ Target(s) = u
             /\ \A s \in tasks \ {t} : Holds(grop', mygp', ghosts', s) /\ HoldsRank(grop', s)
             /\ \A q \in R : Holds(grop', mygp', ghosts', q) /\ HoldsRank(grop', q)
             /\ ~outOfDate' => OneOwner(grop')
  <2>1. /\ \A u \in Users : F[u] = IF u = t.v THEN rank ELSE grop[u]
        /\ rank # None /\ rank # "owner" /\ "owner" # None
    BY <1>2, MembersBefore DEF Ranks
  <2>2. /\ \A u \in Users : grop[u] # None => mygp[u] # None
        /\ \A u \in Users : mygp[u] # None =>
               grop[u] # None \/ u \in ghosts \/ \E s \in tasks : HalfIn(s) /\ Target(s) = u
        /\ \A s \in tasks : Holds(grop, mygp, ghosts, s) /\ HoldsRank(grop, s)
        /\ \A s \in tasks : s.u \in Users /\ Aims(s)
        /\ ~outOfDate => OneOwner(grop)
    BY <1>2, MembersBefore
  <2> HIDE DEF F
  <2>3. /\ t.v \in Users /\ grop[t.v] # None /\ (t.rank # None => grop[t.v] # "owner")
        /\ ~HalfIn(t)
    BY <2>2 DEF Holds, HoldsRank, HalfIn, At, Aims, Ranking
  <2>4. ASSUME NEW s \in tasks \ {t} PROVE Holds(F, mygp, ghosts, s) /\ HoldsRank(F, s)
    <3>1. s.step # "begin" => s.op \notin Leaving /\ s.op \notin Joining
      BY <1>2, Alone DEF At
    <3>2. At(s, {"del", "upl", "dnl"}, "write") => s.v \in Users
      BY <2>2 DEF Aims, At
    <3>3. At(s, Ranking, "write") => s.v \in Users
      BY <2>2 DEF Aims, At, Ranking
    <3>4. /\ ~At(s, {"create"}, "own") /\ ~At(s, {"create"}, "other")
          /\ ~At(s, {"leave", "leave2"}, "quit") /\ ~At(s, {"leave"}, "rank3")
      BY <3>1 DEF At, Leaving, Joining
    <3>5. Holds(F, mygp, ghosts, s)
      BY <2>1, <2>2, <3>3 DEF Holds
    <3>6. HoldsRank(F, s)
      BY <2>1, <2>2, <3>2, <3>4 DEF HoldsRank
    <3> QED BY <3>5, <3>6
  <2>5. ASSUME ~outOfDate' PROVE OneOwner(F)
    <3>1. ~outOfDate /\ t.rank # None
      BY <2>5
    <3>2. PICK o \in Users : \A u \in Users : grop[u] = "owner" <=> u = o
      BY <2>2, <2>3, <3>1 DEF OneOwner
    <3>3. \A u \in Users : F[u] = "owner" <=> u = o
      BY <2>1, <2>3, <3>1, <3>2
    <3> QED BY <3>3 DEF OneOwner
  <2>6. \A u \in Users : F[u] # None => mygp[u] # None
    BY <2>1, <2>2, <2>3
  <2>7. \A u \in Users : mygp[u] # None =>
             F[u] # None \/ u \in ghosts \/ \E s \in (tasks \ {t}) \cup R : HalfIn(s) /\ Target(s) = u
    BY <2>1, <2>2, <2>3
  <2> QED BY <2>4, <2>5, <2>6, <2>7 DEF F
<1> HIDE DEF R
<1> QED BY <1>1, <1>2, MembersAfter

\* The other steps of tasks.
LEMMA MembersSteps ==
    ASSUME TypeOK, Ident, MembersInv, NEW t \in tasks,
           \/ AddPush(t) \/ VerifyLrem(t) \/ LeaveQuit(t) \/ LeaveDrop(t)
           \/ CmdWrite(t) \/ ChatReset(t) \/ ChatFlag(t) \/ seeHistory(t) \/ endChat(t)
           \/ MessageStore(t) \/ MessageCount(t) \/ MessageIncr(t)
    PROVE  MembersInv'
<1>1. HistoryOK /\ TasksOK
  BY DEF TypeOK
<1>2. Note(t) => (disturbed => disturbed')
  BY <1>1, Noted
<1>3. /\ t \in Task /\ Aims(t) /\ t.u \in Users /\ t.v \in Users \cup {None}
      /\ t.todo \in SUBSET Users /\ t.n \in Nat /\ Members \in SUBSET Users
  BY <1>1, Fields DEF TasksOK, Members
<1>4. \A to : Answer(t, to) => Done(t)
  BY DEF Answer
<1>5. End(t) => Done(t)
  BY DEF End
<1>6. ASSUME grop' = grop, mygp' = mygp, ghosts' = ghosts, outOfDate' = outOfDate,
             Note(t), ~HalfIn(t), Done(t)
      PROVE  MembersInv'
  BY <1>2, <1>6, MembersEnd
<1>11. CASE AddPush(t)
  <2>1. Note(t) /\ Done(t) /\ UNCHANGED <<membership, outOfDate>> /\ t.step = "push"
    BY <1>4, <1>11 DEF AddPush, At
  <2> QED BY <2>1, <1>6 DEF membership, HalfIn, At
<1>12. CASE VerifyLrem(t)
  <2>1. Note(t) /\ Done(t) /\ UNCHANGED <<membership, outOfDate>> /\ t.step = "lrem"
    BY <1>4, <1>12 DEF VerifyLrem, At
  <2> QED BY <2>1, <1>6 DEF membership, HalfIn, At
<1>13. CASE ChatFlag(t)
  <2>1. Note(t) /\ Done(t) /\ UNCHANGED <<membership, outOfDate>> /\ t.step = "flag"
    BY <1>4, <1>13 DEF ChatFlag, At
  <2> QED BY <2>1, <1>6 DEF membership, HalfIn, At
<1>14. CASE endChat(t)
  <2>1. Note(t) /\ Done(t) /\ UNCHANGED <<membership, outOfDate>> /\ t.step = "begin"
    BY <1>5, <1>14 DEF endChat, At
  <2> QED BY <2>1, <1>6 DEF membership, HalfIn, At
<1>15. CASE LeaveQuit(t)
  <2>1. /\ At(t, {"leave", "leave2"}, "quit") /\ Part({t.u}) /\ Note(t) /\ Done(t)
        /\ outOfDate' = outOfDate
    BY <1>4, <1>15 DEF LeaveQuit
  <2> DEFINE S == {t.u}
  <2>2. /\ grop' = [u \in Users |-> IF u \in S THEN None ELSE grop[u]]
        /\ \A u \in Users : /\ mygp'[u] = IF u \in S THEN None ELSE mygp[u]
                            /\ u \in ghosts /\ mygp'[u] # None => u \in ghosts'
    BY <2>1 DEF Part
  <2>3. t.op \in Leaving
    BY <2>1 DEF At, Leaving
  <2>4. ~disturbed' => \A u \in S : grop[u] # "owner"
    BY <2>1, MembersBefore DEF HoldsRank
  <2> HIDE DEF S
  <2> QED BY <2>1, <2>2, <2>3, <2>4, MembersShrink
<1>16. CASE LeaveDrop(t)
  <2>1. /\ At(t, {"leave2"}, "drop") /\ Note(t) /\ Done(t) /\ outOfDate' = outOfDate
        /\ grop' = [u \in Users |-> None]
        /\ mygp' = [u \in Users |-> IF u \in t.todo THEN None ELSE mygp[u]]
        /\ ghosts' = ghosts \ t.todo
    BY <1>5, <1>16 DEF LeaveDrop
  <2> DEFINE S == Users
  <2>2. grop' = [u \in Users |-> IF u \in S THEN None ELSE grop[u]]
    BY <2>1
  <2>3. t.op \in Leaving
    BY <2>1 DEF At, Leaving
  <2>4. ~disturbed' => \A u \in Users : mygp[u] # None => u \in t.todo \/ u \in ghosts
    BY <2>1, MembersBefore DEF Holds
  <2>5. ~disturbed' => \A u \in Users :
              /\ IF u \in S THEN mygp'[u] = None \/ (mygp'[u] = mygp[u] /\ u \in ghosts')
                 ELSE mygp'[u] = mygp[u]
              /\ u \in ghosts /\ mygp'[u] # None => u \in ghosts'
    BY <2>1, <2>4
  <2>6. Users \subseteq S
    OBVIOUS
  <2> HIDE DEF S
  <2> QED BY <2>1, <2>2, <2>3, <2>5, <2>6, MembersShrink
<1>17. CASE CmdWrite(t) /\ t.op = "del"
  <2>1. /\ At(t, {"del", "upl", "dnl"}, "write") /\ Part({t.v}) /\ Note(t) /\ Done(t)
        /\ outOfDate' = (outOfDate \/ t.rank = None)
    BY <1>4, <1>17 DEF CmdWrite
  <2> DEFINE S == {t.v}
  <2>2. /\ grop' = [u \in Users |-> IF u \in S THEN None ELSE grop[u]]
        /\ \A u \in Users : /\ mygp'[u] = IF u \in S THEN None ELSE mygp[u]
                            /\ u \in ghosts /\ mygp'[u] # None => u \in ghosts'
    BY <2>1 DEF Part
  <2>3. t.op \in Leaving
    BY <1>17 DEF Leaving
  <2>4. ~disturbed' /\ ~outOfDate' => ~outOfDate /\ \A u \in S : grop[u] # "owner"
    BY <2>1, MembersBefore DEF HoldsRank
  <2> HIDE DEF S
  <2> QED BY <2>1, <2>2, <2>3, <2>4, MembersShrink
<1>18. CASE CmdWrite(t) /\ t.op # "del"
  <2>1. /\ At(t, {"del", "upl", "dnl"}, "write") /\ Note(t) /\ Done(t) /\ mygp' = mygp
        /\ ghosts' = ghosts /\ outOfDate' = (outOfDate \/ t.rank = None)
        /\ grop' = [grop EXCEPT ![t.v] = IF t.op = "upl" THEN "admin" ELSE "member"]
    BY <1>4, <1>18 DEF CmdWrite
  <2>2. At(t, Ranking, "write")
    BY <1>18, <2>1 DEF At, Ranking
  <2>3. PICK rank \in {"admin", "member"} : grop' = [grop EXCEPT ![t.v] = rank]
    BY <2>1
  <2> QED BY <2>1, <2>2, <2>3, MembersRanked
<1>19. CASE ChatReset(t)
  <2> DEFINE r == Onward(t, "flag")
  <2>1. /\ At(t, {"chat"}, "reset") /\ Note(t) /\ grop' = grop /\ outOfDate' = outOfDate
        /\ ghosts' = ghosts
        /\ mygp' = [mygp EXCEPT ![t.u] = 0] /\ tasks' = (tasks \ {t}) \cup {r}
    BY <1>19 DEF ChatReset, GoOn, Goto, Replace, Onward
  <2>2. "flag" \in Later
    BY DEF Later
  <2>3. r.step = "flag" /\ r \in Task /\ Aims(r) /\ ~HalfIn(t)
    BY <1>3, <2>1, <2>2, OnwardFields DEF Aims, At, HalfIn
  <2> HIDE DEF r
  <2>4. Holds(grop, mygp, ghosts, r) /\ HoldsRank(grop, r)
    BY <2>3, FreeSteps
  <2>5. ~disturbed' => \A u \in Users : mygp'[u] = None <=> mygp[u] = None
    BY <2>1, MembersBefore DEF Holds
  <2> DEFINE R == {r}
  <2>6. /\ \A q \in R : q \in Task /\ Aims(q) /\ Holds(grop, mygp, ghosts, q) /\ HoldsRank(grop, q)
        /\ tasks' = (tasks \ {t}) \cup R
    BY <2>1, <2>3, <2>4
  <2> HIDE DEF R
  <2> QED BY <1>2, <2>1, <2>3, <2>5, <2>6, MembersQuiet
<1>20. CASE MessageStore(t)
  <2>1. /\ Note(t) /\ t.op = "message"
        /\ UNCHANGED <<membership, outOfDate>>
        /\ \/ GoOn(t, "members")
           \/ Replace(t, Listed(t, "each", Members \ {t.u}))
    BY <1>20 DEF MessageStore, Listed, At
  <2>2. "each" \in Later /\ "members" \in Later \ {"other", "incr"} /\ "members" \in Later
    BY DEF Later
  <2>3. /\ grop' = grop /\ mygp' = mygp /\ ghosts' = ghosts /\ outOfDate' = outOfDate
        /\ ~HalfIn(t)
    BY <2>1 DEF membership, HalfIn, At
  <2>4. CASE GoOn(t, "members")
    <3>1. Onward(t, "members").step = "members"
      BY <1>3, <2>2, OnwardFields
    <3>2. Holds(grop, mygp, ghosts, Onward(t, "members")) /\ HoldsRank(grop, Onward(t, "members"))
      BY <3>1, FreeSteps
    <3> QED BY <1>2, <2>1, <2>2, <2>3, <2>4, <3>2, MembersGoOn
  <2>5. CASE Replace(t, Listed(t, "each", Members \ {t.u}))
    <3> DEFINE r == Listed(t, "each", Members \ {t.u})
    <3>1. Members \ {t.u} \in SUBSET Users
      BY <1>3
    <3>2. Moves(t, r) /\ r.step = "each" /\ Replace(t, r)
      BY <1>3, <2>2, <2>5, <3>1, ListedFields
    <3> HIDE DEF r
    <3>3. r \in Task /\ Aims(r)
      BY <2>1, <3>2 DEF Moves, Aims, At
    <3>4. Holds(grop, mygp, ghosts, r) /\ HoldsRank(grop, r)
      BY <3>2, FreeSteps
    <3> QED BY <1>2, <2>1, <2>3, <3>2, <3>3, <3>4, MembersMove
  <2> QED BY <2>1, <2>4, <2>5
<1>21. CASE MessageCount(t)
  <2>1. At(t, {"message"}, "each") /\ UNCHANGED <<membership, outOfDate>>
    BY <1>21 DEF MessageCount
  <2>2. PICK w \in t.todo \ chatStatus_ :
           \/ mygp[w] # None /\ Replace(t, Counted(t, w, mygp[w])) /\ Note(t)
           \/ Done(t) /\ disturbed' = disturbed
    BY <1>21 DEF MessageCount, Counted
  <2>3. /\ grop' = grop /\ mygp' = mygp /\ ghosts' = ghosts /\ outOfDate' = outOfDate
        /\ ~HalfIn(t)
    BY <2>1 DEF membership, HalfIn, At
  <2>4. CASE Done(t) /\ disturbed' = disturbed
    BY <2>3, <2>4, MembersEnd
  <2>5. CASE mygp[w] # None /\ Replace(t, Counted(t, w, mygp[w])) /\ Note(t)
    <3> DEFINE r == Counted(t, w, mygp[w])
    <3>1. w \in Users /\ w \in t.todo /\ mygp[w] \in Nat
      BY <1>3, <2>2, <2>5 DEF TypeOK, RecordsOK
    <3>2. Moves(t, r) /\ r.v = w /\ r.step = "incr" /\ r.todo = t.todo /\ Replace(t, r)
      BY <1>3, <2>5, <3>1, CountedFields
    <3> HIDE DEF r
    <3>3. r \in Task /\ Aims(r)
      BY <2>1, <3>1, <3>2 DEF Moves, Aims, At
    <3>4. Holds(grop, mygp, ghosts, r) /\ HoldsRank(grop, r)
      BY <2>5, <3>2 DEF Holds, HoldsRank, HalfIn, At
    <3> QED BY <1>2, <2>3, <2>5, <3>2, <3>3, <3>4, MembersMove
  <2> QED BY <2>2, <2>4, <2>5
<1>22. CASE MessageIncr(t)
  <2> DEFINE r == Listed(t, "each", t.todo \ {t.v})
  <2>1. /\ At(t, {"message"}, "incr") /\ Note(t) /\ grop' = grop /\ outOfDate' = outOfDate
        /\ ghosts' = ghosts
        /\ mygp' = [mygp EXCEPT ![t.v] = t.n + 1] /\ tasks' = (tasks \ {t}) \cup {r}
    BY <1>22 DEF MessageIncr, Replace, Listed
  <2>2. "each" \in Later /\ t.todo \ {t.v} \in SUBSET Users
    BY <1>3 DEF Later
  <2>3. Moves(t, r) /\ r.step = "each"
    BY <1>3, <2>2, ListedFields
  <2> HIDE DEF r
  <2>4. r \in Task /\ Aims(r) /\ ~HalfIn(t)
    BY <2>1, <2>3 DEF Moves, Aims, At, HalfIn
  <2>5. Holds(grop, mygp, ghosts, r) /\ HoldsRank(grop, r)
    BY <2>3, FreeSteps
  <2>6. ~disturbed' => \A u \in Users : mygp'[u] = None <=> mygp[u] = None
    <3>1. t.n + 1 \in Nat
      BY <1>3
    <3> QED BY <2>1, <3>1, MembersBefore DEF Holds
  <2> DEFINE R == {r}
  <2>7. /\ \A q \in R : q \in Task /\ Aims(q) /\ Holds(grop, mygp, ghosts, q) /\ HoldsRank(grop, q)
        /\ tasks' = (tasks \ {t}) \cup R
    BY <2>1, <2>4, <2>5
  <2> HIDE DEF R
  <2> QED BY <1>2, <2>1, <2>4, <2>6, <2>7, MembersQuiet
<1>23. CASE seeHistory(t) /\ t.step = "begin"
  <2>1. /\ t.op = "history" /\ t.step = "begin" /\ Note(t) /\ GoOn(t, "reset")
        /\ grop' = grop /\ mygp' = mygp /\ ghosts' = ghosts /\ outOfDate' = outOfDate
    BY <1>23 DEF seeHistory, At
  <2>2. "reset" \in Later \ {"other", "incr"} /\ "reset" \in Later /\ ~HalfIn(t)
    BY <2>1 DEF Later, HalfIn, At
  <2>3. Onward(t, "reset").step = "reset" /\ Onward(t, "reset").op = "history"
    BY <1>3, <2>1, <2>2, OnwardFields
  <2>4. /\ Holds(grop, mygp, ghosts, Onward(t, "reset"))
        /\ HoldsRank(grop, Onward(t, "reset"))
    BY <2>3 DEF Holds, HoldsRank, HalfIn, At, Ranking
  <2> QED BY <1>2, <2>1, <2>2, <2>4, MembersGoOn
<1>24. CASE seeHistory(t) /\ t.step # "begin"
  <2>1. /\ t.op = "history" /\ Note(t) /\ Done(t) /\ grop' = grop /\ outOfDate' = outOfDate
        /\ mygp' = [mygp EXCEPT ![t.u] = 0]
        /\ ghosts' = IF grop[t.u] = None THEN ghosts \cup {t.u} ELSE ghosts
    BY <1>4, <1>24 DEF seeHistory, At
  <2> DEFINE R == {}
             M == mygp'
             G == ghosts'
  <2>2. tasks' = (tasks \ {t}) \cup R /\ ~HalfIn(t)
    BY <2>1 DEF Done, HalfIn, At
  <2>3. ASSUME ~disturbed'
        PROVE  /\ \A u \in Users : grop'[u] # None => mygp'[u] # None
               /\ \A u \in Users : mygp'[u] # None =>
                     \/ grop'[u] # None \/ u \in ghosts'
                     \/ \E s \in (tasks \ {t}) \cup R : HalfIn(s) /\ Target(s) = u
               /\ \A s \in tasks \ {t} : Holds(grop', mygp', ghosts', s) /\ HoldsRank(grop', s)
               /\ \A q \in R : Holds(grop', mygp', ghosts', q) /\ HoldsRank(grop', q)
               /\ ~outOfDate' => OneOwner(grop')
    <3>1. /\ \A u \in Users : M[u] = IF u = t.u THEN 0 ELSE mygp[u]
          /\ 0 # None /\ ghosts \subseteq G
          /\ grop[t.u] = None => t.u \in G
      BY <2>1, <2>3, MembersBefore
    <3>2. /\ \A u \in Users : grop[u] # None => mygp[u] # None
          /\ \A u \in Users : mygp[u] # None =>
                 grop[u] # None \/ u \in ghosts \/ \E s \in tasks : HalfIn(s) /\ Target(s) = u
          /\ \A s \in tasks : Holds(grop, mygp, ghosts, s) /\ HoldsRank(grop, s)
          /\ \A s \in tasks : /\ s.u \in Users
                              /\ HalfIn(s) => Target(s) \in Users
                              /\ At(s, {"message"}, "incr") => s.v \in Users
          /\ ~outOfDate => OneOwner(grop)
      BY <2>1, <2>3, MembersBefore
    <3> HIDE DEF M, G
    <3>3. ASSUME NEW s \in tasks \ {t} PROVE Holds(grop, M, G, s) /\ HoldsRank(grop, s)
      BY <1>3, <3>1, <3>2 DEF Holds
    <3>4. \A u \in Users : grop[u] # None => M[u] # None
      BY <3>1, <3>2
    <3>5. \A u \in Users : M[u] # None =>
             \/ grop[u] # None \/ u \in G
             \/ \E s \in (tasks \ {t}) \cup R : HalfIn(s) /\ Target(s) = u
      BY <1>3, <2>2, <3>1, <3>2
    <3> QED BY <2>1, <3>2, <3>3, <3>4, <3>5 DEF M, G
  <2> HIDE DEF R
  <2> QED BY <2>2, <2>3, MembersAfter
<1> QED BY <1>11, <1>12, <1>13, <1>14, <1>15, <1>16, <1>17, <1>18, <1>19, <1>20,
       <1>21, <1>22, <1>23, <1>24

LEMMA MembersKept ==
    ASSUME TypeOK, Ident, MembersInv, [Next]_vars
    PROVE  MembersInv'
<1>1. ASSUME NEW u \in Users, ClientStep(u) PROVE MembersInv'
  <2>1. ClientOnly
    BY <1>1, ClientSteps
  <2>2. tasks' = tasks \/ \E q : q.step = "begin" /\ tasks' = tasks \cup {q}
    BY <2>1 DEF ClientOnly, Arrives
  <2>3. \A q : q.step = "begin" => /\ Holds(grop, mygp, ghosts, q) /\ HoldsRank(grop, q)
                                   /\ ~HalfIn(q)
    BY DEF Holds, HoldsRank, HalfIn, At
  <2>4. /\ grop' = grop /\ mygp' = mygp /\ ghosts' = ghosts /\ disturbed' = disturbed
        /\ outOfDate' = outOfDate
    BY <2>1 DEF ClientOnly
  <2> QED BY <2>2, <2>3, <2>4 DEF MembersInv
<1>2. ASSUME NEW t \in tasks, TaskStep(t) PROVE MembersInv'
  <2>1. CASE MessageCrash(t)
    <3>1. ServerDies /\ faults' = faults
      BY <2>1 DEF MessageCrash
    <3>2. disturbed'
      BY <3>1, DiesSteps DEF TypeOK, ClientsOK
    <3> QED BY <3>2 DEF MembersInv
  <2>2. CASE ~MessageCrash(t)
    BY <1>2, <2>2, MembersAtRest, MembersGrow, MembersSteps DEF TaskStep
  <2> QED BY <2>1, <2>2
<1>3. ASSUME Restart PROVE MembersInv'
  <2>1. /\ tasks' = {} /\ UNCHANGED <<grop, mygp, ghosts, outOfDate>>
        /\ disturbed \/ tasks # {} => disturbed'
    BY <1>3, DiesSteps DEF Restart, TypeOK, ClientsOK
  <2> QED BY <2>1 DEF MembersInv
<1>4. ASSUME UNCHANGED vars PROVE MembersInv'
  BY <1>4 DEF vars, MembersInv
<1> QED BY <1>1, <1>2, <1>3, <1>4 DEF Next

\* A group that is there at first has one owner, and its members' counters.
LEMMA MembersInit == Init => MembersInv
<1> SUFFICES ASSUME Init PROVE MembersInv
  OBVIOUS
<1>1. /\ tasks = {} /\ mygp = [u \in Users |-> IF grop[u] = None THEN None ELSE 0]
      /\ \/ \A u \in Users : grop[u] = None
         \/ Cardinality({u \in Users : grop[u] = "owner"}) = 1
  BY DEF Init
<1>2. None # 0 /\ IsFiniteSet(Users)
  BY ConstantsAssumption
<1>3. IsFiniteSet({u \in Users : grop[u] = "owner"})
  BY <1>2, FS_Subset
<1>4. Cardinality({u \in Users : grop[u] = "owner"}) = 1 =>
         \E o : {u \in Users : grop[u] = "owner"} = {o}
  BY <1>3, FS_Singleton
<1>5. ASSUME NEW o, {u \in Users : grop[u] = "owner"} = {o} PROVE OneOwner(grop)
  <2>1. o \in Users /\ \A u \in Users : grop[u] = "owner" <=> u = o
    BY <1>5
  <2> QED BY <2>1 DEF OneOwner
<1>6. (\A u \in Users : grop[u] = None) => OneOwner(grop)
  BY DEF OneOwner
<1>7. OneOwner(grop)
  BY <1>1, <1>4, <1>5, <1>6
<1> QED BY <1>1, <1>2, <1>7 DEF MembersInv

----------------------------------------------------------------------------
(***************************************************************************)
(* The unread counters.  T is tasks, C is chatStatus_.                     *)
(***************************************************************************)
\* The message of t has been noted as unseen by u, and is not counted yet.
Counts(t, C, u) ==
    t.op = "message" /\ t.step \in {"each", "incr"} /\ u \in t.todo \ C
Pend(T, C, u) == {t \in T : Counts(t, C, u)}

\* What a task that counts has read is still so.
Fresh(t, M, C, uncounted_) ==
    At(t, {"message"}, "incr") /\ t.v \notin uncounted_ =>
        t.v \notin C /\ M[t.v] = t.n

CounterInv ==
    ~disturbed =>
        /\ \A u \in Users \ uncounted : mygp[u] # None =>
              unseen[u] = mygp[u] + Cardinality(Pend(tasks, chatStatus_, u))
        /\ \A t \in tasks : Fresh(t, mygp, chatStatus_, uncounted)

\* How the number of messages still to be counted changes with a task.
LEMMA PendFinite ==
    ASSUME NEW T, IsFiniteSet(T), NEW C, NEW u
    PROVE  /\ IsFiniteSet(Pend(T, C, u)) /\ Cardinality(Pend(T, C, u)) \in Nat
           /\ Pend(T, C, u) = {} => Cardinality(Pend(T, C, u)) = 0
<1>1. Pend(T, C, u) \subseteq T
  BY DEF Pend
<1>2. IsFiniteSet(Pend(T, C, u))
  BY <1>1, FS_Subset
<1> QED BY <1>2, FS_CardinalityType, FS_EmptySet

LEMMA PendEnds ==
    ASSUME NEW T, IsFiniteSet(T), NEW t \in T, NEW C, NEW u
    PROVE  Cardinality(Pend(T \ {t}, C, u)) =
              IF Counts(t, C, u) THEN Cardinality(Pend(T, C, u)) - 1
              ELSE Cardinality(Pend(T, C, u))
<1>1. IsFiniteSet(Pend(T, C, u))
  BY PendFinite
<1>2. Pend(T \ {t}, C, u) = Pend(T, C, u) \ {t}
  BY DEF Pend
<1>3. t \in Pend(T, C, u) <=> Counts(t, C, u)
  BY DEF Pend
<1> QED BY <1>1, <1>2, <1>3, FS_RemoveElement

LEMMA PendJoins ==
    ASSUME NEW T, IsFiniteSet(T), NEW r, r \notin T, NEW C, NEW u
    PROVE  Cardinality(Pend(T \cup {r}, C, u)) =
              IF Counts(r, C, u) THEN Cardinality(Pend(T, C, u)) + 1
              ELSE Cardinality(Pend(T, C, u))
<1>1. IsFiniteSet(Pend(T, C, u))
  BY PendFinite
<1>2. CASE Counts(r, C, u)
  <2>1. Pend(T \cup {r}, C, u) = Pend(T, C, u) \cup {r} /\ r \notin Pend(T, C, u)
    BY <1>2 DEF Pend
  <2> QED BY <1>1, <1>2, <2>1, FS_AddElement
<1>3. CASE ~Counts(r, C, u)
  <2>1. Pend(T \cup {r}, C, u) = Pend(T, C, u)
    BY <1>3 DEF Pend
  <2> QED BY <1>3, <2>1
<1> QED BY <1>2, <1>3

LEMMA PendMoves ==
    ASSUME NEW T, IsFiniteSet(T), NEW t \in T, NEW r, r \notin T \ {t}, NEW C, NEW u
    PROVE  Cardinality(Pend((T \ {t}) \cup {r}, C, u)) =
              Cardinality(Pend(T, C, u))
                 - (IF Counts(t, C, u) THEN 1 ELSE 0) + (IF Counts(r, C, u) THEN 1 ELSE 0)
<1> DEFINE S == T \ {t}
<1>1. IsFiniteSet(S) /\ r \notin S
  BY FS_RemoveElement
<1>2. Cardinality(Pend(S, C, u)) =
              IF Counts(t, C, u) THEN Cardinality(Pend(T, C, u)) - 1
              ELSE Cardinality(Pend(T, C, u))
  BY PendEnds
<1> HIDE DEF S
<1>3. Cardinality(Pend(S \cup {r}, C, u)) =
              IF Counts(r, C, u) THEN Cardinality(Pend(S, C, u)) + 1
              ELSE Cardinality(Pend(S, C, u))
  BY <1>1, PendJoins
<1>4. Cardinality(Pend(S, C, u)) \in Nat /\ Cardinality(Pend(T, C, u)) \in Nat
  BY <1>1, PendFinite
<1> QED BY <1>2, <1>3, <1>4 DEF S

\* What is to be shown of a step.
LEMMA CounterAfter ==
    ASSUME NEW t \in tasks, NEW R, tasks' = (tasks \ {t}) \cup R,
           ~disturbed' =>
              /\ \A u \in Users \ uncounted' : mygp'[u] # None =>
                    unseen'[u] = mygp'[u]
                        + Cardinality(Pend((tasks \ {t}) \cup R, chatStatus_', u))
              /\ \A s \in tasks \ {t} : Fresh(s, mygp', chatStatus_', uncounted')
              /\ \A r \in R : Fresh(r, mygp', chatStatus_', uncounted')
    PROVE  CounterInv'
BY DEF CounterInv

\* A task that is no message begins, ends or changes what it knows of the
\* users S; beside a message it does that only with users it notes.
LEMMA CounterOther ==
    ASSUME TypeOK, CounterInv, NEW t \in tasks, t.op # "message", Step(t),
           disturbed => disturbed', uncounted \subseteq uncounted', NEW S,
           ~disturbed' => \A s \in tasks \ {t} :
                 s.op = "message" /\ s.step # "begin" => S \subseteq uncounted',
           \A u \in Users \ S : /\ mygp'[u] = mygp[u] /\ unseen'[u] = unseen[u]
                                /\ u \in chatStatus_' <=> u \in chatStatus_,
           \A u \in S : u \in Users \ uncounted' =>
                 \/ mygp'[u] = None \/ mygp'[u] = unseen'[u]
                 \/ mygp'[u] = mygp[u] /\ unseen'[u] = unseen[u],
           TypeOK'
    PROVE  CounterInv'
<1>1. /\ mygp \in [Users -> Nat \cup {None}] /\ unseen \in [Users -> Nat]
      /\ mygp' \in [Users -> Nat \cup {None}] /\ unseen' \in [Users -> Nat]
      /\ tasks \subseteq Task /\ IsFiniteSet(tasks) /\ \A s \in tasks : Aims(s)
  BY DEF TypeOK, RecordsOK, HistoryOK, TasksOK
<1> DEFINE R == tasks' \ (tasks \ {t})
<1>2. tasks' = (tasks \ {t}) \cup R /\ \A r \in R : r.op # "message"
  <2>1. CASE Done(t)
    BY <2>1 DEF Done
  <2>2. CASE Goes(t)
    <3>1. PICK r : Moves(t, r) /\ Replace(t, r)
      BY <2>2 DEF Goes
    <3> QED BY <3>1 DEF Moves, Replace
  <2> QED BY <2>1, <2>2 DEF Step
<1> HIDE DEF R
<1>3. ASSUME NEW C, NEW u
      PROVE  Pend((tasks \ {t}) \cup R, C, u) = Pend(tasks, C, u)
  BY <1>2 DEF Pend, Counts
<1>4. ASSUME NEW C, NEW u, Pend(tasks, C, u) # {}
      PROVE  \E s \in tasks \ {t} : s.op = "message" /\ s.step # "begin"
  BY <1>4 DEF Pend, Counts
<1>5. ASSUME ~disturbed', NEW u \in Users \ uncounted', mygp'[u] # None
      PROVE  unseen'[u] = mygp'[u]
                 + Cardinality(Pend((tasks \ {t}) \cup R, chatStatus_', u))
  <2>1. mygp[u] # None => unseen[u] = mygp[u] + Cardinality(Pend(tasks, chatStatus_, u))
    BY <1>5 DEF CounterInv
  <2>2. CASE u \notin S
    <3>1. /\ mygp'[u] = mygp[u] /\ unseen'[u] = unseen[u]
          /\ u \in chatStatus_' <=> u \in chatStatus_
      BY <1>5, <2>2
    <3>2. Pend(tasks, chatStatus_', u) = Pend(tasks, chatStatus_, u)
      BY <3>1 DEF Pend, Counts
    <3> QED BY <1>3, <1>5, <2>1, <3>1, <3>2
  <2>3. CASE u \in S
    <3>0. ~ \E s \in tasks \ {t} : s.op = "message" /\ s.step # "begin"
      BY <1>5, <2>3
    <3>1. Pend(tasks, chatStatus_, u) = {} /\ Pend(tasks, chatStatus_', u) = {}
      BY <3>0, <1>4, Zenon
    <3>2. /\ Cardinality(Pend(tasks, chatStatus_, u)) = 0
          /\ Cardinality(Pend((tasks \ {t}) \cup R, chatStatus_', u)) = 0
      BY <1>3, <3>1, FS_EmptySet
    <3>3. \/ mygp'[u] = unseen'[u]
          \/ mygp'[u] = mygp[u] /\ unseen'[u] = unseen[u]
      BY <1>5, <2>3
    <3>4. mygp'[u] \in Nat /\ unseen'[u] \in Nat
      BY <1>1, <1>5
    <3> QED BY <1>5, <2>1, <3>2, <3>3, <3>4
  <2> QED BY <2>2, <2>3
<1>6. ASSUME ~disturbed', NEW s \in tasks \ {t}
      PROVE  Fresh(s, mygp', chatStatus_', uncounted')
  <2> SUFFICES ASSUME At(s, {"message"}, "incr"), s.v \notin uncounted'
               PROVE  s.v \notin chatStatus_' /\ mygp'[s.v] = s.n
    BY DEF Fresh
  <2>1. s.v \in Users /\ s.v \notin uncounted
    BY <1>1, Fields DEF Aims
  <2>2. s.v \notin chatStatus_ /\ mygp[s.v] = s.n
    BY <1>6, <2>1 DEF CounterInv, Fresh
  <2>3. s.v \notin S
    BY <1>6 DEF At
  <2> QED BY <2>1, <2>2, <2>3
<1>7. \A r \in R : Fresh(r, mygp', chatStatus_', uncounted')
  BY <1>2 DEF Fresh, At
<1> QED BY <1>2, <1>5, <1>6, <1>7, CounterAfter

\* The steps of the tasks that are no messages.
LEMMA CounterOthers ==
    ASSUME TypeOK, TypeOK', CounterInv, NEW t \in tasks, Step(t), t.op # "message",
           TaskStep(t)
    PROVE  CounterInv'
<1>1. HistoryOK /\ TasksOK /\ RecordsOK /\ t.u \in Users
  BY Fields DEF TypeOK, TasksOK
<1>2. Note(t) =>
         /\ (disturbed => disturbed') /\ uncounted \subseteq uncounted'
         /\ \A s \in tasks \ {t} :
               s.op = "message" /\ s.step # "begin" => Touched(t) \subseteq uncounted'
  BY <1>1, Noted
<1>3. ASSUME Note(t), NEW S,
             ~disturbed' => \A s \in tasks \ {t} :
                 s.op = "message" /\ s.step # "begin" => S \subseteq uncounted',
             \A u \in Users \ S : /\ mygp'[u] = mygp[u] /\ unseen'[u] = unseen[u]
                                  /\ u \in chatStatus_' <=> u \in chatStatus_,
             \A u \in S : u \in Users \ uncounted' =>
                 \/ mygp'[u] = None \/ mygp'[u] = unseen'[u]
                 \/ mygp'[u] = mygp[u] /\ unseen'[u] = unseen[u]
      PROVE  CounterInv'
  BY <1>2, <1>3, CounterOther
<1>4. ASSUME Note(t), UNCHANGED <<mygp, unseen, chatStatus_>> PROVE CounterInv'
  <2> DEFINE S == {}
  <2>1. \A u : u \notin S
    OBVIOUS
  <2>2. S \subseteq uncounted'
    OBVIOUS
  <2>3. mygp' = mygp /\ unseen' = unseen /\ chatStatus_' = chatStatus_
    BY <1>4
  <2> HIDE DEF S
  <2> QED BY <1>3, <1>4, <2>1, <2>2, <2>3
<1>5. ASSUME Note(t), NEW u \in Touched(t), chatStatus_' = chatStatus_,
             mygp' = [mygp EXCEPT ![u] = 0], unseen' = [unseen EXCEPT ![u] = 0]
      PROVE  CounterInv'
  <2> DEFINE S == {u}
  <2>1. \A v \in Users \ S : /\ mygp'[v] = mygp[v] /\ unseen'[v] = unseen[v]
                             /\ v \in chatStatus_' <=> v \in chatStatus_
    BY <1>1, <1>5 DEF RecordsOK, HistoryOK
  <2>2. \A v \in S : v \in Users \ uncounted' => mygp'[v] = unseen'[v]
    BY <1>1, <1>5 DEF RecordsOK, HistoryOK
  <2>3. \A s \in tasks \ {t} : s.op = "message" /\ s.step # "begin" => S \subseteq uncounted'
    BY <1>2, <1>5
  <2> HIDE DEF S
  <2> QED BY <1>3, <1>5, <2>1, <2>2, <2>3
<1>6. ASSUME Note(t), NEW S, chatStatus_' = chatStatus_, unseen' = unseen,
             mygp' = [u \in Users |-> IF u \in S THEN None ELSE mygp[u]],
             ~disturbed' => \A s \in tasks \ {t} :
                 s.op = "message" /\ s.step # "begin" => S \subseteq uncounted'
      PROVE  CounterInv'
  <2>1. \A u \in Users \ S : /\ mygp'[u] = mygp[u] /\ unseen'[u] = unseen[u]
                             /\ u \in chatStatus_' <=> u \in chatStatus_
    BY <1>6
  <2>2. \A u \in S : u \in Users \ uncounted' => mygp'[u] = None
    BY <1>6
  <2> QED BY <1>3, <1>6, <2>1, <2>2
<1>7. ASSUME Note(t), t.u \in Touched(t), UNCHANGED <<mygp, unseen>>,
             \A u \in Users \ {t.u} : u \in chatStatus_' <=> u \in chatStatus_
      PROVE  CounterInv'
  <2> DEFINE S == {t.u}
  <2>1. \A v \in Users \ S : /\ mygp'[v] = mygp[v] /\ unseen'[v] = unseen[v]
                             /\ v \in chatStatus_' <=> v \in chatStatus_
    BY <1>7
  <2>2. \A s \in tasks \ {t} : s.op = "message" /\ s.step # "begin" => S \subseteq uncounted'
    BY <1>2, <1>7
  <2> HIDE DEF S
  <2> QED BY <1>3, <1>7, <2>1, <2>2
<1>10. CASE \/ CreateCheck(t) \/ AddIsGroup(t) \/ AddMine(t) \/ VerifyFind(t)
            \/ LeaveCheck(t) \/ LeaveRank(t) \/ LeaveMembers(t) \/ CmdRank(t)
            \/ CmdTarget(t) \/ ChatCheck(t)
  <2>1. Quiet(t)
    BY <1>10, QuietSteps
  <2> QED BY <2>1, <1>4 DEF Quiet
<1>11. CASE CreateJoin(t)
  <2>1. /\ t.op = "create" /\ Note(t) /\ chatStatus_' = chatStatus_
        /\ Join(t.u, "owner") \/ Join(t.v, "member")
    BY <1>11 DEF CreateJoin, At
  <2>2. t.u \in Touched(t) /\ t.v \in Touched(t)
    BY <2>1 DEF Touched
  <2> QED BY <2>1, <2>2, <1>5 DEF Join
<1>12. CASE AddPush(t)
  BY <1>12, <1>4 DEF AddPush, membership
<1>13. CASE VerifyMy(t)
  <2>1. /\ t.op \in {"agree", "accept"} /\ Note(t) /\ chatStatus_' = chatStatus_
        /\ mygp' = [mygp EXCEPT ![Target(t)] = 0]
        /\ unseen' = [unseen EXCEPT ![Target(t)] = 0]
    BY <1>13 DEF VerifyMy, At
  <2>2. Target(t) \in Touched(t)
    BY <2>1 DEF Touched, Joining
  <2> QED BY <2>1, <2>2, <1>5
<1>14. CASE VerifyGrop(t)
  BY <1>14, <1>4 DEF VerifyGrop
<1>15. CASE VerifyLrem(t)
  BY <1>15, <1>4 DEF VerifyLrem, membership
<1>16. CASE LeaveQuit(t)
  <2> DEFINE S == {t.u}
  <2>1. /\ t.op \in {"leave", "leave2"} /\ Note(t) /\ chatStatus_' = chatStatus_
        /\ unseen' = unseen
        /\ mygp' = [u \in Users |-> IF u \in S THEN None ELSE mygp[u]]
    BY <1>16 DEF LeaveQuit, Part, At
  <2>2. S \subseteq Touched(t)
    BY <2>1 DEF Touched, Target, Leaving
  <2> HIDE DEF S
  <2> QED BY <2>1, <2>2, <1>2, <1>6
<1>17. CASE LeaveDrop(t)
  <2>1. /\ t.op \in Leaving /\ Note(t) /\ chatStatus_' = chatStatus_
        /\ unseen' = unseen
        /\ mygp' = [u \in Users |-> IF u \in t.todo THEN None ELSE mygp[u]]
    BY <1>17 DEF LeaveDrop, At, Leaving
  <2>2. ~disturbed' => \A s \in tasks \ {t} : ~(s.op = "message" /\ s.step # "begin")
    BY <2>1, Alone DEF Counting
  <2> QED BY <2>1, <2>2, <1>6
<1>18. CASE CmdWrite(t) /\ t.op = "del"
  <2> DEFINE S == {t.v}
  <2>1. /\ Note(t) /\ chatStatus_' = chatStatus_ /\ unseen' = unseen
        /\ mygp' = [u \in Users |-> IF u \in S THEN None ELSE mygp[u]]
    BY <1>18 DEF CmdWrite, Part
  <2>2. S \subseteq Touched(t)
    BY <1>18 DEF Touched, Target, Leaving
  <2> HIDE DEF S
  <2> QED BY <2>1, <2>2, <1>2, <1>6
<1>19. CASE CmdWrite(t) /\ t.op # "del"
  BY <1>19, <1>4 DEF CmdWrite
<1>20. CASE ChatReset(t)
  <2>1. /\ t.op = "chat" /\ Note(t) /\ chatStatus_' = chatStatus_
        /\ mygp' = [mygp EXCEPT ![t.u] = 0] /\ unseen' = [unseen EXCEPT ![t.u] = 0]
    BY <1>20 DEF ChatReset, At
  <2>2. t.u \in Touched(t)
    BY <2>1 DEF Touched, Target
  <2> QED BY <2>1, <2>2, <1>5
<1>21. CASE ChatFlag(t) \/ endChat(t)
  <2>1. /\ t.op \in {"chat", "endchat"} /\ Note(t) /\ mygp' = mygp /\ unseen' = unseen
        /\ chatStatus_' = chatStatus_ \cup {t.u} \/ chatStatus_' = chatStatus_ \ {t.u}
    BY <1>21 DEF ChatFlag, endChat, At, membership
  <2>2. t.u \in Touched(t)
    BY <2>1 DEF Touched, Target
  <2> QED BY <2>1, <2>2, <1>7
<1>22. CASE seeHistory(t)
  <2>1. /\ t.op = "history" /\ Note(t) /\ chatStatus_' = chatStatus_
        /\ \/ mygp' = mygp /\ unseen' = unseen
           \/ /\ mygp' = [mygp EXCEPT ![t.u] = 0]
              /\ unseen' = [unseen EXCEPT ![t.u] = 0]
    BY <1>22 DEF seeHistory, At
  <2>2. t.u \in Touched(t)
    BY <2>1 DEF Touched, Target
  <2>3. CASE mygp' = mygp /\ unseen' = unseen
    BY <2>1, <2>3, <1>4
  <2>4. CASE /\ mygp' = [mygp EXCEPT ![t.u] = 0]
             /\ unseen' = [unseen EXCEPT ![t.u] = 0]
    BY <2>1, <2>2, <2>4, <1>5
  <2> QED BY <2>1, <2>3, <2>4
<1>23. ~(\/ MessageCheck(t) \/ MessageStore(t) \/ MessageSend(t) \/ MessageCount(t)
         \/ MessageIncr(t) \/ MessageEnd(t) \/ MessageCrash(t))
  BY DEF MessageCheck, MessageStore, MessageSend, MessageCount, MessageIncr,
         MessageEnd, MessageCrash, At
<1> QED BY <1>10, <1>11, <1>12, <1>13, <1>14, <1>15, <1>16, <1>17, <1>18, <1>19,
       <1>20, <1>21, <1>22, <1>23 DEF TaskStep

\* A message that ends has counted everybody it had to count.
LEMMA CounterEnds ==
    ASSUME TypeOK, CounterInv, NEW t \in tasks, Done(t),
           disturbed => disturbed', uncounted \subseteq uncounted',
           mygp' = mygp, unseen' = unseen, chatStatus_' = chatStatus_,
           \A u \in Users \ uncounted' : ~Counts(t, chatStatus_, u)
    PROVE  CounterInv'
<1> DEFINE R == {}
<1>1. tasks' = (tasks \ {t}) \cup R /\ (tasks \ {t}) \cup R = tasks \ {t}
  BY DEF Done
<1>2. IsFiniteSet(tasks)
  BY DEF TypeOK, TasksOK
<1>3. ASSUME ~disturbed', NEW u \in Users \ uncounted', mygp[u] # None
      PROVE  unseen[u] = mygp[u] + Cardinality(Pend((tasks \ {t}) \cup R, chatStatus_, u))
  <2>1. unseen[u] = mygp[u] + Cardinality(Pend(tasks, chatStatus_, u))
    BY <1>3 DEF CounterInv
  <2>2. Cardinality(Pend(tasks \ {t}, chatStatus_, u)) = Cardinality(Pend(tasks, chatStatus_, u))
    BY <1>2, PendEnds
  <2> QED BY <1>1, <2>1, <2>2
<1>4. ~disturbed' => \A s \in tasks \ {t} : Fresh(s, mygp, chatStatus_, uncounted')
  BY DEF CounterInv, Fresh
<1>5. \A r \in R : Fresh(r, mygp', chatStatus_', uncounted')
  OBVIOUS
<1> HIDE DEF R
<1> QED BY <1>1, <1>3, <1>4, <1>5, CounterAfter

\* A message that goes on takes one from what is to be counted when it counts.
LEMMA CounterMoves ==
    ASSUME TypeOK, TypeOK', Ident, CounterInv, NEW t \in tasks, t.op = "message",
           NEW r, Moves(t, r), Replace(t, r), chatStatus_' = chatStatus_,
           disturbed => disturbed', uncounted \subseteq uncounted',
           ~disturbed' => \A u \in Users \ uncounted' : mygp'[u] # None =>
               /\ mygp[u] # None
               /\ unseen'[u] + mygp[u] + (IF Counts(t, chatStatus_, u) THEN 1 ELSE 0) =
                  unseen[u] + mygp'[u] + (IF Counts(r, chatStatus_, u) THEN 1 ELSE 0),
           ~disturbed' => Fresh(r, mygp', chatStatus_, uncounted'),
           ~disturbed' => \A s \in tasks \ {t} : Fresh(s, mygp', chatStatus_, uncounted')
    PROVE  CounterInv'
<1> DEFINE R == {r}
<1>1. tasks' = (tasks \ {t}) \cup R /\ (tasks \ {t}) \cup R = (tasks \ {t}) \cup {r}
  BY DEF Replace
<1>2. IsFiniteSet(tasks)
  BY DEF TypeOK, TasksOK
<1>3. r \notin tasks \ {t}
  BY DEF Ident, Moves
<1>4. /\ mygp \in [Users -> Nat \cup {None}] /\ unseen \in [Users -> Nat]
      /\ mygp' \in [Users -> Nat \cup {None}] /\ unseen' \in [Users -> Nat]
  BY DEF TypeOK, RecordsOK, HistoryOK
<1>5. ASSUME ~disturbed', NEW u \in Users \ uncounted', mygp'[u] # None
      PROVE  unseen'[u] = mygp'[u]
                 + Cardinality(Pend((tasks \ {t}) \cup R, chatStatus_, u))
  <2> DEFINE a == IF Counts(t, chatStatus_, u) THEN 1 ELSE 0
             b == IF Counts(r, chatStatus_, u) THEN 1 ELSE 0
             P == Cardinality(Pend(tasks, chatStatus_, u))
  <2>1. mygp[u] # None /\ unseen'[u] + mygp[u] + a = unseen[u] + mygp'[u] + b
    BY <1>5
  <2>2. unseen[u] = mygp[u] + P
    BY <1>5, <2>1 DEF CounterInv
  <2>3. Cardinality(Pend((tasks \ {t}) \cup {r}, chatStatus_, u)) = P - a + b
    BY <1>2, <1>3, PendMoves
  <2>4. P \in Nat /\ a \in Nat /\ b \in Nat
    BY <1>2, PendFinite
  <2>5. /\ mygp[u] \in Nat /\ unseen[u] \in Nat
        /\ mygp'[u] \in Nat /\ unseen'[u] \in Nat
    BY <1>4, <1>5, <2>1
  <2> HIDE DEF a, b, P
  <2>6. unseen'[u] = mygp'[u] + (P - a + b)
    BY <2>1, <2>2, <2>4, <2>5
  <2> QED BY <1>1, <2>3, <2>6
<1>6. ~disturbed' => \A q \in R : Fresh(q, mygp', chatStatus_, uncounted')
  OBVIOUS
<1> HIDE DEF R
<1> QED BY <1>1, <1>5, <1>6, CounterAfter

\* A message that goes on without counting leaves what is to be counted.
LEMMA CounterStays ==
    ASSUME TypeOK, TypeOK', Ident, CounterInv, NEW t \in tasks, t.op = "message",
           NEW r, Moves(t, r), Replace(t, r), Note(t),
           UNCHANGED <<mygp, unseen, chatStatus_>>,
           \A u : Counts(r, chatStatus_, u) <=> Counts(t, chatStatus_, u),
           Fresh(r, mygp, chatStatus_, uncounted')
    PROVE  CounterInv'
<1>1. HistoryOK /\ TasksOK
  BY DEF TypeOK
<1>2. (disturbed => disturbed') /\ uncounted \subseteq uncounted'
  BY <1>1, Noted
<1>3. ~disturbed' => \A s \in tasks \ {t} : Fresh(s, mygp, chatStatus_, uncounted')
  BY <1>2 DEF CounterInv, Fresh
<1>4. mygp' = mygp /\ unseen' = unseen /\ chatStatus_' = chatStatus_
  OBVIOUS
<1>5. \A u \in Users : mygp'[u] # None =>
         /\ mygp[u] # None
         /\ unseen'[u] + mygp[u] + (IF Counts(t, chatStatus_, u) THEN 1 ELSE 0) =
            unseen[u] + mygp'[u] + (IF Counts(r, chatStatus_, u) THEN 1 ELSE 0)
  <2>1. \A u : (IF Counts(t, chatStatus_, u) THEN 1 ELSE 0) =
              (IF Counts(r, chatStatus_, u) THEN 1 ELSE 0)
    OBVIOUS
  <2> QED BY <1>4, <2>1
<1> QED BY <1>2, <1>3, <1>4, <1>5, CounterMoves

\* The steps of the messages.
LEMMA CounterMessages ==
    ASSUME TypeOK, TypeOK', Ident, CounterInv, NEW t \in tasks,
           \/ MessageCheck(t) \/ MessageStore(t) \/ MessageSend(t)
           \/ MessageCount(t) \/ MessageIncr(t) \/ MessageEnd(t)
    PROVE  CounterInv'
<1>1. HistoryOK /\ TasksOK
  BY DEF TypeOK
<1>2. Note(t) => (disturbed => disturbed') /\ uncounted \subseteq uncounted'
  BY <1>1, Noted
<1>3. /\ t \in Task /\ Aims(t) /\ t.todo \in SUBSET Users /\ t.n \in Nat
      /\ Members \in SUBSET Users /\ t.op = "message"
  BY <1>1, Fields DEF TasksOK, Members, At, MessageCheck, MessageStore, MessageSend,
     MessageCount, MessageIncr, MessageEnd
<1>4. "store" \in Later /\ "members" \in Later /\ "each" \in Later
  BY DEF Later
<1>5. /\ mygp \in [Users -> Nat \cup {None}] /\ unseen \in [Users -> Nat]
  BY DEF TypeOK, RecordsOK, HistoryOK
<1>6. ASSUME NEW step \in {"store", "members"}, t.step \in {"begin", "store"},
             GoOn(t, step), Note(t), UNCHANGED <<mygp, unseen, chatStatus_>>
      PROVE  CounterInv'
  <2> DEFINE r == Onward(t, step)
  <2>1. Moves(t, r) /\ r.step = step
    BY <1>3, <1>4, OnwardFields DEF Moves
  <2>2. Replace(t, r)
    BY <1>6 DEF GoOn, Goto, Onward
  <2> HIDE DEF r
  <2>3. \A u : ~Counts(r, chatStatus_, u) /\ ~Counts(t, chatStatus_, u)
    BY <1>6, <2>1 DEF Counts
  <2>4. Fresh(r, mygp, chatStatus_, uncounted')
    BY <2>1 DEF Fresh, At
  <2> QED BY <1>3, <1>6, <2>1, <2>2, <2>3, <2>4, CounterStays
<1>7. ASSUME Done(t), Note(t), UNCHANGED <<mygp, unseen, chatStatus_>>,
             t.step = "begin" \/ t.todo = {}
      PROVE  CounterInv'
  <2>1. \A u : ~Counts(t, chatStatus_, u)
    BY <1>7 DEF Counts
  <2> QED BY <1>2, <1>7, <2>1, CounterEnds
<1>11. CASE MessageCheck(t)
  <2>1. /\ t.step = "begin" /\ Note(t) /\ UNCHANGED <<mygp, unseen, chatStatus_>>
        /\ GoOn(t, "store") \/ Done(t)
    BY <1>11 DEF MessageCheck, At, membership
  <2> QED BY <2>1, <1>6, <1>7
<1>12. CASE MessageEnd(t)
  <2>1. t.todo = {} /\ Note(t) /\ UNCHANGED <<mygp, unseen, chatStatus_>> /\ Done(t)
    BY <1>12 DEF MessageEnd, membership, End
  <2> QED BY <2>1, <1>7
<1>13. CASE MessageStore(t) /\ t.step = "store"
  <2>1. Note(t) /\ UNCHANGED <<mygp, unseen, chatStatus_>> /\ GoOn(t, "members")
    BY <1>13 DEF MessageStore, At, membership
  <2> QED BY <1>13, <2>1, <1>6
<1>14. CASE MessageStore(t) /\ t.step # "store"
  <2> DEFINE r == Listed(t, "each", Members \ {t.u})
  <2>1. /\ t.step = "members" /\ Note(t) /\ mygp' = mygp /\ chatStatus_' = chatStatus_
        /\ Replace(t, r)
        /\ unseen' = [u \in Users |->
                  IF u \in Members \ ({t.u} \cup chatStatus_)
                  THEN unseen[u] + 1 ELSE unseen[u]]
    BY <1>14 DEF MessageStore, At, membership, Listed
  <2>2. Members \ {t.u} \in SUBSET Users
    BY <1>3
  <2>3. Moves(t, r) /\ r.step = "each" /\ r.todo = Members \ {t.u}
    BY <1>3, <1>4, <2>2, ListedFields
  <2> HIDE DEF r
  <2>4. r.op = "message"
    BY <1>3, <2>3 DEF Moves
  <2>5. \A u \in Users : /\ ~Counts(t, chatStatus_, u)
                         /\ Counts(r, chatStatus_, u) <=>
                                u \in Members \ ({t.u} \cup chatStatus_)
    BY <2>1, <2>3, <2>4 DEF Counts
  <2>6. ASSUME NEW u \in Users, mygp'[u] # None
        PROVE  /\ mygp[u] # None
               /\ unseen'[u] + mygp[u] + (IF Counts(t, chatStatus_, u) THEN 1 ELSE 0) =
                  unseen[u] + mygp'[u] + (IF Counts(r, chatStatus_, u) THEN 1 ELSE 0)
    <3>1. mygp'[u] = mygp[u] /\ mygp[u] \in Nat /\ unseen[u] \in Nat
      BY <1>5, <2>1, <2>6
    <3>2. unseen'[u] = IF Counts(r, chatStatus_, u) THEN unseen[u] + 1 ELSE unseen[u]
      BY <2>1, <2>5
    <3> QED BY <2>5, <2>6, <3>1, <3>2
  <2>7. Fresh(r, mygp', chatStatus_, uncounted')
    BY <2>3 DEF Fresh, At
  <2>8. ~disturbed' => \A s \in tasks \ {t} : Fresh(s, mygp', chatStatus_, uncounted')
    BY <1>2, <2>1 DEF CounterInv, Fresh
  <2> QED BY <1>2, <1>3, <2>1, <2>3, <2>6, <2>7, <2>8, CounterMoves
<1>15. CASE MessageSend(t)
  <2>1. At(t, {"message"}, "each") /\ Note(t) /\ UNCHANGED <<mygp, unseen, chatStatus_>>
    BY <1>15 DEF MessageSend, membership
  <2>2. PICK w \in t.todo \cap chatStatus_ : Replace(t, [t EXCEPT !.todo = @ \ {w}])
    BY <1>15 DEF MessageSend
  <2> DEFINE todo == t.todo \ {w}
  <2>3. /\ todo \in SUBSET Users /\ Replace(t, [t EXCEPT !.todo = todo])
        /\ \A u : u \in todo \ chatStatus_ <=> u \in t.todo \ chatStatus_
    BY <1>3, <2>2
  <2> HIDE DEF todo
  <2> DEFINE r == Listed(t, "each", todo)
  <2>4. Moves(t, r) /\ r.step = "each" /\ r.todo = todo /\ Replace(t, r)
    BY <1>3, <1>4, <2>1, <2>3, ListedFields DEF At
  <2> HIDE DEF r
  <2>5. \A u : Counts(r, chatStatus_, u) <=> Counts(t, chatStatus_, u)
    BY <2>1, <2>3, <2>4 DEF Counts, Moves, At
  <2>6. Fresh(r, mygp, chatStatus_, uncounted')
    BY <2>4 DEF Fresh, At
  <2> QED BY <1>3, <2>1, <2>4, <2>5, <2>6, CounterStays
<1>16. CASE MessageCount(t)
  <2>1. At(t, {"message"}, "each") /\ UNCHANGED <<mygp, unseen, chatStatus_>>
    BY <1>16 DEF MessageCount, membership
  <2>2. PICK w \in t.todo \ chatStatus_ :
           \/ mygp[w] # None /\ Replace(t, Counted(t, w, mygp[w])) /\ Note(t)
           \/ Done(t) /\ disturbed' = disturbed /\ uncounted' = uncounted \cup t.todo
    BY <1>16 DEF MessageCount, Counted
  <2>3. CASE Done(t) /\ disturbed' = disturbed /\ uncounted' = uncounted \cup t.todo
    <3>1. \A u \in Users \ uncounted' : ~Counts(t, chatStatus_, u)
      BY <2>3 DEF Counts
    <3>2. uncounted \subseteq uncounted'
      BY <2>3
    <3> QED BY <2>1, <2>3, <3>1, <3>2, CounterEnds
  <2>4. CASE mygp[w] # None /\ Replace(t, Counted(t, w, mygp[w])) /\ Note(t)
    <3> DEFINE r == Counted(t, w, mygp[w])
    <3>1. w \in Users /\ w \notin chatStatus_ /\ mygp[w] \in Nat
      BY <1>3, <1>5, <2>2, <2>4
    <3>2. /\ Moves(t, r) /\ r.v = w /\ r.step = "incr" /\ r.todo = t.todo
          /\ r.n = mygp[w] /\ Replace(t, r)
      BY <1>3, <2>4, <3>1, CountedFields
    <3> HIDE DEF r
    <3>3. \A u : Counts(r, chatStatus_, u) <=> Counts(t, chatStatus_, u)
      BY <2>1, <3>2 DEF Counts, Moves, At
    <3>4. Fresh(r, mygp, chatStatus_, uncounted')
      BY <3>1, <3>2 DEF Fresh
    <3> QED BY <1>3, <2>1, <2>4, <3>2, <3>3, <3>4, CounterStays
  <2> QED BY <2>2, <2>3, <2>4
<1>17. CASE MessageIncr(t)
  <2> DEFINE r == Listed(t, "each", t.todo \ {t.v})
             M == mygp'
  <2>1. /\ At(t, {"message"}, "incr") /\ Note(t)
        /\ unseen' = unseen /\ chatStatus_' = chatStatus_
        /\ M = [mygp EXCEPT ![t.v] = t.n + 1] /\ Replace(t, r)
    BY <1>17 DEF MessageIncr, Listed
  <2>2. t.todo \ {t.v} \in SUBSET Users /\ t.v \in t.todo /\ t.v \in Users
    BY <1>3, <2>1 DEF Aims
  <2>3. Moves(t, r) /\ r.step = "each" /\ r.todo = t.todo \ {t.v}
    BY <1>3, <1>4, <2>2, ListedFields
  <2> HIDE DEF r
  <2>4. r.op = "message"
    BY <1>3, <2>3 DEF Moves
  <2>5. ~disturbed' /\ t.v \notin uncounted' => t.v \notin chatStatus_ /\ mygp[t.v] = t.n
    BY <1>2, <2>1 DEF CounterInv, Fresh
  <2>6. \A u \in Users : M[u] = IF u = t.v THEN t.n + 1 ELSE mygp[u]
    BY <1>5, <2>1
  <2>7. \A u \in Users : /\ Counts(t, chatStatus_, u) <=> u \in t.todo \ chatStatus_
                         /\ Counts(r, chatStatus_, u) <=>
                               u \in t.todo \ chatStatus_ /\ u # t.v
    BY <2>1, <2>3, <2>4 DEF Counts, At
  <2>8. ASSUME ~disturbed', NEW u \in Users \ uncounted', M[u] # None
        PROVE  /\ mygp[u] # None
               /\ unseen'[u] + mygp[u] + (IF Counts(t, chatStatus_, u) THEN 1 ELSE 0) =
                  unseen[u] + M[u] + (IF Counts(r, chatStatus_, u) THEN 1 ELSE 0)
    <3>1. unseen'[u] = unseen[u] /\ unseen[u] \in Nat
      BY <1>5, <2>1
    <3>2. CASE u = t.v
      <4>1. /\ mygp[u] = t.n /\ M[u] = t.n + 1 /\ t.n \in Nat
            /\ Counts(t, chatStatus_, u) /\ ~Counts(r, chatStatus_, u)
        BY <1>3, <2>2, <2>5, <2>6, <2>7, <2>8, <3>2
      <4>2. t.n # None
        BY <4>1, ConstantsAssumption
      <4> QED BY <3>1, <4>1, <4>2
    <3>3. CASE u # t.v
      <4>1. M[u] = mygp[u] /\ mygp[u] \in Nat
        BY <1>5, <2>6, <2>8, <3>3
      <4>2. Counts(t, chatStatus_, u) <=> Counts(r, chatStatus_, u)
        BY <2>7, <3>3
      <4> QED BY <2>8, <3>1, <4>1, <4>2
    <3> QED BY <3>2, <3>3
  <2>9. Fresh(r, M, chatStatus_, uncounted')
    BY <2>3 DEF Fresh, At
  <2>10. \A s \in tasks \ {t} : ~At(s, {"message"}, "incr")
    BY <2>1 DEF Ident
  <2>11. \A s \in tasks \ {t} : Fresh(s, M, chatStatus_, uncounted')
    BY <2>10 DEF Fresh
  <2> QED BY <1>2, <1>3, <2>1, <2>3, <2>8, <2>9, <2>11, CounterMoves
<1> QED BY <1>11, <1>12, <1>13, <1>14, <1>15, <1>16, <1>17

LEMMA MessagesOnly ==
    ASSUME NEW t, t.op = "message", TaskStep(t), ~MessageCrash(t)
    PROVE  \/ MessageCheck(t) \/ MessageStore(t) \/ MessageSend(t)
           \/ MessageCount(t) \/ MessageIncr(t) \/ MessageEnd(t)
<1>1. ~(\/ CreateCheck(t) \/ CreateJoin(t) \/ AddIsGroup(t) \/ AddMine(t) \/ AddPush(t))
  BY DEF CreateCheck, CreateJoin, AddIsGroup, AddMine, AddPush, At
<1>2. ~(\/ VerifyFind(t) \/ VerifyMy(t) \/ VerifyGrop(t) \/ VerifyLrem(t))
  BY DEF VerifyFind, VerifyMy, VerifyGrop, VerifyLrem, At
<1>3. ~(\/ LeaveCheck(t) \/ LeaveRank(t) \/ LeaveQuit(t) \/ LeaveMembers(t) \/ LeaveDrop(t))
  BY DEF LeaveCheck, LeaveRank, LeaveQuit, LeaveMembers, LeaveDrop, At
<1>4. ~(\/ CmdRank(t) \/ CmdTarget(t) \/ CmdWrite(t))
  BY DEF CmdRank, CmdTarget, CmdWrite, At
<1>5. ~(\/ ChatCheck(t) \/ ChatReset(t) \/ ChatFlag(t) \/ seeHistory(t) \/ endChat(t))
  BY DEF ChatCheck, ChatReset, ChatFlag, seeHistory, endChat, At
<1> QED BY <1>1, <1>2, <1>3, <1>4, <1>5 DEF TaskStep

LEMMA CounterKept ==
    ASSUME TypeOK, TypeOK', Ident, CounterInv, [Next]_vars
    PROVE  CounterInv'
<1>1. ASSUME NEW u \in Users, ClientStep(u) PROVE CounterInv'
  <2>1. ClientOnly
    BY <1>1, ClientSteps
  <2>2. /\ mygp' = mygp /\ unseen' = unseen /\ chatStatus_' = chatStatus_
        /\ disturbed' = disturbed /\ uncounted \subseteq uncounted'
        /\ tasks' = tasks \/ \E q : q.step = "begin" /\ tasks' = tasks \cup {q}
    BY <2>1 DEF ClientOnly, Arrives
  <2>3. \A q : q.step = "begin" => /\ Fresh(q, mygp, chatStatus_, uncounted')
                                   /\ \A v : ~Counts(q, chatStatus_, v)
    BY DEF Fresh, Counts, At
  <2>4. \A v : Pend(tasks', chatStatus_, v) = Pend(tasks, chatStatus_, v)
    BY <2>2, <2>3 DEF Pend
  <2>5. ~disturbed => \A s \in tasks' : Fresh(s, mygp, chatStatus_, uncounted')
    BY <2>2, <2>3 DEF CounterInv, Fresh
  <2> QED BY <2>2, <2>4, <2>5 DEF CounterInv
<1>2. ASSUME NEW t \in tasks, TaskStep(t) PROVE CounterInv'
  <2>1. CASE MessageCrash(t)
    <3>1. ServerDies /\ faults' = faults
      BY <2>1 DEF MessageCrash
    <3>2. disturbed'
      BY <3>1, DiesSteps DEF TypeOK, ClientsOK
    <3> QED BY <3>2 DEF CounterInv
  <2>2. CASE t.op # "message"
    <3>1. Step(t)
      BY <1>2, <2>2, TaskSteps DEF MessageCrash, At
    <3> QED BY <1>2, <2>2, <3>1, CounterOthers
  <2>3. CASE ~MessageCrash(t) /\ t.op = "message"
    <3>1. \/ MessageCheck(t) \/ MessageStore(t) \/ MessageSend(t)
          \/ MessageCount(t) \/ MessageIncr(t) \/ MessageEnd(t)
      BY <1>2, <2>3, MessagesOnly
    <3> QED BY <3>1, CounterMessages
  <2> QED BY <2>1, <2>2, <2>3
<1>3. ASSUME Restart PROVE CounterInv'
  <2>1. /\ tasks' = {} /\ UNCHANGED <<mygp, unseen>>
        /\ disturbed \/ tasks # {} => disturbed'
        /\ tasks = {} => uncounted' = uncounted
    BY <1>3, DiesSteps DEF Restart, TypeOK, ClientsOK
  <2>2. \A C, u : Pend({}, C, u) = {}
    BY DEF Pend
  <2> QED BY <2>1, <2>2 DEF CounterInv
<1>4. ASSUME UNCHANGED vars PROVE CounterInv'
  BY <1>4 DEF vars, CounterInv
<1> QED BY <1>1, <1>2, <1>3, <1>4 DEF Next

LEMMA CounterInit == Init => CounterInv
<1> SUFFICES ASSUME Init PROVE CounterInv
  OBVIOUS
<1>1. /\ tasks = {} /\ mygp = [u \in Users |-> IF grop[u] = None THEN None ELSE 0]
      /\ unseen = [u \in Users |-> 0]
  BY DEF Init
<1>2. \A u : Cardinality(Pend(tasks, chatStatus_, u)) = 0
  <2>1. \A u : Pend(tasks, chatStatus_, u) = {}
    BY <1>1 DEF Pend
  <2> QED BY <2>1, FS_EmptySet
<1> QED BY <1>1, <1>2 DEF CounterInv

----------------------------------------------------------------------------
(***************************************************************************)
(* The answers.  A client that waits is connected and is served by a task  *)
(* that answers when it ends.                                              *)
(***************************************************************************)
Serves(t, u) == t.u = u /\ t.id + 1 = requests[u] /\ t.op \notin Unawaited
ServedInv ==
    \A u \in Users : screen[u] \in Awaited => u \in online /\ \E t \in tasks : Serves(t, u)

\* A request whose client waits is one that is answered.
LEMMA ServedRequest ==
    ASSUME TypeOK, ServedInv, NEW u \in Users, NEW op, NEW v, NEW from, NEW to,
           Request(u, op, v, from, to), to \in Awaited => op \notin Unawaited
    PROVE  ServedInv'
<1> DEFINE q == NewTask(u, op, v)
<1>1. /\ u \in online /\ online' = online
      /\ requests' = [requests EXCEPT ![u] = @ + 1]
      /\ screen' = [screen EXCEPT ![u] = to]
      /\ tasks' = tasks \cup {q}
  BY DEF Request
<1>2. q.u = u /\ q.id = requests[u] /\ q.op = op
  BY DEF NewTask
<1> HIDE DEF q
<1>3. /\ requests'[u] = requests[u] + 1 /\ screen'[u] = to
      /\ \A w \in Users \ {u} : requests'[w] = requests[w] /\ screen'[w] = screen[w]
  BY <1>1 DEF TypeOK, ClientsOK
<1>4. ASSUME NEW w \in Users, screen'[w] \in Awaited
      PROVE  w \in online' /\ \E t \in tasks' : Serves(t, w)'
  <2>1. CASE w = u
    BY <1>1, <1>2, <1>3, <1>4, <2>1 DEF Serves
  <2>2. CASE w # u
    <3>1. PICK t \in tasks : Serves(t, w)
      BY <1>3, <1>4, <2>2 DEF ServedInv
    <3> QED BY <1>1, <1>3, <1>4, <2>2, <3>1 DEF Serves, ServedInv
  <2> QED BY <2>1, <2>2
<1> QED BY <1>4 DEF ServedInv

LEMMA ServedClient ==
    ASSUME TypeOK, ServedInv, NEW u \in Users, ClientStep(u)
    PROVE  ServedInv'
<1>1. \A op, v, from, to :
         Request(u, op, v, from, to) /\ (to \in Awaited => op \notin Unawaited) => ServedInv'
  BY ServedRequest
<1>2. ASSUME requests' = requests, online \ {u} \subseteq online', tasks \subseteq tasks',
             \A w \in Users : screen'[w] \in Awaited => screen[w] \in Awaited,
             screen'[u] \in Awaited => u \in online \cap online'
      PROVE  ServedInv'
  BY <1>2 DEF ServedInv, Serves
<1>3. \A w \in Users : screen[w] \in Awaited => w \in online
  BY DEF ServedInv
<1>11. CASE joinGroup(u)
  BY <1>11, <1>1 DEF joinGroup, Awaited, Unawaited
<1>12. CASE handleCmd(u)
  BY <1>12, <1>1 DEF handleCmd, Awaited, Unawaited
<1>13. CASE managerGroup(u)
  BY <1>13, <1>1 DEF managerGroup, Awaited, Unawaited
<1>14. CASE Confirm(u)
  <2>1. CASE Request(u, "leave2", None, "confirm", "menu")
    BY <2>1, <1>1 DEF Awaited, Unawaited
  <2>2. CASE ~Request(u, "leave2", None, "confirm", "menu")
    <3>1. /\ screen' = [screen EXCEPT ![u] = "menu"]
          /\ online' = online /\ requests' = requests /\ tasks' = tasks
      BY <1>14, <2>2 DEF Confirm
    <3>2. /\ screen'[u] \notin Awaited
          /\ \A w \in Users : screen'[w] \in Awaited => screen[w] \in Awaited
      BY <3>1 DEF TypeOK, ClientsOK, Awaited
    <3> QED BY <3>1, <3>2, <1>2
  <2> QED BY <2>1, <2>2
<1>15. CASE EnterChat(u)
  BY <1>15, <1>1 DEF EnterChat, Awaited, Unawaited
<1>16. CASE myGroup(u)
  BY <1>16, <1>1 DEF myGroup, Awaited, Unawaited
<1>17. CASE Say(u)
  <2>1. /\ online' = online /\ requests' = requests /\ screen' = screen
        /\ tasks \subseteq tasks'
    BY <1>17 DEF Say
  <2> QED BY <2>1, <1>2, <1>3
<1>18. CASE Drop(u)
  <2>1. /\ screen' = [screen EXCEPT ![u] = "menu"] /\ online' = online \ {u}
        /\ requests' = requests /\ tasks' = tasks
    BY <1>18 DEF Drop
  <2>2. /\ screen'[u] \notin Awaited
        /\ \A w \in Users : screen'[w] \in Awaited => screen[w] \in Awaited
    BY <2>1 DEF TypeOK, ClientsOK, Awaited
  <2>3. online \ {u} \subseteq online' /\ tasks \subseteq tasks'
    BY <2>1
  <2> QED BY <2>1, <2>2, <2>3, <1>2
<1>19. CASE Return(u)
  <2>1. /\ online' = online \cup {u} /\ requests' = requests /\ screen' = screen
        /\ tasks' = tasks
    BY <1>19 DEF Return
  <2> QED BY <2>1, <1>2, <1>3
<1> QED BY <1>11, <1>12, <1>13, <1>14, <1>15, <1>16, <1>17, <1>18, <1>19
       DEF ClientStep

LEMMA ServedTask ==
    ASSUME TypeOK, ServedInv, NEW t \in tasks, Step(t)
    PROVE  ServedInv'
<1>1. Shows
  BY DEF Step
<1>2. ASSUME NEW u \in Users, screen'[u] \in Awaited
      PROVE  u \in online' /\ \E s \in tasks' : Serves(s, u)'
  <2>1. PICK s \in tasks : Serves(s, u)
    BY <1>1, <1>2 DEF ServedInv, Shows
  <2>2. u \in online /\ online' = online /\ requests' = requests
    BY <1>1, <1>2 DEF ServedInv, Shows
  <2>3. CASE s # t
    <3>1. s \in tasks'
      BY <2>3 DEF Step, Done, Goes, Replace
    <3> QED BY <2>1, <2>2, <3>1 DEF Serves
  <2>4. CASE s = t
    <3>1. ~Answers(t)
      BY <1>2, <2>1, <2>2, <2>4 DEF Answers, Serves
    <3>2. PICK r \in Task : Moves(t, r) /\ Replace(t, r)
      BY <3>1 DEF Step, Goes
    <3>3. r \in tasks' /\ r.u = u /\ r.id + 1 = requests'[u] /\ r.op \notin Unawaited
      BY <2>1, <2>2, <2>4, <3>2 DEF Serves, Moves, Replace
    <3>4. Serves(r, u)'
      BY <3>3 DEF Serves
    <3> QED BY <2>2, <3>3, <3>4
  <2> QED BY <2>3, <2>4
<1> QED BY <1>2 DEF ServedInv

LEMMA ServedKept ==
    ASSUME TypeOK, ServedInv, [Next]_vars
    PROVE  ServedInv'
<1>0. ASSUME ServerDies PROVE ServedInv'
  BY <1>0 DEF ServerDies, ServedInv, Awaited
<1>1. ASSUME NEW u \in Users, ClientStep(u) PROVE ServedInv'
  BY <1>1, ServedClient
<1>2. ASSUME NEW t \in tasks, TaskStep(t) PROVE ServedInv'
  <2>1. CASE MessageCrash(t)
    BY <2>1, <1>0 DEF MessageCrash
  <2>2. CASE ~MessageCrash(t)
    BY <1>2, <2>2, TaskSteps, ServedTask
  <2> QED BY <2>1, <2>2
<1>3. CASE Restart
  BY <1>3, <1>0 DEF Restart
<1>4. CASE UNCHANGED vars
  BY <1>4 DEF vars, ServedInv, Serves
<1> QED BY <1>1, <1>2, <1>3, <1>4 DEF Next

----------------------------------------------------------------------------
IInv == TypeOK /\ Ident /\ MembersInv /\ CounterInv /\ ServedInv

LEMMA Invariance == Spec => []IInv
<1>1. Init => IInv
  <2>1. Init => ServedInv
    BY DEF Init, ServedInv, Awaited
  <2> QED BY <2>1, TypesInit, MembersInit, CounterInit DEF IInv
<1>2. IInv /\ [Next]_vars => IInv'
  <2> SUFFICES ASSUME IInv, [Next]_vars PROVE IInv'
    OBVIOUS
  <2>1. TypeOK' /\ Ident'
    BY TypesKept DEF IInv
  <2>2. MembersInv'
    BY MembersKept DEF IInv
  <2>3. CounterInv'
    BY <2>1, CounterKept DEF IInv
  <2>4. ServedInv'
    BY ServedKept DEF IInv
  <2> QED BY <2>1, <2>2, <2>3, <2>4 DEF IInv
<1> QED BY <1>1, <1>2, PTL DEF Spec

\* At rest, if no restart cut a task off and no two tasks changed the members
\* at once, who is in the table of the group has the group in the table of his
\* own, and the other way round but for who read the history as no member:
\* each other handler of handleData.cc that writes one table writes both.
THEOREM Agreement == Spec => []MembershipAgrees
<1>1. IInv => MembershipAgrees
  BY DEF IInv, MembersInv, MembershipAgrees, Rest
<1> QED BY <1>1, Invariance, PTL

\* At rest a group with members has one owner, unless a request came too late:
\* who leaves as owner dissolves the group, and compareLevel keeps the others
\* from removing or changing him.
THEOREM Ownership == Spec => []GroupHasOwner
<1>1. ASSUME IInv, Rest, ~outOfDate, Members # {}
      PROVE  Cardinality({u \in Users : grop[u] = "owner"}) = 1
  <2>1. \E o \in Users : \A u \in Users : grop[u] = "owner" <=> u = o
    BY <1>1 DEF IInv, MembersInv, Rest, OneOwner, Members
  <2>2. PICK o \in Users : {u \in Users : grop[u] = "owner"} = {o}
    BY <2>1
  <2> QED BY <2>2, FS_Singleton
<1>2. IInv => GroupHasOwner
  BY <1>1 DEF GroupHasOwner
<1> QED BY <1>2, Invariance, PTL

\* At rest the unread counter of a member is the number of messages stored
\* while he was out of the chat, since he last read them: handlegMessage
\* counts each message once for each, and getGroupMeg starts over.
THEOREM Counters == Spec => []CounterCountsUnseen
<1>1. ASSUME IInv, Rest, NEW u \in Users \ uncounted, mygp[u] # None
      PROVE  mygp[u] = unseen[u]
  <2>1. unseen[u] = mygp[u] + Cardinality(Pend({}, chatStatus_, u))
    BY <1>1 DEF IInv, CounterInv, Rest
  <2>2. Pend({}, chatStatus_, u) = {}
    BY DEF Pend
  <2>3. mygp[u] \in Nat
    BY <1>1 DEF IInv, TypeOK, RecordsOK
  <2> QED BY <2>1, <2>2, <2>3, FS_EmptySet
<1>2. IInv => CounterCountsUnseen
  BY <1>1 DEF CounterCountsUnseen
<1> QED BY <1>2, Invariance, PTL

\* A client that waits has a task at work that will answer it: no branch of a
\* handler of handleData.cc that the client waits for ends without an answer,
\* and no other task of the client ends the wait's cause before it.
THEOREM Served == Spec => []WaitIsServed
<1>1. IInv => WaitIsServed
  BY DEF IInv, ServedInv, Serves, WaitIsServed, Awaited, Unawaited
<1> QED BY <1>1, Invariance, PTL
============================================================================
