--------------------------- MODULE SessionProofs ---------------------------
(***************************************************************************)
(* Proofs about Session, for every set of users and connections and every  *)
(* number of requests.                                                     *)
(***************************************************************************)
EXTENDS Session, TLAPS

\* A new task is a task, and so is one moved to another step.
LEMMA TaskMade ==
    ASSUME NEW c \in Conns, NEW i \in Nat, NEW op \in Ops, NEW u \in Users,
           NEW right \in BOOLEAN, NEW step \in Steps
    PROVE  [conn |-> c, id |-> i, op |-> op, user |-> u, right |-> right,
            step |-> step] \in Task
BY DEF Task

\* A task stays one as it goes on in its handler.
LEMMA TaskMoved ==
    ASSUME NEW t \in Task, NEW step \in Steps
    PROVE  [t EXCEPT !.step = step] \in Task
BY DEF Task

----------------------------------------------------------------------------
\* Every variable keeps its type: in particular userConnMap_ and
\* connUserMap_ hold connections and users only, never each other's values.
THEOREM TypeCorrect == Spec => []TypeOK
<1>1. Init => TypeOK
  <2> SUFFICES ASSUME Init PROVE TypeOK
    OBVIOUS
  <2>1. account \in [Users -> [password : BOOLEAN, mystate : States,
                               self : BOOLEAN]]
    BY DEF Init, States
  <2>2. client \in [Conns -> [screen : Screens, user : Users \cup {NoUser}]]
    BY DEF Init, Screens
  <2> QED
    BY <2>1, <2>2, ConstantsAssumption DEF Init, TypeOK, ConnStates
<1>2. TypeOK /\ [Next]_vars => TypeOK'
  <2> SUFFICES ASSUME TypeOK, [Next]_vars PROVE TypeOK'
    OBVIOUS
  <2>1. ASSUME NEW c \in Conns, onConnection(c) PROVE TypeOK'
    BY <2>1 DEF onConnection, TypeOK, server, history, ConnStates, Screens
  <2>2. ASSUME NEW c \in Conns, ClientStep(c) PROVE TypeOK'
    <3>1. PICK u \in Users :
             \/ ClientRegister(c, u)
             \/ \E right \in BOOLEAN : ClientLogin(c, u, right)
             \/ ClientOnline(c, u) \/ ClientLogout(c, u) \/ ClientDelete(c, u)
      BY <2>2 DEF ClientStep
    <3>2. ASSUME NEW op \in Ops, NEW right \in BOOLEAN,
                 SendTask(c, op, u, right)
          PROVE  sent' \in [Conns -> Nat] /\ tasks' \subseteq Task
      <4>1. sent[c] \in Nat /\ sent[c] + 1 \in Nat
        BY <3>2, ConstantsAssumption DEF SendTask, TypeOK
      <4>2. [conn |-> c, id |-> sent[c], op |-> op, user |-> u,
             right |-> right, step |-> "start"] \in Task
        BY <4>1, TaskMade DEF Steps
      <4> QED BY <3>2, <4>1, <4>2 DEF SendTask, TypeOK
    <3>3. "register" \in Ops /\ "login" \in Ops /\ "online" \in Ops
          /\ "offline" \in Ops /\ "delete" \in Ops
      BY DEF Ops
    <3>9. [client EXCEPT ![c] = [screen |-> "wait", user |-> u]]
             \in [Conns -> [screen : Screens, user : Users \cup {NoUser}]]
          /\ [client EXCEPT ![c] = [screen |-> "user", user |-> u]]
             \in [Conns -> [screen : Screens, user : Users \cup {NoUser}]]
          /\ [client EXCEPT ![c] = [screen |-> "menu", user |-> NoUser]]
             \in [Conns -> [screen : Screens, user : Users \cup {NoUser}]]
      BY DEF TypeOK, Screens
    <3>10. ASSUME NEW op \in Ops, NoteOverlap(c, op)
           PROVE  overlapped' \subseteq Conns \X Ops
      BY <3>10 DEF NoteOverlap, TypeOK
    <3>4. CASE ClientRegister(c, u)
      BY <3>2, <3>3, <3>4
         DEF ClientRegister, TypeOK, server, history, Screens
    <3>5. CASE \E right \in BOOLEAN : ClientLogin(c, u, right)
      <4> PICK right \in BOOLEAN : ClientLogin(c, u, right)
        BY <3>5
      <4>1. sent' \in [Conns -> Nat] /\ tasks' \subseteq Task
        BY <3>2, <3>3 DEF ClientLogin
      <4>2. proved' \subseteq Conns \X Users /\ guessed' \subseteq Conns \X Users
        BY DEF ClientLogin, TypeOK
      <4> QED BY <4>1, <4>2, <3>9 DEF ClientLogin, TypeOK, server
    <3>6. CASE ClientOnline(c, u)
      <4>1. sent' \in [Conns -> Nat] /\ tasks' \subseteq Task
        BY <3>2, <3>3, <3>6 DEF ClientOnline
      <4>2. overlapped' \subseteq Conns \X Ops
        BY <3>3, <3>10, <3>6 DEF ClientOnline
      <4> QED BY <3>6, <3>9, <4>1, <4>2 DEF ClientOnline, TypeOK, server
    <3>7. CASE ClientLogout(c, u)
      <4>1. sent' \in [Conns -> Nat] /\ tasks' \subseteq Task
        BY <3>2, <3>3, <3>7 DEF ClientLogout
      <4>2. overlapped' \subseteq Conns \X Ops
        BY <3>3, <3>10, <3>7 DEF ClientLogout
      <4> QED BY <3>7, <3>9, <4>1, <4>2 DEF ClientLogout, TypeOK, server
    <3>8. CASE ClientDelete(c, u)
      <4>1. sent' \in [Conns -> Nat] /\ tasks' \subseteq Task
        BY <3>2, <3>3, <3>8 DEF ClientDelete
      <4>2. overlapped' \subseteq Conns \X Ops
        BY <3>3, <3>8 DEF ClientDelete, TypeOK
      <4> QED BY <3>8, <3>9, <4>1, <4>2 DEF ClientDelete, TypeOK, server
    <3> QED BY <3>1, <3>4, <3>5, <3>6, <3>7, <3>8
  <2>3. ASSUME NEW c \in Conns, Close(c) PROVE TypeOK'
    BY <2>3 DEF Close, TypeOK, server, history, ConnStates, Screens
  <2>4. ASSUME NEW t \in tasks, TaskStep(t) PROVE TypeOK'
    <3>1. t \in Task /\ t.conn \in Conns /\ t.user \in Users
      BY DEF TypeOK, Task
    <3>2. Finish(t) => tasks' \subseteq Task
      BY DEF Finish, TypeOK
    <3>3. ASSUME NEW step \in Steps, Advance(t, step)
          PROVE  tasks' \subseteq Task
      BY <3>1, <3>3, TaskMoved DEF Advance, TypeOK
    <3>4. "write" \in Steps /\ "reply" \in Steps /\ "finish" \in Steps
      BY DEF Steps
    <3>5. ASSUME NEW screen \in Screens, NEW u \in Users \cup {NoUser},
                 Reply(t.conn, screen, u)
          PROVE  client' \in [Conns -> [screen : Screens,
                                        user : Users \cup {NoUser}]]
      BY <3>1, <3>5 DEF Reply, TypeOK
    <3>6. "menu" \in Screens /\ "granted" \in Screens
      BY DEF Screens
    <3>7. CASE RegisterCheck(t)
      BY <3>1, <3>2, <3>3, <3>4, <3>5, <3>6, <3>7
         DEF RegisterCheck, TypeOK, server, history
    <3>8. CASE RegisterWrite(t)
      BY <3>1, <3>3, <3>4, <3>8, ZenonT(40)
         DEF RegisterWrite, TypeOK, server, history, States
    <3>9. CASE RegisterReply(t)
      BY <3>1, <3>2, <3>3, <3>4, <3>5, <3>6, <3>9
         DEF RegisterReply, TypeOK, server, history
    <3>10. CASE RegisterSelf(t)
      BY <3>1, <3>2, <3>10 DEF RegisterSelf, TypeOK, server, history
    <3>19. CASE LoginCheck(t)
      BY <3>1, <3>2, <3>3, <3>4, <3>5, <3>6, <3>19
         DEF LoginCheck, TypeOK, server, history
    <3>11. CASE LoginPassword(t)
      BY <3>1, <3>2, <3>3, <3>4, <3>5, <3>6, <3>11
         DEF LoginPassword, TypeOK, server, history
    <3>12. CASE LoginState(t)
      BY <3>1, <3>2, <3>5, <3>6, <3>12
         DEF LoginState, TypeOK, server, history
    <3>13. CASE ShipState(t)
      BY <3>1, <3>3, <3>4, <3>13
         DEF ShipState, TypeOK, server, history, States, Ships
    <3>14. CASE ShipOnline(t)
      BY <3>1, <3>2, <3>14
         DEF ShipOnline, addUserConn, TypeOK, history
    <3>15. CASE ShipOffline(t)
      BY <3>1, <3>2, <3>15
         DEF ShipOffline, removeUserConn, TypeOK, history
    <3>16. CASE DeleteHash(t)
      <4> DEFINE half == [account EXCEPT ![t.user].password = FALSE]
      <4>1. half \in [Users -> [password : BOOLEAN, mystate : States,
                                self : BOOLEAN]]
        BY <3>1 DEF TypeOK
      <4>2. account' = [half EXCEPT ![t.user].mystate = "null"]
        BY <3>16 DEF DeleteHash
      <4>3. account' \in [Users -> [password : BOOLEAN, mystate : States,
                                    self : BOOLEAN]]
        BY <3>1, <4>1, <4>2 DEF States
      <4> HIDE DEF half
      <4>4. deleted' \subseteq Users /\ tasks' \subseteq Task
        BY <3>1, <3>3, <3>4, <3>16 DEF DeleteHash, TypeOK
      <4> QED
        BY <3>16, <4>3, <4>4 DEF DeleteHash, TypeOK, server
    <3>17. CASE DeleteFriends(t)
      BY <3>1, <3>3, <3>4, <3>17
         DEF DeleteFriends, TypeOK, server, history
    <3>18. CASE DeleteReply(t)
      BY <3>1, <3>2, <3>5, <3>6, <3>18
         DEF DeleteReply, TypeOK, server, history
    <3> QED
      BY <2>4, <3>7, <3>8, <3>9, <3>10, <3>11, <3>12, <3>13, <3>14, <3>15,
         <3>16, <3>17, <3>18, <3>19 DEF TaskStep
  <2>5. ASSUME NEW c \in Conns, CloseGetName(c) PROVE TypeOK'
    BY <2>5 DEF CloseGetName, TypeOK, server, ConnStates
  <2>6. ASSUME NEW c \in Conns, CloseHset(c) PROVE TypeOK'
    BY <2>6, ZenonT(40) DEF CloseHset, TypeOK, server, history, ConnStates, States
  <2>7. ASSUME NEW c \in Conns, CloseRemove(c) PROVE TypeOK'
    BY <2>7 DEF CloseRemove, removeUserConn, TypeOK, history, ConnStates
  <2>8. CASE Restart
    BY <2>8 DEF Restart, TypeOK, ConnStates, Screens
  <2>9. CASE UNCHANGED vars
    BY <2>9 DEF vars, server, history, TypeOK
  <2> QED
    BY <2>1, <2>2, <2>3, <2>4, <2>5, <2>6, <2>7, <2>8, <2>9
       DEF Next, CloseStep
<1> QED BY <1>1, <1>2, PTL DEF Spec

----------------------------------------------------------------------------
\* The tasks of c that are going to answer it.
Answering(c) ==
    {t \in tasks : t.conn = c /\ t.op \notin Ships /\ t.step # "finish"}

\* A step of a task by another name: what it does to everything but redis.
LEMMA TaskStepFrame ==
    ASSUME TypeOK, NEW t \in tasks, TaskStep(t)
    PROVE  /\ t.conn \in Conns /\ t.user \in Users /\ t.op \in Ops
           /\ UNCHANGED <<connState, closingName, sent, restarted, proved, guessed, late,
                          overlapped>>
           /\ \/ UNCHANGED client
              \/ t \in Answering(t.conn) /\ Reply(t.conn, "menu", NoUser)
              \/ t \in Answering(t.conn) /\ Reply(t.conn, "granted", t.user)
           /\ \/ Finish(t)
              \/ \E step \in {"write", "reply", "finish"} :
                    /\ Advance(t, step)
                    /\ t.op \in Ships => step = "write"
                    /\ step # "finish" => UNCHANGED client
                    /\ step = "finish" => t.op \notin Ships
                    /\ t.op \in Ships \/ t \in Answering(t.conn)
<1>1. t.conn \in Conns /\ t.user \in Users /\ t.op \in Ops
  BY DEF TypeOK, Task
<1>2. "write" # "finish" /\ "reply" # "finish"
  OBVIOUS
<1>3. CASE RegisterCheck(t) \/ RegisterWrite(t) \/ RegisterReply(t) \/ RegisterSelf(t)
  BY <1>1, <1>3 DEF RegisterCheck, RegisterWrite, RegisterReply, RegisterSelf, AtStep,
     Answering, Ships, history
<1>4. CASE LoginCheck(t) \/ LoginPassword(t) \/ LoginState(t)
  BY <1>1, <1>4 DEF LoginCheck, LoginPassword, LoginState, AtStep, Answering, Ships,
     history
<1>5. CASE ShipState(t) \/ ShipOnline(t) \/ ShipOffline(t)
  BY <1>1, <1>5 DEF ShipState, ShipOnline, ShipOffline, AtStep, history
<1>6. CASE DeleteHash(t) \/ DeleteFriends(t) \/ DeleteReply(t)
  BY <1>1, <1>6 DEF DeleteHash, DeleteFriends, DeleteReply, AtStep, Answering, Ships,
     history
<1> QED
  BY TaskStep(t), <1>3, <1>4, <1>5, <1>6 DEF TaskStep
----------------------------------------------------------------------------
(***************************************************************************)
(* Who may be routed.  The screens, the tasks and the disconnect callback  *)
(* carry the evidence from the login request to ConnectionManager.  What a *)
(* login that was granted leaves behind is that c is entitled to u and     *)
(* that u has a password or was deleted: from then on every mystate that   *)
(* c's ships and c's end write belongs to such a user, so a hash without a *)
(* password is one that a deletion removed.                                *)
(***************************************************************************)
Known(u) == account[u].password \/ u \in deleted

Admitted(c, u) == Entitled(c, u) /\ Known(u)

RoutesAdmitted ==
    \A c \in Conns, u \in Users :
        userConnMap_[u] = c \/ connUserMap_[c] = u \/ closingName[c] = u
            => Admitted(c, u)

ScreensAreProved ==
    \A c \in Conns : client[c].screen \in {"granted", "user"} =>
        \E u \in Users : client[c].user = u /\ Admitted(c, u)

\* What a task was sent with, or has found out, about its user.
Shown(t) ==
    /\ t.op \in Ships => Admitted(t.conn, t.user)
    /\ t.op = "login" =>
          /\ <<t.conn, t.user>> \in IF t.right THEN proved ELSE guessed
          /\ t.step # "start" => Known(t.user)
          /\ t.step = "reply" => Admitted(t.conn, t.user)

TasksAreProved == \A t \in tasks : Shown(t)

StatesKnown == \A u \in Users : account[u].mystate # "null" => Known(u)

ProvedInv == RoutesAdmitted /\ ScreensAreProved /\ TasksAreProved /\ StatesKnown

\* Nothing of the evidence is lost in a step.
Kept ==
    /\ \A u \in Users : Known(u) => Known(u)'
    /\ \A c \in Conns, u \in Users : Admitted(c, u) => Admitted(c, u)'
    /\ proved \subseteq proved' /\ guessed \subseteq guessed'

\* The histories grow, and only a deletion, which is recorded, takes a
\* password away.
LEMMA KeptByAll ==
    ASSUME TypeOK, [Next]_vars
    PROVE  Kept
<1>1. /\ proved \subseteq proved' /\ guessed \subseteq guessed'
      /\ deleted \subseteq deleted'
      /\ \A u \in Users : account[u].password => account'[u].password \/ u \in deleted'
  <2> DEFINE Goal == /\ proved \subseteq proved' /\ guessed \subseteq guessed'
                     /\ deleted \subseteq deleted'
                     /\ \A u \in Users : account[u].password =>
                           account'[u].password \/ u \in deleted'
  <2>1. ASSUME NEW c \in Conns, onConnection(c) \/ Close(c) PROVE Goal
    BY <2>1 DEF onConnection, Close, history
  <2>2. ASSUME NEW c \in Conns, ClientStep(c) PROVE Goal
    BY <2>2 DEF ClientStep, ClientRegister, ClientLogin, ClientOnline, ClientLogout,
       ClientDelete, history
  <2>3. ASSUME NEW t \in tasks, TaskStep(t) PROVE Goal
    <3>1. t.user \in Users
      BY DEF TypeOK, Task
    <3>2. CASE RegisterWrite(t)
      BY <3>1, <3>2 DEF RegisterWrite, history, TypeOK
    <3>3. CASE RegisterSelf(t)
      BY <3>1, <3>3 DEF RegisterSelf, history, TypeOK
    <3>4. CASE ShipState(t)
      BY <3>1, <3>4 DEF ShipState, history, TypeOK
    <3>5. CASE DeleteFriends(t)
      BY <3>1, <3>5 DEF DeleteFriends, history, TypeOK
    <3>6. CASE DeleteHash(t)
      <4> DEFINE half == [account EXCEPT ![t.user].password = FALSE]
      <4>1. account' = [half EXCEPT ![t.user].mystate = "null"]
        BY <3>6 DEF DeleteHash
      <4>2. \A u \in Users : u # t.user => half[u] = account[u]
        BY DEF TypeOK
      <4>3. DOMAIN half = Users
        BY DEF TypeOK
      <4> HIDE DEF half
      <4>4. \A u \in Users : u # t.user => account'[u] = account[u]
        BY <4>1, <4>2, <4>3
      <4> QED BY <3>6, <4>4 DEF DeleteHash
    <3>7. CASE UNCHANGED <<account, proved, guessed, deleted>>
      BY <3>7
    <3> QED
      BY <2>3, <3>2, <3>3, <3>4, <3>5, <3>6, <3>7 DEF TaskStep, RegisterCheck,
         RegisterReply, LoginCheck, LoginPassword, LoginState, ShipOnline, ShipOffline,
         DeleteReply, history
  <2>4. ASSUME NEW c \in Conns, CloseHset(c) PROVE Goal
    BY <2>4 DEF CloseHset, history, TypeOK
  <2>5. ASSUME NEW c \in Conns, CloseGetName(c) \/ CloseRemove(c) PROVE Goal
    BY <2>5 DEF CloseGetName, CloseRemove, history
  <2>6. CASE Restart
    BY <2>6 DEF Restart
  <2>7. CASE UNCHANGED vars
    BY <2>7 DEF vars
  <2>8. Goal
    BY <2>1, <2>2, <2>3, <2>4, <2>5, <2>6, <2>7 DEF Next, CloseStep
  <2> QED BY <2>8
<1> QED
  BY <1>1 DEF Kept, Known, Admitted, Entitled

\* Replacing a task by the same task at another step keeps TasksAreProved,
\* as long as a login has the evidence for the step it goes to.
LEMMA TaskMoveProved ==
    ASSUME TypeOK, TasksAreProved, Kept, NEW t \in tasks, NEW step \in Steps,
           tasks' = (tasks \ {t}) \cup {[t EXCEPT !.step = step]},
           t.op = "login" => Known(t.user),
           t.op = "login" /\ step = "reply" => Admitted(t.conn, t.user)
    PROVE  TasksAreProved'
<1> DEFINE r == [t EXCEPT !.step = step]
<1>1. /\ r.conn = t.conn /\ r.op = t.op /\ r.user = t.user /\ r.right = t.right
      /\ r.step = step
  BY DEF TypeOK, Task
<1>2. \A s \in tasks : s.conn \in Conns /\ s.user \in Users
  BY DEF TypeOK, Task
<1>3. tasks' = (tasks \ {t}) \cup {r}
  OBVIOUS
<1> HIDE DEF r
<1>4. \A s \in tasks : Shown(s)'
  BY <1>2 DEF TasksAreProved, Shown, Kept
<1>5. Shown(r)'
  BY <1>1, <1>2, <1>4 DEF Shown, Kept
<1> QED BY <1>3, <1>4, <1>5 DEF TasksAreProved

\* Removing tasks and answering keep everything that is proved.
LEMMA TaskEndProved ==
    ASSUME TypeOK, TasksAreProved, tasks' \subseteq tasks, Kept
    PROVE  TasksAreProved'
<1>1. \A s \in tasks : s.conn \in Conns /\ s.user \in Users
  BY DEF TypeOK, Task
<1> QED BY <1>1 DEF TasksAreProved, Shown, Kept

\* A request adds one task; what it was sent with is its evidence.
LEMMA TaskNewProved ==
    ASSUME TypeOK, TasksAreProved, Kept, NEW c \in Conns, NEW u \in Users,
           NEW op \in Ops, NEW right \in BOOLEAN, SendTask(c, op, u, right),
           op \in Ships => Admitted(c, u),
           op = "login" => <<c, u>> \in (IF right THEN proved ELSE guessed)'
    PROVE  TasksAreProved'
<1> PICK new : new = [conn |-> c, id |-> sent[c], op |-> op, user |-> u,
                      right |-> right, step |-> "start"]
  OBVIOUS
<1>1. /\ new.conn = c /\ new.op = op /\ new.user = u /\ new.right = right
      /\ new.step = "start"
  OBVIOUS
<1>2. tasks' = tasks \cup {new}
  BY DEF SendTask
<1>3. \A s \in tasks : s.conn \in Conns /\ s.user \in Users
  BY DEF TypeOK, Task
<1>4. \A s \in tasks : Shown(s)'
  BY <1>3 DEF TasksAreProved, Shown, Kept
<1>5. Shown(new)'
  BY <1>1 DEF Shown, Kept
<1> QED BY <1>2, <1>4, <1>5 DEF TasksAreProved

\* The routes, screens and states that are left alone keep their evidence.
LEMMA RoutesKept ==
    ASSUME RoutesAdmitted, Kept, UNCHANGED <<userConnMap_, connUserMap_, closingName>>
    PROVE  RoutesAdmitted'
BY DEF RoutesAdmitted, Kept

LEMMA ScreensKept ==
    ASSUME ScreensAreProved, Kept,
           \A c \in Conns : \/ client'[c] = client[c]
                            \/ client'[c].screen \notin {"granted", "user"}
                            \/ \E u \in Users : client'[c].user = u /\ Admitted(c, u)
    PROVE  ScreensAreProved'
<1> SUFFICES ASSUME NEW c \in Conns, client'[c].screen \in {"granted", "user"}
             PROVE  \E u \in Users : client'[c].user = u /\ Admitted(c, u)'
  BY DEF ScreensAreProved
<1>1. \E u \in Users : client'[c].user = u /\ Admitted(c, u)
  BY DEF ScreensAreProved
<1> QED BY <1>1 DEF Kept

LEMMA StatesKept ==
    ASSUME StatesKnown, Kept,
           \A u \in Users : \/ account'[u].mystate = account[u].mystate
                            \/ account'[u].mystate = "null"
                            \/ Known(u)
    PROVE  StatesKnown'
BY DEF StatesKnown, Kept

\* The evidence is there in every state.
LEMMA ProvedAlways == Spec => []ProvedInv
<1>1. Init => ProvedInv
  BY ConstantsAssumption
     DEF Init, ProvedInv, RoutesAdmitted, ScreensAreProved, TasksAreProved, StatesKnown
<1>2. TypeOK /\ ProvedInv /\ [Next]_vars => ProvedInv'
  <2> SUFFICES ASSUME TypeOK, ProvedInv, [Next]_vars PROVE ProvedInv'
    OBVIOUS
  <2>a. Kept
    BY KeptByAll
  <2>b. RoutesAdmitted /\ ScreensAreProved /\ TasksAreProved /\ StatesKnown
    BY DEF ProvedInv
  <2>1. ASSUME NEW c \in Conns, onConnection(c) PROVE ProvedInv'
    <3>1. \A d \in Conns : client'[d] = client[d] \/ client'[d].screen = "menu"
      BY <2>1 DEF onConnection, TypeOK
    <3>2. UNCHANGED <<account, tasks, userConnMap_, connUserMap_, closingName>>
      BY <2>1 DEF onConnection, server
    <3> QED
      BY <2>a, <2>b, <3>1, <3>2, RoutesKept, ScreensKept, TaskEndProved, StatesKept
         DEF ProvedInv
  <2>2. ASSUME NEW c \in Conns, ClientStep(c) PROVE ProvedInv'
    <3>1. PICK u \in Users :
             \/ ClientRegister(c, u)
             \/ \E right \in BOOLEAN : ClientLogin(c, u, right)
             \/ ClientOnline(c, u) \/ ClientLogout(c, u) \/ ClientDelete(c, u)
      BY <2>2 DEF ClientStep
    <3>2. {"register", "login", "online", "offline", "delete"} \subseteq Ops
      BY DEF Ops
    <3>3. UNCHANGED <<account, userConnMap_, connUserMap_, closingName>>
      BY <3>1 DEF ClientRegister, ClientLogin, ClientOnline, ClientLogout, ClientDelete,
         server
    <3>4. RoutesAdmitted' /\ StatesKnown'
      BY <2>a, <2>b, <3>3, RoutesKept, StatesKept
    <3>5. Shows(c, "granted", u) \/ Shows(c, "user", u) => Admitted(c, u)
      BY <2>b DEF ScreensAreProved, Shows
    <3>6. TasksAreProved'
      <4>1. CASE ClientRegister(c, u)
        <5>1. SendTask(c, "register", u, TRUE)
          BY <4>1 DEF ClientRegister
        <5> QED BY <2>a, <2>b, <3>2, <5>1, TaskNewProved DEF Ships
      <4>2. ASSUME NEW right \in BOOLEAN, ClientLogin(c, u, right) PROVE TasksAreProved'
        <5>1. /\ SendTask(c, "login", u, right)
              /\ <<c, u>> \in (IF right THEN proved ELSE guessed)'
          BY <4>2 DEF ClientLogin
        <5> QED BY <2>a, <2>b, <3>2, <5>1, TaskNewProved DEF Ships
      <4>3. CASE ClientOnline(c, u)
        <5>1. SendTask(c, "online", u, TRUE) /\ Admitted(c, u)
          BY <3>5, <4>3 DEF ClientOnline
        <5> QED BY <2>a, <2>b, <3>2, <5>1, TaskNewProved
      <4>4. CASE ClientLogout(c, u)
        <5>1. SendTask(c, "offline", u, TRUE) /\ Admitted(c, u)
          BY <3>5, <4>4 DEF ClientLogout
        <5> QED BY <2>a, <2>b, <3>2, <5>1, TaskNewProved
      <4>5. CASE ClientDelete(c, u)
        <5>1. SendTask(c, "delete", u, TRUE)
          BY <4>5 DEF ClientDelete
        <5> QED BY <2>a, <2>b, <3>2, <5>1, TaskNewProved DEF Ships
      <4> QED BY <3>1, <4>1, <4>2, <4>3, <4>4, <4>5
    <3>7. \A d \in Conns : \/ client'[d] = client[d]
                           \/ client'[d].screen \notin {"granted", "user"}
                           \/ client'[d].user = u /\ Admitted(d, u)
      <4>0. DOMAIN client = Conns
        BY DEF TypeOK
      <4>1. CASE ClientOnline(c, u)
        <5>1. /\ client' = [client EXCEPT ![c] = [screen |-> "user", user |-> u]]
              /\ Admitted(c, u)
          BY <3>5, <4>1 DEF ClientOnline
        <5> QED BY <4>0, <5>1
      <4>2. ASSUME NEW screen \in {"wait", "menu"}, NEW v,
                   client' = [client EXCEPT ![c] = [screen |-> screen, user |-> v]]
            PROVE  \A d \in Conns : \/ client'[d] = client[d]
                                    \/ client'[d].screen \notin {"granted", "user"}
        BY <4>0, <4>2
      <4> QED
        BY <3>1, <4>1, <4>2 DEF ClientRegister, ClientLogin, ClientLogout, ClientDelete
    <3>8. ScreensAreProved'
      BY <2>a, <2>b, <3>7, ScreensKept
    <3> QED BY <3>4, <3>6, <3>8 DEF ProvedInv
  <2>3. ASSUME NEW c \in Conns, Close(c) PROVE ProvedInv'
    <3>1. \A d \in Conns : client'[d] = client[d] \/ client'[d].screen = "none"
      BY <2>3 DEF Close, TypeOK
    <3>2. UNCHANGED <<account, tasks, userConnMap_, connUserMap_, closingName>>
      BY <2>3 DEF Close, server
    <3> QED
      BY <2>a, <2>b, <3>1, <3>2, RoutesKept, ScreensKept, TaskEndProved, StatesKept
         DEF ProvedInv
  <2>4. ASSUME NEW t \in tasks, TaskStep(t) PROVE ProvedInv'
    <3>1. t.conn \in Conns /\ t.user \in Users
      BY DEF TypeOK, Task
    <3>2. closingName' = closingName
      BY <2>4, TaskStepFrame
    <3>s. Shown(t)
      BY <2>b DEF TasksAreProved
    <3>3. TasksAreProved'
      <4>1. "write" \in Steps /\ "reply" \in Steps /\ "finish" \in Steps
        BY DEF Steps
      <4>2. ASSUME Finish(t) PROVE TasksAreProved'
        BY <2>a, <2>b, <4>2, TaskEndProved DEF Finish
      <4>3. ASSUME NEW step \in Steps, Advance(t, step),
                   t.op = "login" => Known(t.user),
                   t.op = "login" /\ step = "reply" => Admitted(t.conn, t.user)
            PROVE  TasksAreProved'
        BY <2>a, <2>b, <4>3, TaskMoveProved DEF Advance
      <4>4. CASE RegisterCheck(t) \/ RegisterReply(t) \/ RegisterSelf(t)
                 \/ RegisterWrite(t)
        BY <4>1, <4>2, <4>3, <4>4 DEF RegisterCheck, RegisterReply,
           RegisterSelf, RegisterWrite, AtStep
      <4>8. CASE LoginCheck(t)
        <5>1. isAccount(t.user) => Known(t.user)
          BY <2>b, <3>1 DEF isAccount, StatesKnown, Known
        <5> QED BY <4>1, <4>2, <4>3, <4>8, <5>1 DEF LoginCheck, AtStep
      <4>9. CASE LoginPassword(t)
        <5>1. t.op = "login" /\ Known(t.user)
          BY <3>s, <4>9 DEF LoginPassword, AtStep, Shown
        <5>2. t.right = account[t.user].password => Admitted(t.conn, t.user)
          <6>1. CASE t.right
            BY <3>s, <5>1, <6>1 DEF Shown, Admitted, Entitled
          <6>2. CASE ~t.right
            BY <3>s, <5>1, <6>2 DEF Shown, Admitted, Entitled, Known
          <6> QED BY <6>1, <6>2
        <5> QED BY <4>1, <4>2, <4>3, <4>9, <5>1, <5>2 DEF LoginPassword
      <4>5. CASE LoginState(t)
        BY <4>2, <4>5 DEF LoginState
      <4>6. CASE ShipState(t) \/ ShipOnline(t) \/ ShipOffline(t)
        BY <4>1, <4>2, <4>3, <4>6 DEF ShipState, ShipOnline, ShipOffline, Ships
      <4>7. CASE DeleteHash(t) \/ DeleteFriends(t) \/ DeleteReply(t)
        BY <4>1, <4>2, <4>3, <4>7
           DEF DeleteHash, DeleteFriends, DeleteReply, AtStep
      <4> QED BY <2>4, <4>4, <4>5, <4>6, <4>7, <4>8, <4>9 DEF TaskStep
    <3>4. ScreensAreProved'
      <4>1. ASSUME Reply(t.conn, "menu", NoUser) PROVE ScreensAreProved'
        <5>1. \A d \in Conns : client'[d] = client[d] \/ client'[d].screen = "menu"
          BY <3>1, <4>1 DEF Reply, TypeOK
        <5> QED BY <2>a, <2>b, <5>1, ScreensKept
      <4>2. ASSUME Reply(t.conn, "granted", t.user), Admitted(t.conn, t.user)
            PROVE  ScreensAreProved'
        <5>1. \A d \in Conns : \/ client'[d] = client[d]
                               \/ client'[d].user = t.user /\ Admitted(d, t.user)
          <6>1. t.conn \in Conns /\ DOMAIN client = Conns
            BY <3>1 DEF TypeOK
          <6>2. ASSUME NEW d \in Conns, d # t.conn PROVE client'[d] = client[d]
            BY <4>2, <6>1, <6>2 DEF Reply
          <6>3. client'[t.conn] = client[t.conn] \/ client'[t.conn].user = t.user
            BY <4>2, <6>1 DEF Reply
          <6> QED BY <4>2, <6>2, <6>3
        <5> QED BY <2>a, <2>b, <3>1, <5>1, ScreensKept
      <4>3. CASE UNCHANGED client
        BY <2>a, <2>b, <4>3, ScreensKept
      <4>4. CASE LoginState(t)
        BY <3>s, <4>1, <4>2, <4>4 DEF LoginState, AtStep, Shown
      <4> QED
        BY <2>4, <4>1, <4>3, <4>4
           DEF TaskStep, RegisterCheck, RegisterWrite, RegisterReply,
               RegisterSelf, LoginCheck, LoginPassword, ShipState, ShipOnline,
               ShipOffline, DeleteHash, DeleteFriends, DeleteReply
    <3>5. RoutesAdmitted'
      <4>1. CASE UNCHANGED server
        BY <2>a, <2>b, <3>2, <4>1, RoutesKept DEF server
      <4>2. CASE ShipOnline(t)
        <5>1. Admitted(t.conn, t.user)
          BY <3>s, <4>2 DEF ShipOnline, AtStep, Shown, Ships
        <5>2. \A c \in Conns, u \in Users :
                 userConnMap_'[u] = c \/ connUserMap_'[c] = u \/ closingName'[c] = u
                     => Admitted(c, u)
          BY <2>b, <3>1, <3>2, <4>2, <5>1
             DEF ShipOnline, addUserConn, RoutesAdmitted, TypeOK
        <5> QED BY <2>a, <5>2 DEF RoutesAdmitted, Kept
      <4>3. CASE ShipOffline(t)
        <5>1. \A c \in Conns, u \in Users :
                 userConnMap_'[u] = c \/ connUserMap_'[c] = u \/ closingName'[c] = u
                     => Admitted(c, u)
          BY <2>b, <3>1, <3>2, <4>3, ConstantsAssumption
             DEF ShipOffline, removeUserConn, RoutesAdmitted, TypeOK
        <5> QED BY <2>a, <5>1 DEF RoutesAdmitted, Kept
      <4> QED
        BY <2>4, <4>1, <4>2, <4>3
           DEF TaskStep, RegisterCheck, RegisterWrite, RegisterReply,
               RegisterSelf, LoginCheck, LoginPassword, LoginState, ShipState,
               DeleteHash, DeleteFriends, DeleteReply
    <3>6. StatesKnown'
      <4>1. CASE UNCHANGED account
        BY <2>a, <2>b, <4>1, StatesKept
      <4>2. ASSUME \A u \in Users : account'[u].mystate = account[u].mystate
            PROVE  StatesKnown'
        BY <2>a, <2>b, <4>2, StatesKept
      <4>3. CASE RegisterWrite(t)
        BY <3>1, <4>2, <4>3 DEF RegisterWrite, TypeOK
      <4>4. CASE RegisterSelf(t)
        BY <3>1, <4>2, <4>4 DEF RegisterSelf, TypeOK
      <4>5. CASE DeleteFriends(t)
        BY <3>1, <4>2, <4>5 DEF DeleteFriends, TypeOK
      <4>6. CASE ShipState(t)
        <5>1. Known(t.user)
          BY <3>s, <4>6 DEF ShipState, Shown, Admitted
        <5>2. \A u \in Users : account'[u].mystate = account[u].mystate \/ u = t.user
          BY <3>1, <4>6 DEF ShipState, TypeOK
        <5> QED BY <2>a, <2>b, <5>1, <5>2, StatesKept
      <4>7. CASE DeleteHash(t)
        <5> DEFINE half == [account EXCEPT ![t.user].password = FALSE]
        <5>1. account' = [half EXCEPT ![t.user].mystate = "null"]
          BY <4>7 DEF DeleteHash
        <5>2. half \in [Users -> [password : BOOLEAN, mystate : States,
                                  self : BOOLEAN]]
              /\ \A u \in Users : u # t.user => half[u] = account[u]
          BY <3>1 DEF TypeOK
        <5> HIDE DEF half
        <5>3. \A u \in Users : account'[u].mystate = account[u].mystate
                               \/ account'[u].mystate = "null"
          BY <3>1, <5>1, <5>2
        <5> QED BY <2>a, <2>b, <5>3, StatesKept
      <4> QED
        BY <2>4, <4>1, <4>3, <4>4, <4>5, <4>6, <4>7
           DEF TaskStep, RegisterCheck, RegisterReply, LoginCheck, LoginPassword,
               LoginState, ShipOnline, ShipOffline, DeleteReply
    <3> QED BY <3>3, <3>4, <3>5, <3>6 DEF ProvedInv
  <2>5. ASSUME NEW c \in Conns, CloseGetName(c) PROVE ProvedInv'
    <3>1. UNCHANGED <<account, client, tasks>>
      BY <2>5 DEF CloseGetName
    <3>2. \A d \in Conns, u \in Users :
             userConnMap_'[u] = d \/ connUserMap_'[d] = u \/ closingName'[d] = u
                 => Admitted(d, u)
      BY <2>b, <2>5 DEF CloseGetName, server, RoutesAdmitted, TypeOK
    <3>3. RoutesAdmitted'
      BY <2>a, <3>2 DEF RoutesAdmitted, Kept
    <3> QED
      BY <2>a, <2>b, <3>1, <3>3, ScreensKept, TaskEndProved, StatesKept DEF ProvedInv
  <2>6. ASSUME NEW c \in Conns, CloseHset(c) PROVE ProvedInv'
    <3>1. UNCHANGED <<userConnMap_, connUserMap_, closingName, client, tasks>>
      BY <2>6 DEF CloseHset, server
    <3>2. closingName[c] \in Users => Known(closingName[c])
      BY <2>b DEF RoutesAdmitted, Admitted
    <3>3. \A u \in Users : account'[u].mystate = account[u].mystate \/ Known(u)
      BY <2>6, <3>2 DEF CloseHset, TypeOK
    <3> QED
      BY <2>a, <2>b, <3>1, <3>3, RoutesKept, ScreensKept, TaskEndProved, StatesKept
         DEF ProvedInv
  <2>7. ASSUME NEW c \in Conns, CloseRemove(c) PROVE ProvedInv'
    <3>1. UNCHANGED <<account, client, tasks>>
      BY <2>7 DEF CloseRemove
    <3>2. \A d \in Conns, u \in Users :
             userConnMap_'[u] = d \/ connUserMap_'[d] = u \/ closingName'[d] = u
                 => Admitted(d, u)
      BY <2>b, <2>7, ConstantsAssumption
         DEF CloseRemove, removeUserConn, RoutesAdmitted, TypeOK
    <3>3. RoutesAdmitted'
      BY <2>a, <3>2 DEF RoutesAdmitted, Kept
    <3> QED
      BY <2>a, <2>b, <3>1, <3>3, ScreensKept, TaskEndProved, StatesKept DEF ProvedInv
  <2>8. CASE Restart
    <3>1. \A d \in Conns : client'[d].screen = "none"
      BY <2>8 DEF Restart
    <3>2. RoutesAdmitted'
      BY <2>8, ConstantsAssumption DEF Restart, RoutesAdmitted
    <3>3. account' = account /\ tasks' \subseteq tasks
      BY <2>8 DEF Restart
    <3> QED
      BY <2>a, <2>b, <3>1, <3>2, <3>3, ScreensKept, TaskEndProved, StatesKept DEF ProvedInv
  <2>9. CASE UNCHANGED vars
    <3>1. UNCHANGED <<account, userConnMap_, connUserMap_, closingName, client, tasks>>
      BY <2>9 DEF vars
    <3> QED
      BY <2>a, <2>b, <3>1, RoutesKept, ScreensKept, TaskEndProved, StatesKept DEF ProvedInv
  <2> QED
    BY <2>1, <2>2, <2>3, <2>4, <2>5, <2>6, <2>7, <2>8, <2>9
       DEF Next, CloseStep
<1> QED BY <1>1, <1>2, TypeCorrect, PTL DEF Spec

\* Messages for a user, and the loss of its session, concern only connections
\* that presented that user's password, or the word "null" for a user whose
\* account was deleted: whatever the order in which the pool runs the tasks of
\* login, ship, delete and the callbacks, and however the round trips of a login
\* fall between them.
THEOREM RoutingProved == Spec => []RoutesAreProved
<1>1. ProvedInv => RoutesAreProved
  BY DEF ProvedInv, RoutesAdmitted, Admitted, RoutesAreProved
<1> QED BY <1>1, ProvedAlways, PTL

----------------------------------------------------------------------------
(***************************************************************************)
(* Answers, routes and mystate of a connection whose requests do not       *)
(* overlap its own ships.                                                  *)
(***************************************************************************)
\* A client has at most one request that is going to be answered, and while it
\* is connected it waits for it; so no old answer changes its screen.
AnswerInv ==
    \A c \in Conns :
        /\ \A s, t \in Answering(c) : s = t
        /\ connState[c] # "up" => client[c].screen = "none"
        /\ connState[c] = "up" /\ Answering(c) # {} => client[c].screen = "wait"
        /\ connState[c] = "new" => TasksOf(c) = {}

\* Deleting and closing concern users whom the connection logged in as.
ClosingProved ==
    /\ \A t \in tasks : t.op = "delete" =>
          /\ <<t.conn, t.user>> \in proved \cup guessed
          /\ <<t.conn, "delete">> \in overlapped
    /\ \A c \in Conns : closingName[c] \in Users =>
          <<c, closingName[c]>> \in proved \cup guessed

Clean(c) == c \notin late /\ Orderly(c)

\* The routes of a clean connection follow its ships, its screen and its end.
RoutesFollow(c) ==
    /\ \A s, t \in ShipsOf(c) : s = t
    /\ \A u \in Users : userConnMap_[u] = c => connUserMap_[c] = u
    /\ \A t \in ShipsOf(c) :
          /\ connState[c] \in {"up", "getName"}
          /\ connUserMap_[c] = IF t.op = "online" THEN NoUser ELSE t.user
    /\ connState[c] = "up" =>
          IF client[c].screen = "user"
          THEN /\ ShipsOf(c) = {} => connUserMap_[c] = client[c].user
               /\ \A t \in ShipsOf(c) : t.op = "online" /\ t.user = client[c].user
          ELSE /\ ShipsOf(c) = {} => connUserMap_[c] = NoUser
               /\ \A t \in ShipsOf(c) : t.op = "offline"
    /\ connState[c] \in {"hset", "remove"} =>
          closingName[c] = connUserMap_[c] /\ closingName[c] \in Users
    /\ connState[c] \in {"new", "down"} => connUserMap_[c] = NoUser

CleanInv == \A c \in Conns : Clean(c) => RoutesFollow(c)

Written(c, u) == {t \in ShipsOf(c) : t.user = u /\ t.step = "write"}

\* mystate runs ahead of the routes by a ship that has written it, and by a
\* disconnect callback that has.
StateFollows(c, u) ==
    /\ account[u].mystate = "online" <=>
          IF Written(c, u) = {}
          THEN connUserMap_[c] = u /\ connState[c] # "remove"
          ELSE \E t \in Written(c, u) : t.op = "online"
    /\ connUserMap_[c] = u => userConnMap_[u] = c

StatusInv ==
    \A c \in Conns, u \in Users :
        Clean(c) /\ OnlyClientOf(c, u) => StateFollows(c, u)

\* A task that ends or moves on is one of its own connection.
LEMMA OthersTasks ==
    ASSUME TypeOK, NEW t \in tasks, NEW d \in Conns, d # t.conn,
           Finish(t) \/ \E step \in Steps : Advance(t, step)
    PROVE  TasksOf(d)' = TasksOf(d) /\ ShipsOf(d)' = ShipsOf(d)
<1>1. CASE Finish(t)
  BY <1>1 DEF Finish, TasksOf, ShipsOf
<1>2. ASSUME NEW step \in Steps, Advance(t, step)
      PROVE  TasksOf(d)' = TasksOf(d) /\ ShipsOf(d)' = ShipsOf(d)
  <2> DEFINE r == [t EXCEPT !.step = step]
  <2>1. r.conn = t.conn
    BY DEF TypeOK, Task
  <2>2. tasks' = (tasks \ {t}) \cup {r}
    BY <1>2 DEF Advance
  <2> HIDE DEF r
  <2> QED BY <2>1, <2>2 DEF TasksOf, ShipsOf
<1> QED BY <1>1, <1>2

\* c sends a request about u and goes from the menu or its user's screen to
\* another, where it waits if the request is going to be answered.
Sends(c, u, op, right, screen, v) ==
    /\ SendTask(c, op, u, right)
    /\ connState[c] = "up" /\ client[c].screen \in {"menu", "granted", "user"}
    /\ client' = [client EXCEPT ![c] = [screen |-> screen, user |-> v]]
    /\ op \notin Ships => screen = "wait"
    /\ overlapped \subseteq overlapped'
    /\ proved \subseteq proved' /\ guessed \subseteq guessed'
    /\ UNCHANGED <<account, server, connState, closingName, restarted, deleted, late>>

\* Every step of a client sends a request and changes its screen.
LEMMA ClientStepFrame ==
    ASSUME NEW c \in Conns, ClientStep(c)
    PROVE  \E u \in Users, op \in Ops, right \in BOOLEAN, screen \in Screens,
              v \in Users \cup {NoUser} : Sends(c, u, op, right, screen, v)
<1> USE DEF Sends, Shows
<1>1. PICK u \in Users :
          \/ ClientRegister(c, u)
          \/ \E right \in BOOLEAN : ClientLogin(c, u, right)
          \/ ClientOnline(c, u) \/ ClientLogout(c, u) \/ ClientDelete(c, u)
  BY DEF ClientStep
<1>2. ClientRegister(c, u) => Sends(c, u, "register", TRUE, "wait", u)
  BY DEF ClientRegister, SendTask, history
<1>3. ASSUME NEW right \in BOOLEAN, ClientLogin(c, u, right)
      PROVE  Sends(c, u, "login", right, "wait", u)
  BY <1>3 DEF ClientLogin, SendTask
<1>4. ClientOnline(c, u) => Sends(c, u, "online", TRUE, "user", u)
  BY DEF ClientOnline, NoteOverlap, SendTask, Ships
<1>5. ClientLogout(c, u) => Sends(c, u, "offline", TRUE, "menu", NoUser)
  BY DEF ClientLogout, NoteOverlap, SendTask, Ships
<1>6. ClientDelete(c, u) => Sends(c, u, "delete", TRUE, "wait", u)
  BY DEF ClientDelete, SendTask
<1>7. /\ {"register", "login", "online", "offline", "delete"} \subseteq Ops
      /\ {"wait", "user", "menu"} \subseteq Screens
  BY DEF Ops, Screens
<1> HIDE DEF Sends
<1> QED
  BY <1>1, <1>2, <1>3, <1>4, <1>5, <1>6, <1>7

\* Every step keeps AnswerInv.
LEMMA AnswerStep ==
    ASSUME TypeOK, AnswerInv, [Next]_vars
    PROVE  AnswerInv'
<1> USE DEF AnswerInv, Answering, TasksOf
<1>1. ASSUME NEW c \in Conns, onConnection(c) PROVE AnswerInv'
  BY <1>1 DEF onConnection, TypeOK
<1>2. ASSUME NEW c \in Conns, ClientStep(c) PROVE AnswerInv'
  <2>1. PICK u \in Users, op \in Ops, right \in BOOLEAN, screen \in Screens,
             v \in Users \cup {NoUser} : Sends(c, u, op, right, screen, v)
    BY <1>2, ClientStepFrame
  <2> USE DEF Sends
  <2> DEFINE new == [conn |-> c, id |-> sent[c], op |-> op, user |-> u,
                     right |-> right, step |-> "start"]
  <2>2. tasks' = tasks \cup {new}
    BY <2>1 DEF SendTask
  <2>3. new.conn = c /\ new.op = op
    OBVIOUS
  <2> HIDE DEF new
  <2>4. Answering(c) = {} /\ Answering(c)' \subseteq {new}
    BY <2>1, <2>2
  <2>5. Answering(c)' # {} => screen = "wait"
    BY <2>1, <2>3, <2>4
  <2>6. client'[c].screen = screen
    BY <2>1 DEF TypeOK
  <2>7. ASSUME NEW d \in Conns, d # c
        PROVE  client'[d] = client[d] /\ TasksOf(d)' = TasksOf(d)
    BY <2>1, <2>2, <2>3, <2>7 DEF TypeOK
  <2> QED
    BY <2>1, <2>4, <2>5, <2>6, <2>7
<1>3. ASSUME NEW c \in Conns, Close(c) PROVE AnswerInv'
  BY <1>3 DEF Close, TypeOK
<1>4. ASSUME NEW t \in tasks, TaskStep(t) PROVE AnswerInv'
  <2>1. /\ t.conn \in Conns /\ UNCHANGED connState
        /\ \/ UNCHANGED client
           \/ t \in Answering(t.conn) /\ Reply(t.conn, "menu", NoUser)
           \/ t \in Answering(t.conn) /\ Reply(t.conn, "granted", t.user)
        /\ \/ Finish(t)
           \/ \E step \in {"write", "reply", "finish"} :
                 /\ Advance(t, step)
                 /\ step # "finish" => UNCHANGED client
                 /\ t.op \in Ships \/ t \in Answering(t.conn)
    BY <1>4, TaskStepFrame
  <2>2. ASSUME NEW d \in Conns, d # t.conn
        PROVE  client'[d] = client[d] /\ TasksOf(d)' = TasksOf(d)
    <3>1. client'[d] = client[d]
      BY <2>1, <2>2 DEF Reply, TypeOK
    <3>3. TasksOf(d)' = TasksOf(d)
      BY <2>1, <2>2, OthersTasks DEF Steps
    <3> QED BY <3>1, <3>3
  <2>3. connState[t.conn] # "up" => UNCHANGED client
    BY <2>1 DEF Reply, TypeOK
  <2>4. CASE Finish(t)
    <3>1. Answering(t.conn)' = Answering(t.conn) \ {t}
      BY <2>4 DEF Finish
    <3> QED BY <2>1, <2>2, <2>3, <3>1, <2>4 DEF Finish, Reply, TypeOK
  <2>5. ASSUME NEW step \in {"write", "reply", "finish"}, Advance(t, step),
               step # "finish" => UNCHANGED client,
               t.op \in Ships \/ t \in Answering(t.conn)
        PROVE  AnswerInv'
    <3> DEFINE r == [t EXCEPT !.step = step]
    <3>1. r.conn = t.conn /\ r.op = t.op /\ r.step = step
      BY DEF TypeOK, Task
    <3>2. tasks' = (tasks \ {t}) \cup {r}
      BY <2>5 DEF Advance
    <3> HIDE DEF r
    <3>3. CASE t \in Answering(t.conn)
      <4>1. Answering(t.conn)' \subseteq {r}
        BY <2>1, <3>2, <3>3
      <4>2. step = "finish" => Answering(t.conn)' = {}
        BY <3>1, <4>1
      <4>3. connState[t.conn] = "up" /\ Answering(t.conn)' # {}
               => client'[t.conn].screen = "wait"
        BY <2>1, <2>5, <3>3, <4>2
      <4>4. connState[t.conn] # "up" => client'[t.conn].screen = "none"
        BY <2>1, <2>3
      <4>5. TasksOf(t.conn) # {}
        BY <2>1
      <4> QED BY <2>1, <2>2, <4>1, <4>3, <4>4, <4>5
    <3>4. CASE t \notin Answering(t.conn)
      <4>1. UNCHANGED client
        BY <2>1, <3>4
      <4>4. Answering(t.conn)' = Answering(t.conn)
        BY <2>5, <3>1, <3>2, <3>4
      <4> QED BY <2>1, <2>2, <4>1, <4>4, <3>2
    <3> QED BY <3>3, <3>4
  <2> QED BY <2>1, <2>4, <2>5
<1>5. ASSUME NEW c \in Conns, CloseStep(c) PROVE AnswerInv'
  BY <1>5 DEF CloseStep, CloseGetName, CloseHset, CloseRemove, TypeOK
<1>6. CASE Restart
  BY <1>6 DEF Restart, TypeOK
<1>7. CASE UNCHANGED vars
  BY <1>7 DEF vars
<1> QED
  BY <1>1, <1>2, <1>3, <1>4, <1>5, <1>6, <1>7 DEF Next
\* Every step keeps ClosingProved.
LEMMA ClosingStep ==
    ASSUME TypeOK, ProvedInv, ClosingProved, [Next]_vars
    PROVE  ClosingProved'
<1> USE DEF ClosingProved
<1>1. ASSUME NEW c \in Conns, onConnection(c) \/ Close(c) PROVE ClosingProved'
  BY <1>1 DEF onConnection, Close, history
<1>2. ASSUME NEW c \in Conns, ClientStep(c) PROVE ClosingProved'
  <2>1. PICK u \in Users, op \in Ops, right \in BOOLEAN, screen \in Screens,
             v \in Users \cup {NoUser} : Sends(c, u, op, right, screen, v)
    BY <1>2, ClientStepFrame
  <2>2. ASSUME NEW w \in Users, ClientDelete(c, w)
        PROVE  <<c, w>> \in (proved \cup guessed)' /\ <<c, "delete">> \in overlapped'
    <3>1. Shows(c, "user", w) /\ overlapped' = overlapped \cup {<<c, "delete">>}
          /\ proved' = proved /\ guessed' = guessed
      BY <2>2 DEF ClientDelete
    <3>2. Admitted(c, w)
      BY <3>1 DEF Shows, ProvedInv, ScreensAreProved
    <3> QED BY <3>1, <3>2 DEF Admitted, Entitled
  <2>3. ASSUME NEW t \in tasks', t \notin tasks, t.op = "delete"
        PROVE  /\ <<t.conn, t.user>> \in (proved \cup guessed)'
               /\ <<t.conn, "delete">> \in overlapped'
    BY <1>2, <2>2, <2>3 DEF ClientStep, ClientRegister, ClientLogin, ClientOnline,
       ClientLogout, ClientDelete, SendTask
  <2> QED
    BY <2>1, <2>3 DEF Sends
<1>3. ASSUME NEW t \in tasks, TaskStep(t) PROVE ClosingProved'
  <2>1. /\ UNCHANGED <<closingName, proved, guessed, overlapped>>
        /\ Finish(t) \/ \E step \in Steps : Advance(t, step)
    BY <1>3, TaskStepFrame DEF Steps
  <2>2. ASSUME NEW step \in Steps
        PROVE  LET r == [t EXCEPT !.step = step]
               IN  r.conn = t.conn /\ r.op = t.op /\ r.user = t.user
    BY DEF TypeOK, Task
  <2> QED
    BY <2>1, <2>2 DEF Finish, Advance
<1>4. ASSUME NEW c \in Conns, CloseGetName(c) PROVE ClosingProved'
  BY <1>4 DEF CloseGetName, TypeOK, ProvedInv, RoutesAdmitted, Admitted, Entitled
<1>5. ASSUME NEW c \in Conns, CloseHset(c) \/ CloseRemove(c) PROVE ClosingProved'
  BY <1>5, ConstantsAssumption DEF CloseHset, CloseRemove, history, TypeOK
<1>6. CASE Restart
  BY <1>6, ConstantsAssumption DEF Restart
<1>7. CASE UNCHANGED vars
  BY <1>7 DEF vars, history
<1> QED
  BY <1>1, <1>2, <1>3, <1>4, <1>5, <1>6, <1>7 DEF Next, CloseStep

\* What leaves the routes, the ships and the end of d alone, and its screen
\* away from or at its user, keeps RoutesFollow.
LEMMA RoutesFrame ==
    ASSUME NEW d \in Conns, RoutesFollow(d), ShipsOf(d)' = ShipsOf(d),
           connUserMap_'[d] = connUserMap_[d], closingName'[d] = closingName[d],
           connState'[d] = connState[d],
           \A u \in Users : userConnMap_'[u] = d => userConnMap_[u] = d,
           \/ client'[d] = client[d]
           \/ connState[d] # "up"
           \/ client[d].screen # "user" /\ client'[d].screen # "user"
    PROVE  RoutesFollow(d)'
BY DEF RoutesFollow

\* Histories grow, so what is clean has been clean.
LEMMA CleanBefore ==
    ASSUME TypeOK, [Next]_vars, NEW d \in Conns, Clean(d)'
    PROVE  Clean(d)
<1>1. overlapped \subseteq overlapped' /\ late \subseteq late'
  <2>1. ASSUME NEW c \in Conns, ClientStep(c)
        PROVE  overlapped \subseteq overlapped' /\ late \subseteq late'
    BY <2>1, ClientStepFrame DEF Sends
  <2>2. ASSUME NEW t \in tasks, TaskStep(t)
        PROVE  overlapped \subseteq overlapped' /\ late \subseteq late'
    BY <2>2, TaskStepFrame
  <2> QED
    BY <2>1, <2>2 DEF Next, onConnection, Close, CloseStep, CloseGetName, CloseHset,
       CloseRemove, Restart, vars, history
<1> QED
  BY <1>1 DEF Clean, Orderly

\* A ship of a clean connection is its only one.
LEMMA ShipMoves ==
    ASSUME TypeOK, NEW t \in tasks, t.op \in Ships, RoutesFollow(t.conn), t.conn \in Conns
    PROVE  /\ ShipsOf(t.conn) = {t}
           /\ Finish(t) => ShipsOf(t.conn)' = {}
           /\ \A step \in Steps : Advance(t, step) =>
                 ShipsOf(t.conn)' = {[t EXCEPT !.step = step]}
<1>1. ShipsOf(t.conn) = {t}
  BY DEF RoutesFollow, ShipsOf
<1>2. Finish(t) => ShipsOf(t.conn)' = {}
  BY <1>1 DEF Finish, ShipsOf
<1>3. ASSUME NEW step \in Steps, Advance(t, step)
      PROVE  ShipsOf(t.conn)' = {[t EXCEPT !.step = step]}
  <2> DEFINE r == [t EXCEPT !.step = step]
  <2>1. r.conn = t.conn /\ r.op = t.op
    BY DEF TypeOK, Task
  <2>2. tasks' = (tasks \ {t}) \cup {r}
    BY <1>3 DEF Advance
  <2> HIDE DEF r
  <2>3. ShipsOf(t.conn)' = {r}
    BY <1>1, <2>1, <2>2 DEF ShipsOf
  <2> QED BY <2>3 DEF r
<1> QED BY <1>1, <1>2, <1>3

\* A task that is no ship moves no ship.
LEMMA OtherTaskMoves ==
    ASSUME TypeOK, NEW t \in tasks, t.op \notin Ships, NEW d \in Conns,
           Finish(t) \/ \E step \in Steps : Advance(t, step)
    PROVE  ShipsOf(d)' = ShipsOf(d)
<1>1. CASE Finish(t)
  BY <1>1 DEF Finish, ShipsOf
<1>2. ASSUME NEW step \in Steps, Advance(t, step) PROVE ShipsOf(d)' = ShipsOf(d)
  <2> DEFINE r == [t EXCEPT !.step = step]
  <2>1. r.conn = t.conn /\ r.op = t.op
    BY DEF TypeOK, Task
  <2>2. tasks' = (tasks \ {t}) \cup {r}
    BY <1>2 DEF Advance
  <2> HIDE DEF r
  <2> QED BY <2>1, <2>2 DEF ShipsOf
<1> QED BY <1>1, <1>2
\* Every step keeps CleanInv.
LEMMA CleanStep ==
    ASSUME TypeOK, AnswerInv, CleanInv, [Next]_vars
    PROVE  CleanInv'
<1> SUFFICES ASSUME NEW d \in Conns, Clean(d)' PROVE RoutesFollow(d)'
  BY DEF CleanInv
<1>0. Clean(d) /\ RoutesFollow(d)
  BY CleanBefore DEF CleanInv
<1>1. ASSUME NEW c \in Conns, onConnection(c) PROVE RoutesFollow(d)'
  <2>1. CASE c = d
    BY <1>0, <1>1, <2>1 DEF onConnection, RoutesFollow, ShipsOf, server, TypeOK, AnswerInv,
       TasksOf
  <2>2. CASE c # d
    BY <1>0, <1>1, <2>2, RoutesFrame DEF onConnection, ShipsOf, server, TypeOK
  <2> QED BY <2>1, <2>2
<1>2. ASSUME NEW c \in Conns, ClientStep(c) PROVE RoutesFollow(d)'
  <2>1. PICK u \in Users :
             \/ ClientRegister(c, u)
             \/ \E right \in BOOLEAN : ClientLogin(c, u, right)
             \/ ClientOnline(c, u) \/ ClientLogout(c, u) \/ ClientDelete(c, u)
    BY <1>2 DEF ClientStep
  <2>2. CASE c # d
    <3>1. PICK u1 \in Users, op \in Ops, right \in BOOLEAN, screen \in Screens,
               v \in Users \cup {NoUser} : Sends(c, u1, op, right, screen, v)
      BY <1>2, ClientStepFrame
    <3>2. ShipsOf(d)' = ShipsOf(d)
      BY <2>2, <3>1 DEF Sends, SendTask, ShipsOf
    <3> QED
      BY <1>0, <2>2, <3>1, <3>2, RoutesFrame DEF Sends, server, TypeOK
  <2>3. ASSUME c = d, NEW right \in BOOLEAN,
               ClientRegister(c, u) \/ ClientLogin(c, u, right)
        PROVE  RoutesFollow(d)'
    <3>1. ShipsOf(d)' = ShipsOf(d)
      BY <2>3 DEF ClientRegister, ClientLogin, SendTask, ShipsOf, Ships
    <3>2. client[d].screen = "menu" /\ client'[d].screen = "wait"
      <4>1. /\ Shows(c, "menu", NoUser)
            /\ client' = [client EXCEPT ![c] = [screen |-> "wait", user |-> u]]
        BY <2>3 DEF ClientRegister, ClientLogin
      <4> QED BY <2>3, <4>1 DEF Shows, TypeOK
    <3>3. PICK u1 \in Users, op \in Ops, right1 \in BOOLEAN, screen \in Screens,
               v \in Users \cup {NoUser} : Sends(c, u1, op, right1, screen, v)
      BY <1>2, ClientStepFrame
    <3>4. UNCHANGED <<userConnMap_, connUserMap_, connState, closingName>>
      BY <3>3 DEF Sends, server
    <3> QED
      BY <1>0, <3>1, <3>2, <3>4, RoutesFrame
  <2>4. CASE c = d /\ ClientOnline(c, u)
    <3> DEFINE new == [conn |-> c, id |-> sent[c], op |-> "online", user |-> u,
                       right |-> TRUE, step |-> "start"]
    <3>1. ShipsOf(d) = {}
      BY <2>4 DEF ClientOnline, NoteOverlap, Clean, Orderly, Ops
    <3>2. new.conn = c /\ new.op = "online" /\ new.user = u /\ tasks' = tasks \cup {new}
      BY <2>4 DEF ClientOnline, SendTask
    <3> HIDE DEF new
    <3>3. ShipsOf(d)' = {new}
      BY <2>4, <3>1, <3>2 DEF ShipsOf, Ships
    <3>4. client[d].screen = "granted" /\ client'[d] = [screen |-> "user", user |-> u]
      BY <2>4 DEF ClientOnline, Shows, TypeOK
    <3>5. connState[d] = "up" /\ UNCHANGED <<userConnMap_, connUserMap_, connState>>
      BY <2>4 DEF ClientOnline, SendTask, server
    <3>6. connUserMap_[d] = NoUser
      BY <1>0, <3>1, <3>4, <3>5 DEF RoutesFollow
    <3>7. client'[d].screen = "user" /\ client'[d].user = u
      BY <3>4
    <3> QED
      BY <1>0, <3>2, <3>3, <3>5, <3>6, <3>7 DEF RoutesFollow
  <2>5. CASE c = d /\ ClientLogout(c, u)
    <3> DEFINE new == [conn |-> c, id |-> sent[c], op |-> "offline", user |-> u,
                       right |-> TRUE, step |-> "start"]
    <3>1. ShipsOf(d) = {}
      BY <2>5 DEF ClientLogout, NoteOverlap, Clean, Orderly, Ops
    <3>2. new.conn = c /\ new.op = "offline" /\ new.user = u /\ tasks' = tasks \cup {new}
      BY <2>5 DEF ClientLogout, SendTask
    <3> HIDE DEF new
    <3>3. ShipsOf(d)' = {new}
      BY <2>5, <3>1, <3>2 DEF ShipsOf, Ships
    <3>4. client[d] = [screen |-> "user", user |-> u] /\ client'[d].screen = "menu"
      BY <2>5 DEF ClientLogout, Shows, TypeOK
    <3>5. connState[d] = "up" /\ UNCHANGED <<userConnMap_, connUserMap_, connState>>
      BY <2>5 DEF ClientLogout, SendTask, server
    <3> QED BY <1>0, <3>1, <3>2, <3>3, <3>4, <3>5 DEF RoutesFollow
  <2>6. CASE c = d /\ ClientDelete(c, u)
    BY <2>6 DEF ClientDelete, Clean, Orderly, Ops
  <2> QED BY <2>1, <2>2, <2>3, <2>4, <2>5, <2>6
<1>3. ASSUME NEW c \in Conns, Close(c) PROVE RoutesFollow(d)'
  <2>1. CASE c = d
    BY <1>0, <1>3, <2>1 DEF Close, RoutesFollow, ShipsOf, server, TypeOK
  <2>2. CASE c # d
    BY <1>0, <1>3, <2>2, RoutesFrame DEF Close, ShipsOf, server, TypeOK
  <2> QED BY <2>1, <2>2
<1>4. ASSUME NEW t \in tasks, TaskStep(t) PROVE RoutesFollow(d)'
  <2>1. /\ t.conn \in Conns /\ t.user \in Users
        /\ UNCHANGED <<connState, closingName>>
        /\ \/ UNCHANGED client
           \/ t \in Answering(t.conn) /\ Reply(t.conn, "menu", NoUser)
           \/ t \in Answering(t.conn) /\ Reply(t.conn, "granted", t.user)
        /\ Finish(t) \/ \E step \in Steps : Advance(t, step)
    BY <1>4, TaskStepFrame DEF Steps
  <2>2. \/ client'[d] = client[d]
        \/ connState[d] # "up"
        \/ client[d].screen # "user" /\ client'[d].screen # "user"
    <3>1. CASE UNCHANGED client
      BY <3>1
    <3>2. ASSUME NEW screen \in {"menu", "granted"}, NEW v, t \in Answering(t.conn),
                 Reply(t.conn, screen, v)
          PROVE  \/ client'[d] = client[d]
                 \/ connState[d] # "up"
                 \/ client[d].screen # "user" /\ client'[d].screen # "user"
      BY <2>1, <3>2 DEF AnswerInv, Reply, TypeOK
    <3> QED BY <2>1, <3>1, <3>2
  <2>3. CASE UNCHANGED <<userConnMap_, connUserMap_>> /\ ShipsOf(d)' = ShipsOf(d)
    BY <1>0, <2>1, <2>2, <2>3, RoutesFrame
  <2>4. CASE t.op \notin Ships
    <3>1. ShipsOf(d)' = ShipsOf(d)
      BY <2>1, <2>4, OtherTaskMoves
    <3>2. UNCHANGED <<userConnMap_, connUserMap_>>
      BY <1>4, <2>4 DEF TaskStep, RegisterCheck, RegisterWrite, RegisterReply, RegisterSelf,
         LoginCheck, LoginPassword, LoginState, ShipState, ShipOnline, ShipOffline, DeleteHash,
         DeleteFriends, DeleteReply, AtStep, Ships, server
    <3> QED BY <2>3, <3>1, <3>2
  <2>5. CASE t.op \in Ships /\ t.conn # d
    <3>1. ShipsOf(d)' = ShipsOf(d)
      BY <2>1, <2>5, OthersTasks
    <3>2. \/ UNCHANGED <<userConnMap_, connUserMap_>>
          \/ addUserConn(t.user, t.conn)
          \/ removeUserConn(t.user, t.conn)
      BY <1>4, <2>5 DEF TaskStep, RegisterCheck, RegisterWrite, RegisterReply, RegisterSelf,
         LoginCheck, LoginPassword, LoginState, ShipState, ShipOnline, ShipOffline, DeleteHash,
         DeleteFriends, DeleteReply, AtStep, Ships, server
    <3>3. connUserMap_'[d] = connUserMap_[d]
      BY <2>1, <2>5, <3>2 DEF addUserConn, removeUserConn, TypeOK
    <3>4. \A u \in Users : userConnMap_'[u] = d => userConnMap_[u] = d
      BY <2>1, <2>5, <3>2, ConstantsAssumption DEF addUserConn, removeUserConn, TypeOK
    <3> QED BY <1>0, <2>1, <2>2, <3>1, <3>3, <3>4, RoutesFrame
  <2>6. CASE t.op \in Ships /\ t.conn = d
    <3>1. /\ ShipsOf(d) = {t}
          /\ Finish(t) => ShipsOf(d)' = {}
          /\ \A step \in Steps : Advance(t, step) =>
                ShipsOf(d)' = {[t EXCEPT !.step = step]}
      BY <1>0, <2>6, ShipMoves
    <3>2. CASE ShipState(t)
      <4> DEFINE r == [t EXCEPT !.step = "write"]
      <4>1. ShipsOf(d)' = {r}
        BY <3>1, <3>2 DEF ShipState, Steps
      <4>2. r.op = t.op /\ r.user = t.user
        BY DEF TypeOK, Task
      <4> HIDE DEF r
      <4> QED BY <1>0, <3>1, <3>2, <4>1, <4>2 DEF ShipState, server, RoutesFollow
    <3>3. CASE ShipOnline(t)
      <4>1. ShipsOf(d)' = {} /\ t.op = "online"
        BY <3>1, <3>3 DEF ShipOnline, AtStep
      <4>2. connUserMap_[d] = NoUser /\ connState[d] \in {"up", "getName"}
        BY <1>0, <3>1, <4>1 DEF RoutesFollow
      <4>3. \A u \in Users : userConnMap_[u] # d
        BY <1>0, <4>2, ConstantsAssumption DEF RoutesFollow
      <4>4. connUserMap_'[d] = t.user
        BY <2>6, <3>3 DEF ShipOnline, addUserConn, TypeOK
      <4>5. \A u \in Users : userConnMap_'[u] = d => u = t.user
        BY <3>3, <4>3 DEF ShipOnline, addUserConn, TypeOK
      <4>6. UNCHANGED <<client, connState, closingName>>
        BY <3>3 DEF ShipOnline
      <4>7. connState[d] = "up" => client[d].screen = "user" /\ client[d].user = t.user
        BY <1>0, <3>1, <4>1 DEF RoutesFollow
      <4> QED
        BY <4>1, <4>2, <4>4, <4>5, <4>6, <4>7 DEF RoutesFollow
    <3>4. CASE ShipOffline(t)
      <4>1. ShipsOf(d)' = {} /\ t.op = "offline"
        BY <3>1, <3>4 DEF ShipOffline, AtStep
      <4>2. connUserMap_[d] = t.user /\ connState[d] \in {"up", "getName"}
        BY <1>0, <3>1, <4>1 DEF RoutesFollow
      <4>3. connUserMap_'[d] = NoUser
        BY <2>6, <3>4 DEF ShipOffline, removeUserConn, TypeOK
      <4>4. \A u \in Users : userConnMap_'[u] # d
        BY <1>0, <2>1, <3>4, <4>2, ConstantsAssumption
           DEF ShipOffline, removeUserConn, TypeOK, RoutesFollow
      <4>5. UNCHANGED <<client, connState, closingName>>
        BY <3>4 DEF ShipOffline
      <4>6. connState[d] = "up" => client[d].screen # "user"
        BY <1>0, <3>1, <4>1 DEF RoutesFollow
      <4> QED
        BY <4>1, <4>2, <4>3, <4>4, <4>5, <4>6 DEF RoutesFollow
    <3> QED
      BY <1>4, <2>6, <3>2, <3>3, <3>4 DEF TaskStep, RegisterCheck, RegisterWrite,
         RegisterReply, RegisterSelf, LoginCheck, LoginPassword, LoginState, DeleteHash, DeleteFriends,
         DeleteReply, AtStep, Ships
  <2> QED BY <2>4, <2>5, <2>6
<1>5. ASSUME NEW c \in Conns, CloseGetName(c) PROVE RoutesFollow(d)'
  <2>1. CASE c = d
    <3>1. ShipsOf(d) = {} /\ ShipsOf(d)' = {}
      BY <1>5, <2>1 DEF CloseGetName, Clean, ShipsOf
    <3>2. connUserMap_[d] \in Users \cup {NoUser}
      BY DEF TypeOK
    <3> QED
      BY <1>0, <1>5, <2>1, <3>1, <3>2 DEF CloseGetName, RoutesFollow, server, TypeOK
  <2>2. CASE c # d
    BY <1>0, <1>5, <2>2, RoutesFrame DEF CloseGetName, ShipsOf, server, TypeOK
  <2> QED BY <2>1, <2>2
<1>6. ASSUME NEW c \in Conns, CloseHset(c) PROVE RoutesFollow(d)'
  <2>1. CASE c = d
    BY <1>0, <1>6, <2>1 DEF CloseHset, RoutesFollow, ShipsOf, server, TypeOK
  <2>2. CASE c # d
    BY <1>0, <1>6, <2>2, RoutesFrame DEF CloseHset, ShipsOf, server, TypeOK
  <2> QED BY <2>1, <2>2
<1>7. ASSUME NEW c \in Conns, CloseRemove(c) PROVE RoutesFollow(d)'
  <2>1. \A u \in Users : userConnMap_'[u] = d => userConnMap_[u] = d
    BY <1>7, ConstantsAssumption DEF CloseRemove, removeUserConn, TypeOK
  <2>2. CASE c = d
    <3>1. ShipsOf(d) = {} /\ ShipsOf(d)' = {}
      BY <1>0, <1>7, <2>2 DEF CloseRemove, RoutesFollow, ShipsOf
    <3>2. closingName[d] = connUserMap_[d] /\ closingName[d] \in Users
      BY <1>0, <1>7, <2>2 DEF CloseRemove, RoutesFollow
    <3>3. connUserMap_'[d] = NoUser /\ connState'[d] = "down"
      BY <1>7, <2>2 DEF CloseRemove, removeUserConn, TypeOK
    <3>4. \A u \in Users : userConnMap_'[u] # d
      BY <1>0, <1>7, <2>1, <2>2, <3>2, ConstantsAssumption
         DEF CloseRemove, removeUserConn, TypeOK, RoutesFollow
    <3> QED BY <3>1, <3>3, <3>4 DEF RoutesFollow
  <2>3. CASE c # d
    BY <1>0, <1>7, <2>1, <2>3, RoutesFrame DEF CloseRemove, removeUserConn, ShipsOf, TypeOK
  <2> QED BY <2>2, <2>3
<1>8. CASE Restart
  BY <1>8, ConstantsAssumption DEF Restart, Clean, RoutesFollow, ShipsOf
<1>9. CASE UNCHANGED vars
  BY <1>0, <1>9, RoutesFrame DEF vars, server, ShipsOf
<1> QED
  BY <1>1, <1>2, <1>3, <1>4, <1>5, <1>6, <1>7, <1>8, <1>9 DEF Next, CloseStep

----------------------------------------------------------------------------
\* What leaves mystate, the routes and the written ships alone keeps
\* StateFollows.
LEMMA StatusFrame ==
    ASSUME NEW d \in Conns, NEW u \in Users, StateFollows(d, u),
           account'[u].mystate = account[u].mystate,
           Written(d, u)' = Written(d, u),
           connUserMap_'[d] = connUserMap_[d],
           userConnMap_'[u] = userConnMap_[u],
           connState'[d] = "remove" <=> connState[d] = "remove"
    PROVE  StateFollows(d, u)'
BY DEF StateFollows

\* Every step keeps StatusInv: whoever else moves, only d's own ships and d's
\* own end write the mystate and the routes of a user that d alone logs in.
LEMMA StatusStep ==
    ASSUME TypeOK, ProvedInv, AnswerInv, ClosingProved, CleanInv, StatusInv,
           [Next]_vars
    PROVE  StatusInv'
<1> SUFFICES ASSUME NEW d \in Conns, NEW u \in Users, Clean(d)', OnlyClientOf(d, u)'
             PROVE  StateFollows(d, u)'
  BY DEF StatusInv
<1>a. Clean(d) /\ RoutesFollow(d) /\ Orderly(d)
  BY CleanBefore DEF CleanInv, Clean
<1>b. OnlyClientOf(d, u)
  <2>1. ASSUME NEW c \in Conns, ClientStep(c)
        PROVE  proved \subseteq proved' /\ guessed \subseteq guessed'
    BY <2>1, ClientStepFrame DEF Sends
  <2>2. ASSUME NEW t \in tasks, TaskStep(t)
        PROVE  proved \subseteq proved' /\ guessed \subseteq guessed'
    BY <2>2, TaskStepFrame
  <2>3. proved \subseteq proved' /\ guessed \subseteq guessed'
    BY <2>1, <2>2 DEF Next, onConnection, Close, CloseStep, CloseGetName, CloseHset,
       CloseRemove, Restart, vars, history
  <2> QED BY <2>3 DEF OnlyClientOf
<1>c. StateFollows(d, u)
  BY <1>a, <1>b DEF StatusInv
<1>d. \A c \in Conns : c # d => closingName[c] # u
  BY <1>b DEF ClosingProved, OnlyClientOf
<1>1. ASSUME NEW c \in Conns, onConnection(c) PROVE StateFollows(d, u)'
  <2>1. connState'[d] = "remove" <=> connState[d] = "remove"
    BY <1>1 DEF onConnection, TypeOK
  <2> QED
    BY <1>1, <1>c, <2>1, StatusFrame DEF onConnection, Written, ShipsOf, server
<1>2. ASSUME NEW c \in Conns, ClientStep(c) PROVE StateFollows(d, u)'
  <2>1. PICK u1 \in Users, op \in Ops, right \in BOOLEAN, screen \in Screens,
             v \in Users \cup {NoUser} : Sends(c, u1, op, right, screen, v)
    BY <1>2, ClientStepFrame
  <2> DEFINE new == [conn |-> c, id |-> sent[c], op |-> op, user |-> u1,
                     right |-> right, step |-> "start"]
  <2>2. new.step = "start" /\ tasks' = tasks \cup {new}
    BY <2>1 DEF Sends, SendTask
  <2> HIDE DEF new
  <2>3. Written(d, u)' = Written(d, u)
    BY <2>2 DEF Written, ShipsOf
  <2>4. UNCHANGED <<account, connUserMap_, userConnMap_, connState>>
    BY <2>1 DEF Sends, server
  <2> QED BY <1>c, <2>3, <2>4, StatusFrame
<1>3. ASSUME NEW c \in Conns, Close(c) PROVE StateFollows(d, u)'
  <2>1. connState'[d] = "remove" <=> connState[d] = "remove"
    BY <1>3 DEF Close, TypeOK
  <2> QED
    BY <1>3, <1>c, <2>1, StatusFrame DEF Close, Written, ShipsOf, server
<1>5. ASSUME NEW c \in Conns, CloseGetName(c) PROVE StateFollows(d, u)'
  <2>1. connState'[d] = "remove" <=> connState[d] = "remove"
    BY <1>5 DEF CloseGetName, TypeOK
  <2> QED
    BY <1>5, <1>c, <2>1, StatusFrame DEF CloseGetName, Written, ShipsOf, server
<1>6. ASSUME NEW c \in Conns, CloseHset(c) PROVE StateFollows(d, u)'
  <2>1. UNCHANGED <<connUserMap_, userConnMap_, tasks>>
    BY <1>6 DEF CloseHset, server
  <2>2. Written(d, u)' = Written(d, u)
    BY <2>1 DEF Written, ShipsOf
  <2>3. CASE c = d
    <3>1. Written(d, u) = {}
      BY <1>6, <1>a, <2>3 DEF CloseHset, RoutesFollow, Written
    <3>2. closingName[d] = connUserMap_[d] /\ closingName[d] \in Users
      BY <1>6, <1>a, <2>3 DEF CloseHset, RoutesFollow
    <3>3. connState[d] = "hset" /\ connState'[d] = "remove"
      BY <1>6, <2>3 DEF CloseHset, TypeOK
    <3>4. account'[u].mystate = IF closingName[d] = u THEN "offline"
                                ELSE account[u].mystate
      BY <1>6, <2>3, <3>2 DEF CloseHset, TypeOK
    <3> QED
      BY <1>c, <2>1, <2>2, <3>1, <3>2, <3>3, <3>4 DEF StateFollows
  <2>4. CASE c # d
    <3>1. account'[u] = account[u] /\ connState'[d] = connState[d]
      BY <1>6, <1>d, <2>4 DEF CloseHset, TypeOK
    <3> QED BY <1>c, <2>1, <2>2, <3>1, StatusFrame
  <2> QED BY <2>3, <2>4
<1>7. ASSUME NEW c \in Conns, CloseRemove(c) PROVE StateFollows(d, u)'
  <2>1. UNCHANGED <<account, tasks>>
    BY <1>7 DEF CloseRemove
  <2>2. Written(d, u)' = Written(d, u)
    BY <2>1 DEF Written, ShipsOf
  <2>3. CASE c = d
    <3>1. Written(d, u) = {}
      BY <1>7, <1>a, <2>3 DEF CloseRemove, RoutesFollow, Written
    <3>2. connState[d] = "remove" /\ connUserMap_'[d] = NoUser
      BY <1>7, <2>3 DEF CloseRemove, removeUserConn, TypeOK
    <3> QED
      BY <1>c, <2>1, <2>2, <3>1, <3>2, ConstantsAssumption DEF StateFollows
  <2>4. CASE c # d
    <3>1. connUserMap_'[d] = connUserMap_[d] /\ connState'[d] = connState[d]
          /\ userConnMap_'[u] = userConnMap_[u]
      BY <1>7, <1>d, <2>4 DEF CloseRemove, removeUserConn, TypeOK
    <3> QED BY <1>c, <2>1, <2>2, <3>1, StatusFrame
  <2> QED BY <2>3, <2>4
<1>8. CASE Restart
  <2>1. connState[d] = "new"
    BY <1>8 DEF Restart, Clean
  <2>2. Written(d, u) = {} /\ connUserMap_[d] = NoUser
    BY <1>a, <2>1 DEF RoutesFollow, Written
  <2>3. Written(d, u)' = {} /\ connUserMap_'[d] = NoUser /\ account' = account
    BY <1>8 DEF Restart, Written, ShipsOf
  <2> QED BY <1>c, <2>2, <2>3, ConstantsAssumption DEF StateFollows
<1>9. CASE UNCHANGED vars
  BY <1>9, <1>c, StatusFrame DEF vars, Written, ShipsOf
<1>4. ASSUME NEW t \in tasks, TaskStep(t) PROVE StateFollows(d, u)'
  <2>1. /\ t.conn \in Conns /\ t.user \in Users /\ connState' = connState
        /\ Finish(t) \/ \E step \in Steps : Advance(t, step)
    BY <1>4, TaskStepFrame DEF Steps
  <2>2. CASE t.op \notin Ships
    <3>1. Written(d, u)' = Written(d, u)
      BY <2>1, <2>2, OtherTaskMoves DEF Written
    <3>2. UNCHANGED <<userConnMap_, connUserMap_>>
      BY <1>4, <2>2 DEF TaskStep, RegisterCheck, RegisterWrite, RegisterReply, RegisterSelf,
         LoginCheck, LoginPassword, LoginState, ShipState, ShipOnline, ShipOffline, DeleteHash,
         DeleteFriends, DeleteReply, AtStep, Ships, server
    <3>3. account'[u].mystate = account[u].mystate
      <4>1. CASE UNCHANGED account
        BY <4>1
      <4>2. CASE RegisterWrite(t) \/ RegisterSelf(t) \/ DeleteFriends(t)
        <5>1. CASE RegisterWrite(t)
          BY <2>1, <5>1 DEF RegisterWrite, TypeOK
        <5>2. CASE RegisterSelf(t)
          BY <2>1, <5>2 DEF RegisterSelf, TypeOK
        <5>3. CASE DeleteFriends(t)
          BY <2>1, <5>3 DEF DeleteFriends, TypeOK
        <5> QED BY <4>2, <5>1, <5>2, <5>3
      <4>3. CASE DeleteHash(t)
        <5>1. t.user # u
          BY <1>a, <1>b, <2>1, <4>3 DEF DeleteHash, AtStep, ClosingProved, OnlyClientOf,
             Orderly, Ops
        <5> DEFINE half == [account EXCEPT ![t.user].password = FALSE]
        <5>2. account' = [half EXCEPT ![t.user].mystate = "null"]
          BY <4>3 DEF DeleteHash
        <5>3. half[u] = account[u] /\ DOMAIN half = Users
          BY <5>1 DEF TypeOK
        <5> HIDE DEF half
        <5> QED BY <5>1, <5>2, <5>3
      <4> QED
        BY <1>4, <2>2, <4>1, <4>2, <4>3 DEF TaskStep, RegisterCheck, RegisterReply,
           LoginCheck, LoginPassword, LoginState, ShipState, ShipOnline, ShipOffline, DeleteReply,
           AtStep, Ships
    <3> QED BY <1>c, <2>1, <3>1, <3>2, <3>3, StatusFrame
  <2>3. CASE t.op \in Ships /\ t.conn # d
    <3>1. Written(d, u)' = Written(d, u)
      BY <2>1, <2>3, OthersTasks DEF Written
    <3>2. t.user # u
      <4>1. Admitted(t.conn, t.user)
        BY <2>3 DEF ProvedInv, TasksAreProved, Shown
      <4> QED BY <1>b, <2>1, <2>3, <4>1 DEF Admitted, Entitled, OnlyClientOf
    <3>3. CASE ShipState(t)
      BY <1>c, <2>1, <3>1, <3>2, <3>3, StatusFrame DEF ShipState, server, TypeOK
    <3>4. CASE ShipOnline(t)
      BY <1>c, <2>1, <2>3, <3>1, <3>2, <3>4, StatusFrame DEF ShipOnline, addUserConn, TypeOK
    <3>5. CASE ShipOffline(t)
      BY <1>c, <2>1, <2>3, <3>1, <3>2, <3>5, StatusFrame
         DEF ShipOffline, removeUserConn, TypeOK
    <3> QED
      BY <1>4, <2>3, <3>3, <3>4, <3>5 DEF TaskStep, RegisterCheck, RegisterWrite,
         RegisterReply, RegisterSelf, LoginCheck, LoginPassword, LoginState, DeleteHash, DeleteFriends,
         DeleteReply, AtStep, Ships
  <2>4. CASE t.op \in Ships /\ t.conn = d
    <3>1. /\ ShipsOf(d) = {t}
          /\ Finish(t) => ShipsOf(d)' = {}
          /\ \A step \in Steps : Advance(t, step) =>
                ShipsOf(d)' = {[t EXCEPT !.step = step]}
      BY <1>a, <2>4, ShipMoves
    <3>2. CASE ShipState(t)
      <4> DEFINE r == [t EXCEPT !.step = "write"]
      <4>1. ShipsOf(d)' = {r}
        BY <3>1, <3>2 DEF ShipState, Steps
      <4>2. r.op = t.op /\ r.user = t.user /\ r.step = "write"
        BY DEF TypeOK, Task
      <4> HIDE DEF r
      <4>3. Written(d, u) = {}
        BY <3>1, <3>2 DEF ShipState, Written
      <4>4. Written(d, u)' = IF t.user = u THEN {r} ELSE {}
        BY <4>1, <4>2 DEF Written
      <4>5. account'[u].mystate = IF t.user = u THEN t.op ELSE account[u].mystate
        BY <2>1, <3>2 DEF ShipState, TypeOK
      <4>6. UNCHANGED <<userConnMap_, connUserMap_>>
        BY <3>2 DEF ShipState, server
      <4> QED
        BY <1>c, <2>1, <4>2, <4>3, <4>4, <4>5, <4>6 DEF StateFollows
    <3>3. CASE ShipOnline(t)
      <4>1. t.op = "online" /\ t.step = "write" /\ Written(d, u)' = {}
        BY <3>1, <3>3 DEF ShipOnline, AtStep, Written
      <4>2. Written(d, u) = IF t.user = u THEN {t} ELSE {}
        BY <3>1, <4>1 DEF Written
      <4>3. connUserMap_[d] = NoUser /\ connState[d] \in {"up", "getName"}
        BY <1>a, <3>1, <4>1 DEF RoutesFollow
      <4>4. connUserMap_'[d] = t.user /\ userConnMap_'[t.user] = d /\ account' = account
        BY <2>1, <2>4, <3>3 DEF ShipOnline, addUserConn, TypeOK
      <4> QED
        BY <1>c, <2>1, <4>1, <4>2, <4>3, <4>4, ConstantsAssumption DEF StateFollows
    <3>4. CASE ShipOffline(t)
      <4>1. t.op = "offline" /\ t.step = "write" /\ Written(d, u)' = {}
        BY <3>1, <3>4 DEF ShipOffline, AtStep, Written
      <4>2. Written(d, u) = IF t.user = u THEN {t} ELSE {}
        BY <3>1, <4>1 DEF Written
      <4>3. connUserMap_[d] = t.user
        BY <1>a, <3>1, <4>1 DEF RoutesFollow
      <4>4. connUserMap_'[d] = NoUser /\ account' = account
        BY <2>1, <2>4, <3>4 DEF ShipOffline, removeUserConn, TypeOK
      <4> QED
        BY <1>c, <4>1, <4>2, <4>3, <4>4, ConstantsAssumption DEF StateFollows
    <3> QED
      BY <1>4, <2>4, <3>2, <3>3, <3>4 DEF TaskStep, RegisterCheck, RegisterWrite,
         RegisterReply, RegisterSelf, LoginCheck, LoginPassword, LoginState, DeleteHash, DeleteFriends,
         DeleteReply, AtStep, Ships
  <2> QED BY <2>2, <2>3, <2>4
<1> QED
  BY <1>1, <1>2, <1>3, <1>4, <1>5, <1>6, <1>7, <1>8, <1>9 DEF Next, CloseStep

\* The answers, the evidence of closing, the routes and mystate of clean
\* connections, in every state.
LEMMA FollowAlways ==
    Spec => [](TypeOK /\ AnswerInv /\ ClosingProved /\ CleanInv /\ StatusInv)
<1>1. Init => AnswerInv /\ ClosingProved /\ CleanInv /\ StatusInv
  BY ConstantsAssumption DEF Init, AnswerInv, Answering, TasksOf, ClosingProved, CleanInv,
     RoutesFollow, ShipsOf, StatusInv, StateFollows, Written
<1>2. TypeOK /\ ProvedInv /\ AnswerInv /\ ClosingProved /\ CleanInv /\ StatusInv
         /\ [Next]_vars
      => (AnswerInv /\ ClosingProved /\ CleanInv /\ StatusInv)'
  BY AnswerStep, ClosingStep, CleanStep, StatusStep
<1> QED BY <1>1, <1>2, TypeCorrect, ProvedAlways, PTL DEF Spec

\* The disconnect callback leaves no route to a connection that is gone, unless
\* one of the three races of DeadRoutesNeedARace happened: there is no fourth.
THEOREM DeadRoutesRace == Spec => []DeadRoutesNeedARace
<1>1. CleanInv => DeadRoutesNeedARace
  BY ConstantsAssumption DEF CleanInv, Clean, RoutesFollow, DeadRoutesNeedARace
<1> QED BY <1>1, FollowAlways, PTL

\* Once a lone, clean client is served, redis and the routes say what its
\* screen shows.
THEOREM StatusAgrees == Spec => []StatusMatchesScreen
<1>1. TypeOK /\ AnswerInv /\ CleanInv /\ StatusInv => StatusMatchesScreen
  <2> SUFFICES ASSUME TypeOK, AnswerInv, CleanInv, StatusInv,
                      NEW c \in Conns, NEW u \in Users,
                      OnlyClientOf(c, u), Settled(c), Clean(c)
               PROVE  /\ account[u].mystate = "online" <=> Shows(c, "user", u)
                      /\ userConnMap_[u] = c <=> Shows(c, "user", u)
    BY DEF StatusMatchesScreen, Clean
  <2>1. ShipsOf(c) = {} /\ Written(c, u) = {} /\ connState[c] \in {"new", "up", "down"}
    BY DEF Settled, TasksOf, ShipsOf, Written, Ships
  <2>2. RoutesFollow(c) /\ StateFollows(c, u)
    BY DEF CleanInv, StatusInv
  <2>3. connUserMap_[c] = u <=> client[c].screen = "user" /\ client[c].user = u
    BY <2>1, <2>2, ConstantsAssumption DEF RoutesFollow, AnswerInv
  <2>4. Shows(c, "user", u) <=> client[c].screen = "user" /\ client[c].user = u
    BY DEF Shows, TypeOK
  <2>5. userConnMap_[u] = c <=> connUserMap_[c] = u
    BY <2>2 DEF RoutesFollow, StateFollows
  <2> QED BY <2>1, <2>2, <2>3, <2>4, <2>5 DEF StateFollows
<1> QED BY <1>1, FollowAlways, PTL
=============================================================================
