--------------------------- MODULE RegistryProofs ---------------------------
(***************************************************************************)
(* Proofs about Registry, for any users and any numbers of requests,       *)
(* messages and faults.                                                    *)
(***************************************************************************)
EXTENDS Registry, TLAPS

----------------------------------------------------------------------------
(***************************************************************************)
(* Types.                                                                  *)
(***************************************************************************)
Steps == {"begin", "mine", "theirs", "look", "push", "other", "own", "lrem",
          "hist", "count1", "count2", "records", "write", "take", "reset",
          "fetch", "hdel", "ownstoi", "ownread", "reply",
          "read", "lock", "stoi", "offl", "incr"}

RequestTask == [op : {"add", "yes", "no", "delete", "black", "unblack", "chat"},
                box : Users \X Names, id : Nat, n : Nat, i : Nat, step : Steps]
MessageTask == [op : {"message"}, box : Users \X Names, id : Nat, n : Nat,
                step : Steps, friends : BOOLEAN]

Begun(t) == t.step # "begin"

TypeOK ==
    /\ frie \in [Boxes -> Nat \cup {None}]
    /\ mess \subseteq Boxes
    /\ blak \subseteq Boxes
    /\ offl \subseteq Users \X Users \X Nat
    /\ hist \subseteq Pairs
    /\ requests \in [Users -> Nat]
    /\ words \in [Users -> Nat]
    /\ faults \in Nat
    /\ screen \in [Users -> {"menu", "wait", "chat"} \X Names]
    /\ \A u \in Users : screen[u][1] = "chat" => <<u, screen[u][2]>> \in Boxes
    /\ tasks \subseteq RequestTask \cup MessageTask
    /\ \A t \in tasks : /\ t.box[1] # t.box[2]
                         /\ \/ t.box[2] \in Users
                            \/ t.op = "add" /\ t.step = "begin"


\* The two boxes of a pair.
LEMMA TwoBoxes ==
    ASSUME NEW b \in Boxes
    PROVE  /\ Swap(b) \in Boxes /\ Swap(Swap(b)) = b /\ Swap(b) # b
           /\ PairOf(Swap(b)) = PairOf(b) /\ PairOf(b) \in Pairs
           /\ \A c \in Boxes : PairOf(c) = PairOf(b) <=> c = b \/ c = Swap(b)
<1>1. /\ b = <<b[1], b[2]>> /\ b[1] \in Users /\ b[2] \in Users /\ b[1] # b[2]
  BY DEF Boxes
<1>2. Swap(b) \in Boxes /\ Swap(Swap(b)) = b /\ Swap(b) # b
  BY <1>1 DEF Boxes, Swap
<1>3. PairOf(Swap(b)) = PairOf(b)
  BY DEF Swap, PairOf
<1>4. ASSUME NEW c \in Boxes, PairOf(c) = PairOf(b) PROVE c = b \/ c = Swap(b)
  <2>1. c = <<c[1], c[2]>> /\ c[1] # c[2]
    BY DEF Boxes
  <2>2. {c[1], c[2]} = {b[1], b[2]}
    BY <1>4 DEF PairOf
  <2>3. (c[1] = b[1] /\ c[2] = b[2]) \/ (c[1] = b[2] /\ c[2] = b[1])
    BY <2>1, <2>2
  <2> QED BY <1>1, <2>1, <2>3 DEF Swap
<1> QED BY <1>2, <1>3, <1>4 DEF Pairs

\* Where a task is that has begun, and which kinds there are.
LEMMA Kinds ==
    ASSUME TypeOK, NEW t \in tasks
    PROVE  /\ t.op \in {"add", "yes", "no", "delete", "black", "unblack", "chat",
                       "message"}
           /\ t.box \in Users \X Names /\ t.box[1] # t.box[2] /\ t.id \in Nat
           /\ t.n \in Nat /\ t.step \in Steps
           /\ (t.op # "add" \/ Begun(t) \/ t.box[2] \in Users) =>
                 t.box \in Boxes /\ t.box[1] \in Users /\ t.box[2] \in Users
           /\ t.op = "message" => t \in MessageTask
           /\ t.op # "message" => t \in RequestTask /\ t.i \in Nat
<1>1. t \in RequestTask \/ t \in MessageTask
  BY DEF TypeOK
<1>2. t.box \in Users \X Names /\ t.box[1] # t.box[2]
      /\ (t.box[2] \in Users \/ (t.op = "add" /\ t.step = "begin"))
  BY <1>1 DEF TypeOK, RequestTask, MessageTask
<1>3. (t.op # "add" \/ Begun(t) \/ t.box[2] \in Users) =>
          t.box \in Boxes /\ t.box[1] \in Users /\ t.box[2] \in Users
  BY <1>2 DEF Boxes, Begun
<1> QED BY <1>1, <1>2, <1>3 DEF RequestTask, MessageTask

\* r is t at another place of its handler.
Moves(t, r) ==
    /\ r \in RequestTask \cup MessageTask
    /\ r.op = t.op /\ r.box = t.box /\ r.id = t.id /\ Begun(r)

----------------------------------------------------------------------------
(***************************************************************************)
(* Who may be where at the same time.                                      *)
(***************************************************************************)
\* Operations that may not overlap: while a DELFRIEND runs; in a pair where no
\* two requests or answers have overlapped; and in one where no CHAT has
\* overlapped a message or a CHAT.
Tears(o, p) == /\ "delete" \in {o, p}
               /\ {o, p} \subseteq {"add", "yes", "delete", "chat", "message"}
Crosses(o, p) == {o, p} \subseteq {"add", "yes"}
Meets(o, p) == "chat" \in {o, p} /\ {o, p} \subseteq {"chat", "message"}

Apart(T, torn_, crossed_, met_) ==
    \A s, t \in T :
        s # t /\ Begun(s) /\ Begun(t) /\ PairOf(s.box) = PairOf(t.box) =>
            /\ Tears(s.op, t.op) => PairOf(t.box) \in torn_
            /\ Crosses(s.op, t.op) => PairOf(t.box) \in crossed_
            /\ Meets(s.op, t.op) => PairOf(t.box) \in met_

\* storeMtx is held by one storing task, from the count to the next count.
Locking ==
    /\ \A t \in tasks : t.op = "message" =>
          /\ t.id < words[t.box[2]]
          /\ t.step \in {"stoi", "offl", "incr"} => storeMtx = <<t.box[2], t.id>>
    /\ \A s, t \in tasks :
          s.op = "message" /\ t.op = "message" /\ s.box[2] = t.box[2] /\ s.id = t.id
              => s = t

\* Who asks or accepts has done so, whatever happens before he is heard.
Asking(C, T) == \A t \in T : t.op \in {"add", "yes"} => t.box \in C

----------------------------------------------------------------------------
(***************************************************************************)
(* What holds of a pair that is not torn.  F is frie, M mess, O the unread *)
(* messages, H hist, C consent and T tasks.                                *)
(***************************************************************************)
Has(F, b) == F[b] # None

\* One of the two records is written.
Halfway(t) ==
    (t.op = "add" /\ t.step = "own") \/ (t.op = "yes" /\ t.step = "other")

Mutual(F, T, b) ==
    \/ Has(F, b) <=> Has(F, Swap(b))
    \/ \E t \in T : Halfway(t) /\ PairOf(t.box) = PairOf(b)

\* What a task has found out about the two records is still so.
Held(F, t) ==
    /\ t.op = "delete" /\ Begun(t) => Has(F, t.box)
    /\ t.op = "chat" /\ Begun(t) => Has(F, t.box)
    /\ t.op = "add" /\ t.step = "own" => Has(F, Swap(t.box))
    /\ t.op = "yes" /\ t.step = "other" => Has(F, t.box)
    /\ t.op = "message" /\ t.step = "incr" => Has(F, t.box)

WholeInv(F, T, torn_) ==
    /\ \A b \in Boxes : PairOf(b) \notin torn_ => Mutual(F, T, b)
    /\ \A t \in T : PairOf(t.box) \notin torn_ => Held(F, t)

----------------------------------------------------------------------------
(***************************************************************************)
(* What holds of a pair that is neither torn nor crossed, and more of one  *)
(* that is not in E either, the pairs of which a CHAT met something.       *)
(***************************************************************************)
Accepting(t) == t.op \in {"add", "yes"} /\ t.step \in {"own", "other", "lrem"}
Fetching(t) == t.op = "chat" /\ t.step \in {"fetch", "push", "hdel"}
UnreadOf(O, b) == {o \in O : <<o[1], o[2]>> = b}

\* What is still so for a task that asks or accepts ...
Strangers(F, M, C, t) ==
    /\ t.op = "add" /\ t.step \in {"look", "push", "other"} =>
          ~Has(F, t.box) /\ ~Has(F, Swap(t.box))
    /\ t.op = "add" /\ t.step = "own" => ~Has(F, t.box)
    /\ t.op = "yes" /\ t.step = "own" => ~Has(F, t.box) /\ ~Has(F, Swap(t.box))
    /\ t.op = "yes" /\ t.step = "other" => ~Has(F, Swap(t.box))
    /\ t.op = "add" /\ t.step = "push" => t.box \notin M
    /\ Accepting(t) => Swap(t.box) \notin M /\ Swap(t.box) \in C

\* ... for one that deletes ...
Deleting(E, F, O, H, t) ==
    PairOf(t.box) \notin E /\ t.op = "delete" =>
        /\ t.step \in {"count1", "count2", "records"} => PairOf(t.box) \notin H
        /\ t.step = "count2" => t.n = F[t.box]
        /\ t.step = "records" => t.n = F[Swap(t.box)] /\ UnreadOf(O, t.box) = {}

\* ... and for one that fetches or stores messages.
Counting(E, F, O, t) ==
    PairOf(t.box) \notin E =>
        /\ t.op = "chat" =>
              /\ t.step \in {"begin", "take", "stoi", "reset"} => t.i = 0
              /\ t.step = "reset" => t.n = F[t.box]
        /\ Fetching(t) =>
              /\ F[t.box] = 0 /\ t.i < t.n
              /\ \A k \in Nat : t.i <= k /\ k < t.n =>
                    Message(t.box, k) \in UnreadOf(O, t.box)
        /\ t.op = "message" =>
              /\ t.step \in {"begin", "lock", "stoi"} => t.n = 0
              /\ t.step = "offl" => t.n = IF Has(F, t.box) THEN F[t.box] ELSE 0
              /\ t.step = "incr" =>
                    t.n = F[t.box] /\ Message(t.box, t.n) \in UnreadOf(O, t.box)

\* Between friends no request is pending but one that is being accepted, two
\* requests do not cross, and a request was made.
Requested(F, M, C, T, b) ==
    b \in M =>
        /\ Has(F, b) => \E t \in T : Accepting(t) /\ t.box = b
        /\ Swap(b) \notin M
        /\ Swap(b) \in C

Agreed(F, C, b) == Has(F, b) => b \in C /\ Swap(b) \in C

\* An unread message is counted, or about to be, or about to be fetched ...
Covers(t, b, k) ==
    /\ t.box = b
    /\ \/ t.op = "message" /\ t.step = "incr" /\ t.n = k
       \/ Fetching(t) /\ t.i <= k /\ k < t.n

Counted(F, O, T, b) ==
    \A o \in UnreadOf(O, b) :
        Has(F, b) /\ (o[3] < F[b] \/ \E t \in T : Covers(t, b, o[3]))

\* ... and what is counted is there, unless a DELFRIEND has half deleted it.
Clears(t, b) == t.op = "delete" /\ t.step = "records" /\ t.box = b
Dense(F, O, T, b) ==
    \/ Has(F, b) => \A k \in Nat : k < F[b] => Message(b, k) \in UnreadOf(O, b)
    \/ \E t \in T : Clears(t, b)

\* There is a history only between friends.
Filed(E, F, O, H, T, b) ==
    PairOf(b) \notin E =>
        /\ PairOf(b) \in H => Has(F, b) \/ Has(F, Swap(b))
        /\ Counted(F, O, T, b)
        /\ Dense(F, O, T, b)

CleanInv(F, M, O, H, C, T, torn_, crossed_, E) ==
    /\ \A b \in Boxes : PairOf(b) \notin torn_ \cup crossed_ =>
          /\ Requested(F, M, C, T, b)
          /\ Agreed(F, C, b)
          /\ Filed(E, F, O, H, T, b)
    /\ \A t \in T : PairOf(t.box) \notin torn_ \cup crossed_ =>
          /\ Strangers(F, M, C, t)
          /\ Deleting(E, F, O, H, t)
          /\ Counting(E, F, O, t)

----------------------------------------------------------------------------
(***************************************************************************)
(* What a step of a task does to the set of tasks.                         *)
(***************************************************************************)

\* t goes on at the given step with the given number.
Goes(t, step, n) ==
    \E r : /\ Moves(t, r) /\ r.step = step /\ r.n = n
           /\ tasks' = (tasks \ {t}) \cup {r}

\* t, a CHAT, goes on with the given number and index.
GoesAt(t, step, n, i) ==
    \E r : /\ Moves(t, r) /\ r.step = step /\ r.n = n /\ r.i = i
           /\ tasks' = (tasks \ {t}) \cup {r}

\* GoOn and Replace make a CHAT go on.
LEMMA ChatGoesOn ==
    ASSUME TypeOK, NEW t \in tasks, t.op = "chat", NEW step \in Steps \ {"begin"},
           NEW n \in Nat, NEW i \in Nat
    PROVE  /\ GoOn(t, step) => GoesAt(t, step, t.n, t.i)
           /\ Replace(t, [t EXCEPT !.step = step, !.n = n]) => GoesAt(t, step, n, t.i)
           /\ Replace(t, [t EXCEPT !.i = i, !.step = step]) => GoesAt(t, step, t.n, i)
           /\ Replace(t, [t EXCEPT !.n = n, !.i = i, !.step = step])
                 => GoesAt(t, step, n, i)
<1> DEFINE p == [t EXCEPT !.step = step]
           q == [t EXCEPT !.step = step, !.n = n]
           r == [t EXCEPT !.i = i, !.step = step]
           s == [t EXCEPT !.n = n, !.i = i, !.step = step]
<1>1. t \in RequestTask
  BY Kinds
<1>2. /\ Moves(t, p) /\ p.step = step /\ p.n = t.n /\ p.i = t.i
      /\ Moves(t, q) /\ q.step = step /\ q.n = n /\ q.i = t.i
  BY <1>1 DEF RequestTask, Moves, Begun
<1>3. /\ Moves(t, r) /\ r.step = step /\ r.n = t.n /\ r.i = i
      /\ Moves(t, s) /\ s.step = step /\ s.n = n /\ s.i = i
  BY <1>1 DEF RequestTask, Moves, Begun
<1>4. GoOn(t, step) => Replace(t, p)
  BY DEF GoOn, Goto
<1> HIDE DEF p, q, r, s
<1>5. /\ GoOn(t, step) => GoesAt(t, step, t.n, t.i)
      /\ Replace(t, q) => GoesAt(t, step, n, t.i)
  BY <1>2, <1>4 DEF GoesAt, Replace
<1>6. /\ Replace(t, r) => GoesAt(t, step, t.n, i)
      /\ Replace(t, s) => GoesAt(t, step, n, i)
  BY <1>3 DEF GoesAt, Replace
<1> QED BY <1>5, <1>6 DEF q, r, s

\* A CHAT that goes on is a task that goes on.
LEMMA GoesAtGoes ==
    ASSUME NEW t, NEW step, NEW n, NEW i, GoesAt(t, step, n, i)
    PROVE  Goes(t, step, n)
BY DEF GoesAt, Goes

\* GoOn and Replace make a task go on.
LEMMA GoesOn ==
    ASSUME TypeOK, NEW t \in tasks, NEW step \in Steps \ {"begin"}, NEW n \in Nat
    PROVE  /\ GoOn(t, step) => Goes(t, step, t.n)
           /\ Goto(t, step) => Goes(t, step, t.n)
           /\ Replace(t, [t EXCEPT !.step = step, !.n = n]) => Goes(t, step, n)
<1>1. ASSUME NEW r, Moves(t, r), r.step = step, r.n = n, Replace(t, r)
      PROVE  Goes(t, step, n)
  BY <1>1 DEF Goes, Replace
<1>2. ASSUME NEW r, Moves(t, r), r.step = step, r.n = t.n, Replace(t, r)
      PROVE  Goes(t, step, t.n)
  BY <1>2 DEF Goes, Replace
<1> DEFINE p == [t EXCEPT !.step = step]
           q == [t EXCEPT !.step = step, !.n = n]
<1>0. t \in RequestTask \/ t \in MessageTask
  BY DEF TypeOK
<1>3. /\ Moves(t, p) /\ p.step = step /\ p.n = t.n
      /\ Moves(t, q) /\ q.step = step /\ q.n = n
  <2>1. CASE t \in RequestTask
    BY <2>1 DEF RequestTask, Moves, Begun
  <2>2. CASE t \in MessageTask
    BY <2>2 DEF MessageTask, Moves, Begun
  <2> QED BY <1>0, <2>1, <2>2
<1>4. Goto(t, step) => Replace(t, p)
  BY DEF Goto
<1>5. GoOn(t, step) => Goto(t, step)
  BY DEF GoOn
<1> HIDE DEF p, q
<1>6. Goto(t, step) => Goes(t, step, t.n)
  BY <1>2, <1>3, <1>4
<1>7. Replace(t, q) => Goes(t, step, n)
  BY <1>1, <1>3
<1> QED BY <1>5, <1>6, <1>7 DEF q

Quiet == UNCHANGED <<frie, mess, offl, hist, consent>>

\* What each step of CHAT does.
LEMMA ChatEffects ==
    ASSUME TypeOK, NEW t \in tasks
    PROVE  /\ ChatCheck(t) =>
                 /\ t.op = "chat" /\ t.step = "begin" /\ Quiet /\ storeMtx' = storeMtx
                 /\ Done(t) \/ (IsFriend(t.box) /\ GoesAt(t, "take", t.n, t.i))
           /\ ChatTake(t) =>
                 /\ t.op = "chat" /\ Quiet /\ storeMtx' = storeMtx
                 /\ \/ t.step = "take" /\ GoesAt(t, "stoi", t.n, t.i)
                    \/ /\ t.step = "take" /\ ~IsFriend(t.box)
                       /\ GoesAt(t, "reset", t.n, t.i)
                    \/ /\ t.step = "stoi" /\ IsFriend(t.box)
                       /\ GoesAt(t, "reset", frie[t.box], t.i)
                    \/ t.step = "stoi" /\ Done(t)
           /\ ChatReset(t) =>
                 /\ t.op = "chat" /\ t.step = "reset"
                 /\ frie' = [frie EXCEPT ![t.box] = 0]
                 /\ \/ t.n = 0 /\ GoesAt(t, "own", t.n, t.i)
                    \/ t.n # 0 /\ GoesAt(t, "fetch", t.n, t.i)
                 /\ UNCHANGED <<mess, offl, hist, consent, storeMtx>>
           /\ ChatFetch(t) =>
                 /\ t.op = "chat" /\ t.step = "fetch" /\ Quiet /\ storeMtx' = storeMtx
                 /\ \/ GoesAt(t, "push", t.n, t.i)
                    \/ Message(t.box, t.i) \notin offl /\ Done(t)
           /\ ChatPush(t) =>
                 /\ t.op = "chat" /\ t.step = "push" /\ GoesAt(t, "hdel", t.n, t.i)
                 /\ hist' = hist \cup {PairOf(t.box)}
                 /\ UNCHANGED <<frie, mess, offl, consent, storeMtx>>
           /\ ChatHdel(t) =>
                 /\ t.op = "chat" /\ t.step = "hdel"
                 /\ offl' = offl \ {Message(t.box, t.i)}
                 /\ \/ t.i + 1 = t.n /\ GoesAt(t, "own", t.n, t.i + 1)
                    \/ t.i + 1 # t.n /\ GoesAt(t, "fetch", t.n, t.i + 1)
                 /\ UNCHANGED <<frie, mess, hist, consent, storeMtx>>
           /\ ChatOwn(t) \/ ChatOwnRead(t) \/ ChatReply(t) =>
                 /\ t.op = "chat" /\ t.step \in {"own", "ownstoi", "ownread", "reply"}
                 /\ Quiet /\ storeMtx' = storeMtx
                 /\ \/ Done(t)
                    \/ \E step \in {"ownstoi", "ownread", "reply"}, n \in Nat, i \in Nat :
                          GoesAt(t, step, n, i)
<1> DEFINE Later == {"take", "stoi", "reset", "fetch", "push", "hdel", "own", "ownstoi",
                     "ownread", "reply"}
<1>1. Later \subseteq Steps \ {"begin"}
  BY DEF Steps
<1>2. t.op = "chat" => t.n \in Nat /\ t.i \in Nat /\ t.i + 1 \in Nat /\ 0 \in Nat
  BY Kinds
<1>3. \A b : IsFriend(b) => frie[b] \in Nat
  BY DEF TypeOK, IsFriend
<1>4. (Answer(t) => Done(t)) /\ (Throw(t) => Done(t))
  BY DEF Answer, Throw
<1>5. ASSUME t.op = "chat"
      PROVE  \A step \in Later :
                 /\ GoOn(t, step) => GoesAt(t, step, t.n, t.i)
                 /\ \A n \in Nat : Replace(t, [t EXCEPT !.step = step, !.n = n])
                                       => GoesAt(t, step, n, t.i)
                 /\ \A i \in Nat : Replace(t, [t EXCEPT !.i = i, !.step = step])
                                       => GoesAt(t, step, t.n, i)
                 /\ \A n, i \in Nat :
                       Replace(t, [t EXCEPT !.n = n, !.i = i, !.step = step])
                           => GoesAt(t, step, n, i)
  BY <1>1, <1>2, <1>5, ChatGoesOn
<1> HIDE DEF Later
<1>6. /\ {"take", "stoi", "reset", "fetch", "push", "hdel", "own"} \subseteq Later
      /\ {"ownstoi", "ownread", "reply"} \subseteq Later
  BY DEF Later
<1>7. ChatCheck(t) =>
          /\ t.op = "chat" /\ t.step = "begin" /\ Quiet /\ storeMtx' = storeMtx
          /\ Done(t) \/ (IsFriend(t.box) /\ GoesAt(t, "take", t.n, t.i))
  <2> SUFFICES ASSUME ChatCheck(t)
               PROVE  /\ t.op = "chat" /\ t.step = "begin" /\ Quiet
                      /\ storeMtx' = storeMtx
                      /\ Done(t) \/ (IsFriend(t.box) /\ GoesAt(t, "take", t.n, t.i))
    OBVIOUS
  <2>1. /\ t.op = "chat" /\ t.step = "begin" /\ Quiet /\ storeMtx' = storeMtx
        /\ Answer(t) \/ (IsFriend(t.box) /\ GoOn(t, "take"))
    BY DEF ChatCheck, At, Quiet, redis
  <2> QED BY <2>1, <1>4, <1>5, <1>6
<1>8. ASSUME ChatTake(t)
      PROVE  /\ t.op = "chat" /\ Quiet /\ storeMtx' = storeMtx
             /\ \/ t.step = "take" /\ GoesAt(t, "stoi", t.n, t.i)
                \/ /\ t.step = "take" /\ ~IsFriend(t.box)
                   /\ GoesAt(t, "reset", t.n, t.i)
                \/ /\ t.step = "stoi" /\ IsFriend(t.box)
                   /\ GoesAt(t, "reset", frie[t.box], t.i)
                \/ t.step = "stoi" /\ Done(t)
  <2>1. /\ t.op = "chat" /\ Quiet /\ storeMtx' = storeMtx
        /\ \/ t.step = "take" /\ GoOn(t, "stoi")
           \/ t.step = "take" /\ ~IsFriend(t.box) /\ GoOn(t, "reset")
           \/ /\ t.step = "stoi" /\ IsFriend(t.box)
              /\ Replace(t, [t EXCEPT !.step = "reset", !.n = frie[t.box]])
           \/ t.step = "stoi" /\ Throw(t)
    BY <1>8 DEF ChatTake, At, Quiet, redis
  <2>2. IsFriend(t.box) => frie[t.box] \in Nat
    BY <1>3
  <2> QED BY <2>1, <2>2, <1>4, <1>5, <1>6
<1>9. ASSUME ChatReset(t)
      PROVE  /\ t.op = "chat" /\ t.step = "reset"
             /\ frie' = [frie EXCEPT ![t.box] = 0]
             /\ \/ t.n = 0 /\ GoesAt(t, "own", t.n, t.i)
                \/ t.n # 0 /\ GoesAt(t, "fetch", t.n, t.i)
             /\ UNCHANGED <<mess, offl, hist, consent, storeMtx>>
  <2>1. /\ t.op = "chat" /\ t.step = "reset"
        /\ frie' = [frie EXCEPT ![t.box] = 0]
        /\ (t.n = 0 /\ GoOn(t, "own")) \/ (t.n # 0 /\ GoOn(t, "fetch"))
        /\ UNCHANGED <<mess, offl, hist, consent, storeMtx>>
    BY <1>9 DEF ChatReset, Grant, At
  <2> QED BY <2>1, <1>5, <1>6
<1>10. ASSUME ChatFetch(t)
       PROVE  /\ t.op = "chat" /\ t.step = "fetch" /\ Quiet /\ storeMtx' = storeMtx
              /\ \/ GoesAt(t, "push", t.n, t.i)
                 \/ Message(t.box, t.i) \notin offl /\ Done(t)
  <2>1. /\ t.op = "chat" /\ t.step = "fetch" /\ Quiet /\ storeMtx' = storeMtx
        /\ GoOn(t, "push") \/ (Message(t.box, t.i) \notin offl /\ Throw(t))
    BY <1>10 DEF ChatFetch, At, Quiet, redis
  <2> QED BY <2>1, <1>4, <1>5, <1>6
<1>11. ASSUME ChatPush(t)
       PROVE  /\ t.op = "chat" /\ t.step = "push" /\ GoesAt(t, "hdel", t.n, t.i)
              /\ hist' = hist \cup {PairOf(t.box)}
              /\ UNCHANGED <<frie, mess, offl, consent, storeMtx>>
  <2>1. /\ t.op = "chat" /\ t.step = "push" /\ GoOn(t, "hdel")
        /\ hist' = hist \cup {PairOf(t.box)}
        /\ UNCHANGED <<frie, mess, offl, consent, storeMtx>>
    BY <1>11 DEF ChatPush, At
  <2> QED BY <2>1, <1>5, <1>6
<1>12. ASSUME ChatHdel(t)
       PROVE  /\ t.op = "chat" /\ t.step = "hdel"
              /\ offl' = offl \ {Message(t.box, t.i)}
              /\ \/ t.i + 1 = t.n /\ GoesAt(t, "own", t.n, t.i + 1)
                 \/ t.i + 1 # t.n /\ GoesAt(t, "fetch", t.n, t.i + 1)
              /\ UNCHANGED <<frie, mess, hist, consent, storeMtx>>
  <2>1. /\ t.op = "chat" /\ t.step = "hdel"
        /\ offl' = offl \ {Message(t.box, t.i)}
        /\ \/ /\ t.i + 1 = t.n
              /\ Replace(t, [t EXCEPT !.i = t.i + 1, !.step = "own"])
           \/ /\ t.i + 1 # t.n
              /\ Replace(t, [t EXCEPT !.i = t.i + 1, !.step = "fetch"])
        /\ UNCHANGED <<frie, mess, hist, consent, storeMtx>>
    BY <1>12 DEF ChatHdel, At
  <2> QED BY <2>1, <1>2, <1>5, <1>6
<1>13. ASSUME ChatOwn(t) \/ ChatOwnRead(t) \/ ChatReply(t)
       PROVE  /\ t.op = "chat" /\ t.step \in {"own", "ownstoi", "ownread", "reply"}
              /\ Quiet /\ storeMtx' = storeMtx
              /\ \/ Done(t)
                 \/ \E step \in {"ownstoi", "ownread", "reply"}, n \in Nat, i \in Nat :
                       GoesAt(t, step, n, i)
  <2>1. /\ t.op = "chat" /\ t.step \in {"own", "ownstoi", "ownread", "reply"}
        /\ Quiet /\ storeMtx' = storeMtx
    BY <1>13 DEF ChatOwn, ChatOwnRead, ChatReply, At, Quiet, redis
  <2>2. CASE ChatOwn(t)
    <3> DEFINE n == frie[Swap(t.box)]
    <3>1. \/ GoOn(t, "ownstoi") \/ GoOn(t, "reply") \/ Throw(t)
          \/ /\ IsFriend(Swap(t.box))
             /\ Replace(t, [t EXCEPT !.n = n, !.i = 0, !.step =
                               IF n = 0 THEN "reply" ELSE "ownread"])
      BY <2>2 DEF ChatOwn
    <3>2. IsFriend(Swap(t.box)) => n \in Nat
      BY <1>3
    <3> HIDE DEF n
    <3>3. \/ GoOn(t, "ownstoi") \/ GoOn(t, "reply") \/ Throw(t)
          \/ /\ n \in Nat
             /\ \/ Replace(t, [t EXCEPT !.n = n, !.i = 0, !.step = "reply"])
                \/ Replace(t, [t EXCEPT !.n = n, !.i = 0, !.step = "ownread"])
      BY <3>1, <3>2
    <3>4. \/ Done(t) \/ GoesAt(t, "ownstoi", t.n, t.i) \/ GoesAt(t, "reply", t.n, t.i)
          \/ n \in Nat /\ (GoesAt(t, "reply", n, 0) \/ GoesAt(t, "ownread", n, 0))
      BY <2>1, <3>3, <1>2, <1>4, <1>5, <1>6
    <3> QED BY <2>1, <3>4, <1>2
  <2>3. CASE ChatOwnRead(t)
    <3>1. \/ Throw(t)
          \/ Replace(t, [t EXCEPT !.i = t.i + 1, !.step = "reply"])
          \/ Replace(t, [t EXCEPT !.i = t.i + 1, !.step = "ownread"])
      BY <2>3 DEF ChatOwnRead
    <3>2. Done(t) \/ GoesAt(t, "reply", t.n, t.i + 1) \/ GoesAt(t, "ownread", t.n, t.i + 1)
      BY <2>1, <3>1, <1>2, <1>4, <1>5, <1>6
    <3> QED BY <2>1, <3>2, <1>2
  <2>4. CASE ChatReply(t)
    BY <2>1, <2>4, <1>4 DEF ChatReply
  <2> QED BY <1>13, <2>1, <2>2, <2>3, <2>4
<1> QED BY <1>7, <1>8, <1>9, <1>10, <1>11, <1>12, <1>13

ChatStep(t) ==
    \/ ChatCheck(t) \/ ChatTake(t) \/ ChatReset(t) \/ ChatFetch(t) \/ ChatPush(t)
    \/ ChatHdel(t) \/ ChatOwn(t) \/ ChatOwnRead(t) \/ ChatReply(t)

\* A step of CHAT ends it or goes on, and answers as Answer does.
LEMMA ChatMoves ==
    ASSUME TypeOK, NEW t \in tasks, ChatStep(t)
    PROVE  /\ t.op = "chat" /\ Note(t) /\ storeMtx' = storeMtx
           /\ UNCHANGED clients \/ Answer(t)
           /\ \/ Done(t)
              \/ \E step \in Steps \ {"begin"}, n \in Nat : Goes(t, step, n)
<1>1. Note(t) /\ (UNCHANGED clients \/ Answer(t))
  <2>1. CASE ChatCheck(t) \/ ChatTake(t) \/ ChatReset(t) \/ ChatFetch(t) \/ ChatPush(t)
    BY <2>1 DEF ChatCheck, ChatTake, ChatReset, ChatFetch, ChatPush, GoOn, Throw
  <2>2. CASE ChatHdel(t)
    BY <2>2 DEF ChatHdel, clients
  <2>3. CASE ChatOwn(t) \/ ChatOwnRead(t) \/ ChatReply(t)
    BY <2>3 DEF ChatOwn, ChatOwnRead, ChatReply, GoOn, Throw
  <2> QED BY <2>1, <2>2, <2>3 DEF ChatStep
<1>2. /\ t.op = "chat" /\ storeMtx' = storeMtx
      /\ \/ Done(t)
         \/ \E step \in {"take", "stoi", "reset", "fetch", "push", "hdel", "own",
                         "ownstoi", "ownread", "reply"}, n \in Nat, i \in Nat :
                GoesAt(t, step, n, i)
  <2>1. t.op = "chat"
    BY ChatEffects DEF ChatStep
  <2>2. t.n \in Nat /\ t.i \in Nat /\ t.i + 1 \in Nat /\ t.n = t.n
    BY <2>1, Kinds
  <2>3. IsFriend(t.box) => frie[t.box] \in Nat
    BY DEF TypeOK, IsFriend
  <2>4. CASE ChatCheck(t) \/ ChatTake(t) \/ ChatReset(t)
    BY <2>1, <2>2, <2>3, <2>4, ChatEffects
  <2>5. CASE ChatFetch(t) \/ ChatPush(t) \/ ChatHdel(t)
    BY <2>1, <2>2, <2>5, ChatEffects
  <2>6. CASE ChatOwn(t) \/ ChatOwnRead(t) \/ ChatReply(t)
    BY <2>1, <2>6, ChatEffects
  <2> QED BY <2>4, <2>5, <2>6 DEF ChatStep
<1>3. {"take", "stoi", "reset", "fetch", "push", "hdel", "own", "ownstoi", "ownread",
       "reply"} \subseteq Steps \ {"begin"}
  BY DEF Steps
<1>4. \A step, n, i : GoesAt(t, step, n, i) => Goes(t, step, n)
  BY GoesAtGoes
<1> QED BY <1>1, <1>2, <1>3, <1>4

\* What a step of a task is at most: it ends, or goes on in its handler.
Step(t) ==
    /\ Note(t)
    /\ words' = words /\ requests' = requests /\ faults' = faults
    /\ \/ Done(t)
       \/ /\ t.box \in Boxes
          /\ \E step \in Steps \ {"begin"}, n \in Nat : Goes(t, step, n)

\* Every step of a task is one, and answers only as Answer does.
LEMMA TaskSteps ==
    ASSUME TypeOK, NEW t \in tasks, TaskStep(t)
    PROVE  Step(t) /\ (screen' = screen \/ Answer(t))
<1> DEFINE Goal == Step(t) /\ (screen' = screen \/ Answer(t))
<1>0. ASSUME NEW step \in Steps \ {"begin"}, GoOn(t, step), Note(t), t.box \in Boxes
      PROVE  Goal
  <2>1. Goes(t, step, t.n) /\ t.n \in Nat
    BY <1>0, GoesOn, Kinds
  <2>2. UNCHANGED clients
    BY <1>0 DEF GoOn
  <2> QED BY <1>0, <2>1, <2>2 DEF Step, clients
<1>1. ASSUME Answer(t), Note(t) PROVE Goal
  BY <1>1 DEF Step, Answer
<1>2. ASSUME Throw(t), Note(t) PROVE Goal
  BY <1>2 DEF Step, Throw, clients
<1>4. /\ t.op # "add" => t.box \in Boxes
      /\ t.step # "begin" => t.box \in Boxes
      /\ t.box[2] \in Users => t.box \in Boxes
  BY Kinds DEF Begun
<1> DEFINE Later == Steps \ {"begin"}
<1>6. /\ "mine" \in Later /\ "theirs" \in Later /\ "look" \in Later
      /\ "push" \in Later /\ "other" \in Later /\ "own" \in Later
      /\ "lrem" \in Later /\ "hist" \in Later /\ "count1" \in Later
      /\ "count2" \in Later /\ "records" \in Later /\ "write" \in Later
      /\ "take" \in Later /\ "reset" \in Later /\ "read" \in Later
      /\ "lock" \in Later /\ "stoi" \in Later /\ "offl" \in Later
      /\ "incr" \in Later
  BY DEF Steps
<1>5. \A s \in Later : GoOn(t, s) /\ Note(t) /\ t.box \in Boxes => Goal
  BY <1>0
<1>9. \A s \in Later, n \in Nat :
         Goes(t, s, n) /\ UNCHANGED clients /\ Note(t) /\ t.box \in Boxes => Goal
  BY DEF Step, clients
<1>7. \A b \in Boxes : IsFriend(b) => frie[b] \in Nat
  BY DEF TypeOK, IsFriend
<1>8. t.box \in Boxes => Swap(t.box) \in Boxes
  BY TwoBoxes
<1> HIDE DEF Goal, Later
<1>11. ASSUME AddIsAccount(t) PROVE Goal
  <2>1. Note(t) /\ (Answer(t) \/ (t.box \in Boxes /\ GoOn(t, "mine")))
    BY <1>11, <1>4 DEF AddIsAccount
  <2> QED BY <2>1, <1>1, <1>5, <1>6
<1>12. ASSUME AddIsFriend(t) PROVE Goal
  <2>1. Note(t) /\ t.box \in Boxes
    BY <1>12, <1>4 DEF AddIsFriend, At
  <2>2. GoOn(t, "theirs") \/ GoOn(t, "look") \/ Answer(t)
    BY <1>12 DEF AddIsFriend
  <2> QED BY <2>1, <2>2, <1>1, <1>5, <1>6
<1>13. ASSUME AddLook(t) PROVE Goal
  <2>1. Note(t) /\ t.box \in Boxes
    BY <1>13, <1>4 DEF AddLook, At
  <2>2. GoOn(t, "other") \/ GoOn(t, "push")
    BY <1>13 DEF AddLook
  <2> QED BY <2>1, <2>2, <1>5, <1>6
<1>14. ASSUME AddPush(t) PROVE Goal
  BY <1>14, <1>1 DEF AddPush
<1>15. ASSUME VerifyFind(t) PROVE Goal
  <2>1. Note(t) /\ t.box \in Boxes
    BY <1>15, <1>4 DEF VerifyFind, At
  <2>2. GoOn(t, "own") \/ GoOn(t, "lrem") \/ Answer(t)
    BY <1>15 DEF VerifyFind
  <2> QED BY <2>1, <2>2, <1>1, <1>5, <1>6
<1>16. ASSUME GrantOwn(t) PROVE Goal
  <2>1. Note(t) /\ t.box \in Boxes
    BY <1>16, <1>4 DEF GrantOwn, At
  <2>2. GoOn(t, "lrem") \/ GoOn(t, "other")
    BY <1>16 DEF GrantOwn
  <2> QED BY <2>1, <2>2, <1>5, <1>6
<1>17. ASSUME GrantOther(t) PROVE Goal
  <2>1. Note(t) /\ t.box \in Boxes
    BY <1>17, <1>4 DEF GrantOther, At
  <2>2. GoOn(t, "lrem") \/ GoOn(t, "own")
    BY <1>17 DEF GrantOther
  <2> QED BY <2>1, <2>2, <1>5, <1>6
<1>18. ASSUME Lrem(t) PROVE Goal
  BY <1>18, <1>1 DEF Lrem
<1>19. ASSUME DeleteCheck(t) PROVE Goal
  <2>1. Note(t) /\ t.box \in Boxes
    BY <1>19, <1>4 DEF DeleteCheck, At
  <2>2. GoOn(t, "hist") \/ Answer(t)
    BY <1>19 DEF DeleteCheck
  <2> QED BY <2>1, <2>2, <1>1, <1>5, <1>6
<1>20. ASSUME DeleteHistory(t) PROVE Goal
  <2>1. Note(t) /\ t.box \in Boxes /\ GoOn(t, "count1")
    BY <1>20, <1>4 DEF DeleteHistory, At
  <2> QED BY <2>1, <1>5, <1>6
<1>21. ASSUME DeleteCount(t) PROVE Goal
  <2>1. Note(t) /\ t.box \in Boxes
    BY <1>21, <1>4 DEF DeleteCount, At
  <2>2. \/ Throw(t)
        \/ /\ IsFriend(t.box) /\ UNCHANGED clients
           /\ Replace(t, [t EXCEPT !.step = "count2", !.n = frie[t.box]])
        \/ /\ IsFriend(Swap(t.box)) /\ UNCHANGED clients
           /\ Replace(t, [t EXCEPT !.step = "records", !.n = frie[Swap(t.box)]])
    BY <1>21 DEF DeleteCount
  <2>3. CASE Throw(t)
    BY <2>3, <2>1, <1>2
  <2>4. CASE /\ IsFriend(t.box) /\ UNCHANGED clients
             /\ Replace(t, [t EXCEPT !.step = "count2", !.n = frie[t.box]])
    <3>1. frie[t.box] \in Nat
      BY <2>1, <2>4, <1>7
    <3>2. Goes(t, "count2", frie[t.box])
      BY <2>4, <3>1, GoesOn DEF Steps
    <3> QED BY <2>1, <2>4, <3>1, <3>2, <1>9, <1>6
  <2>5. CASE /\ IsFriend(Swap(t.box)) /\ UNCHANGED clients
             /\ Replace(t, [t EXCEPT !.step = "records", !.n = frie[Swap(t.box)]])
    <3>1. frie[Swap(t.box)] \in Nat
      BY <2>1, <2>5, <1>7, <1>8
    <3>2. Goes(t, "records", frie[Swap(t.box)])
      BY <2>5, <3>1, GoesOn DEF Steps
    <3> QED BY <2>1, <2>5, <3>1, <3>2, <1>9, <1>6
  <2> QED BY <2>2, <2>3, <2>4, <2>5
<1>22. ASSUME DeleteRecords(t) PROVE Goal
  BY <1>22, <1>1 DEF DeleteRecords
<1>23. ASSUME BlackCheck(t) PROVE Goal
  <2>1. Note(t) /\ t.box \in Boxes
    BY <1>23, <1>4 DEF BlackCheck, At
  <2>2. GoOn(t, "write") \/ Answer(t)
    BY <1>23 DEF BlackCheck
  <2> QED BY <2>1, <2>2, <1>1, <1>5, <1>6
<1>24. ASSUME BlackWrite(t) PROVE Goal
  BY <1>24, <1>1 DEF BlackWrite
<1>25. ASSUME ChatStep(t) PROVE Goal
  <2>1. /\ Note(t) /\ t.box \in Boxes /\ (UNCHANGED clients \/ Answer(t))
        /\ Done(t) \/ \E s \in Later, n \in Nat : Goes(t, s, n)
    BY <1>25, <1>4, ChatMoves DEF Later
  <2>2. CASE Answer(t)
    BY <2>1, <2>2, <1>1
  <2>3. CASE UNCHANGED clients
    BY <2>1, <2>3, <1>2, <1>9 DEF Throw
  <2> QED BY <2>1, <2>2, <2>3
<1>28. ASSUME MessageBlack(t) PROVE Goal
  <2>1. Note(t) /\ t.box \in Boxes
    BY <1>28, <1>4 DEF MessageBlack, At
  <2>2. GoOn(t, "read") \/ GoOn(t, "lock") \/ Throw(t)
    BY <1>28 DEF MessageBlack
  <2> QED BY <2>1, <2>2, <1>2, <1>5, <1>6
<1>29. ASSUME MessageRead(t) PROVE Goal
  BY <1>29, <1>2 DEF MessageRead
<1>30. ASSUME StoreCount(t) PROVE Goal
  <2>1. Note(t) /\ t.box \in Boxes
    BY <1>30, <1>4 DEF StoreCount, At
  <2>2. GoOn(t, "stoi") \/ GoOn(t, "offl")
    BY <1>30 DEF StoreCount
  <2> QED BY <2>1, <2>2, <1>5, <1>6
<1>31. ASSUME StoreStoi(t) PROVE Goal
  <2>1. Note(t) /\ t.box \in Boxes
    BY <1>31, <1>4 DEF StoreStoi, At
  <2>2. \/ Throw(t)
        \/ /\ IsFriend(t.box) /\ UNCHANGED clients
           /\ Replace(t, [t EXCEPT !.step = "offl", !.n = frie[t.box]])
    BY <1>31 DEF StoreStoi, clients
  <2>3. CASE Throw(t)
    BY <2>3, <2>1, <1>2
  <2>4. CASE /\ IsFriend(t.box) /\ UNCHANGED clients
             /\ Replace(t, [t EXCEPT !.step = "offl", !.n = frie[t.box]])
    <3>1. frie[t.box] \in Nat
      BY <2>1, <2>4, <1>7
    <3>2. Goes(t, "offl", frie[t.box])
      BY <2>4, <3>1, GoesOn DEF Steps
    <3> QED BY <2>1, <2>4, <3>1, <3>2, <1>9, <1>6
  <2> QED BY <2>2, <2>3, <2>4
<1>32. ASSUME StoreOffl(t) PROVE Goal
  <2>1. Note(t) /\ t.box \in Boxes /\ GoOn(t, "incr")
    BY <1>32, <1>4 DEF StoreOffl, At
  <2> QED BY <2>1, <1>5, <1>6
<1>33. ASSUME StoreIncr(t) PROVE Goal
  BY <1>33, <1>2 DEF StoreIncr
<1>40. Goal
  BY <1>11, <1>12, <1>13, <1>14, <1>15, <1>16, <1>17, <1>18, <1>19, <1>20, <1>21,
     <1>22, <1>23, <1>24, <1>25, <1>28, <1>29, <1>30, <1>31, <1>32, <1>33
     DEF TaskStep, ChatStep
<1> QED BY <1>40 DEF Goal

\* The tasks there are after a step: t as it goes on, and the others.
LEMMA TasksAfter ==
    ASSUME TypeOK, NEW t \in tasks, Step(t)
    PROVE  /\ \A s \in tasks' : s \in tasks \ {t} \/ (Moves(t, s) /\ t.box \in Boxes)
           /\ tasks \ {t} \subseteq tasks'
BY DEF Step, Done, Goes

\* Only t itself goes on.
LEMMA OneGoes ==
    ASSUME TypeOK, NEW t \in tasks, Step(t)
    PROVE  \A p, q \in tasks' : p \in tasks \ {t} \/ q \in tasks \ {t} \/ p = q
BY DEF Step, Done, Goes

----------------------------------------------------------------------------
(***************************************************************************)
(* Types are kept.                                                         *)
(***************************************************************************)
LaterSteps == Steps \ {"begin"}

\* The tasks keep their types.
LEMMA TaskTypes ==
    ASSUME TypeOK, NEW t \in tasks, Step(t)
    PROVE  /\ tasks' \subseteq RequestTask \cup MessageTask
           /\ \A s \in tasks' : /\ s.box[1] # s.box[2]
                                /\ \/ s.box[2] \in Users
                                   \/ s.op = "add" /\ s.step = "begin"
<1>1. ASSUME NEW s \in tasks', s \notin tasks
      PROVE  /\ s \in RequestTask \cup MessageTask
             /\ s.box[1] # s.box[2] /\ s.box[2] \in Users
  <2>1. Moves(t, s) /\ t.box \in Boxes
    BY <1>1, TasksAfter
  <2> QED BY <2>1 DEF Moves, Boxes
<1> QED BY <1>1 DEF TypeOK

\* An answer keeps the types of the screens.
LEMMA ScreenTypes ==
    ASSUME TypeOK, NEW t \in tasks, screen' = screen \/ Answer(t)
    PROVE  /\ screen' \in [Users -> {"menu", "wait", "chat"} \X Names]
           /\ \A u \in Users : screen'[u][1] = "chat" => <<u, screen'[u][2]>> \in Boxes
<1>1. CASE screen' = screen
  BY <1>1 DEF TypeOK
<1>2. CASE Answer(t) /\ screen' # screen
  <2> DEFINE u == t.box[1]
             v == IF t.op = "chat" /\ t.step = "reply" THEN <<"chat", t.box[2]>>
                  ELSE <<"menu", Unknown>>
  <2>1. screen' = [screen EXCEPT ![u] = v]
    BY <1>2 DEF Answer
  <2>2. u \in Users /\ t.box[2] \in Names /\ (t.op = "chat" => t.box \in Boxes)
    BY Kinds
  <2>3. /\ v \in {"menu", "wait", "chat"} \X Names
        /\ v[1] = "chat" => <<u, v[2]>> \in Boxes
    <3>1. Unknown \in Names
      BY DEF Names
    <3>2. CASE t.op = "chat" /\ t.step = "reply"
      <4>1. v = <<"chat", t.box[2]>> /\ t.box \in Boxes
        BY <3>2, <2>2
      <4>2. t.box = <<u, t.box[2]>>
        BY <4>1 DEF Boxes
      <4> HIDE DEF u
      <4> QED BY <4>1, <4>2, <2>2
    <3>3. CASE ~(t.op = "chat" /\ t.step = "reply")
      BY <3>1, <3>3
    <3> QED BY <3>2, <3>3
  <2> HIDE DEF u, v
  <2>4. screen'[u] = v /\ \A w \in Users : w # u => screen'[w] = screen[w]
    BY <2>1, <2>2 DEF TypeOK
  <2>5. screen' \in [Users -> {"menu", "wait", "chat"} \X Names]
    BY <2>1, <2>2, <2>3 DEF TypeOK
  <2>6. ASSUME NEW w \in Users, screen'[w][1] = "chat"
        PROVE  <<w, screen'[w][2]>> \in Boxes
    <3>1. CASE w = u
      BY <3>1, <2>3, <2>4, <2>6
    <3>2. CASE w # u
      BY <3>2, <2>4, <2>6 DEF TypeOK
    <3> QED BY <3>1, <3>2
  <2> QED BY <2>5, <2>6
<1> QED BY <1>1, <1>2

\* The variables in redis keep their types.
LEMMA RedisTypes ==
    ASSUME TypeOK, NEW t \in tasks, TaskStep(t), ConstantsAssumption
    PROVE  /\ frie' \in [Boxes -> Nat \cup {None}]
           /\ mess' \subseteq Boxes /\ blak' \subseteq Boxes /\ hist' \subseteq Pairs
           /\ offl' \subseteq Users \X Users \X Nat
<1> DEFINE Goal == /\ frie' \in [Boxes -> Nat \cup {None}]
                   /\ mess' \subseteq Boxes /\ blak' \subseteq Boxes
                   /\ hist' \subseteq Pairs
                   /\ offl' \subseteq Users \X Users \X Nat
<1>1. /\ frie \in [Boxes -> Nat \cup {None}]
      /\ mess \subseteq Boxes /\ blak \subseteq Boxes /\ hist \subseteq Pairs
      /\ offl \subseteq Users \X Users \X Nat
  BY DEF TypeOK
<1>2. ASSUME UNCHANGED redis PROVE Goal
  BY <1>1, <1>2 DEF redis
<1>3. t.op # "add" \/ t.step # "begin" => t.box \in Boxes
  BY Kinds DEF Begun
<1>4. t.box \in Boxes => /\ Swap(t.box) \in Boxes /\ PairOf(t.box) \in Pairs
                         /\ t.box[1] \in Users /\ t.box[2] \in Users
  BY TwoBoxes DEF Boxes
<1>5. t.n \in Nat /\ t.n + 1 \in Nat /\ 0 \in Nat
  BY Kinds
<1>6. ASSUME \/ AddIsAccount(t) \/ AddIsFriend(t) \/ AddLook(t) \/ VerifyFind(t)
             \/ DeleteCheck(t) \/ BlackCheck(t) \/ ChatCheck(t) \/ ChatTake(t)
             \/ ChatFetch(t) \/ ChatOwn(t) \/ ChatOwnRead(t) \/ ChatReply(t)
             \/ MessageBlack(t) \/ StoreCount(t) \/ StoreStoi(t)
      PROVE  Goal
  BY <1>6, <1>2 DEF AddIsAccount, AddIsFriend, AddLook, VerifyFind, DeleteCheck,
     BlackCheck, ChatCheck, ChatTake, ChatFetch, ChatOwn, ChatOwnRead, ChatReply,
     MessageBlack, StoreCount, StoreStoi
<1>7. ASSUME AddPush(t) PROVE Goal
  BY <1>7, <1>1, <1>3, <1>4 DEF AddPush, At
<1>8. ASSUME GrantOwn(t) PROVE Goal
  BY <1>8, <1>1, <1>3, <1>4, <1>5 DEF GrantOwn, Grant, At
<1>9. ASSUME GrantOther(t) PROVE Goal
  BY <1>9, <1>1, <1>3, <1>4, <1>5 DEF GrantOther, Grant, At
<1>10. ASSUME Lrem(t) PROVE Goal
  BY <1>10, <1>1 DEF Lrem
<1>11. ASSUME DeleteHistory(t) PROVE Goal
  BY <1>11, <1>1 DEF DeleteHistory
<1>12. ASSUME DeleteCount(t) PROVE Goal
  <2>1. offl' \subseteq offl /\ UNCHANGED <<frie, mess, blak, hist>>
    BY <1>12 DEF DeleteCount
  <2> QED BY <2>1, <1>1
<1>13. ASSUME DeleteRecords(t) PROVE Goal
  <2>1. offl' \subseteq offl /\ UNCHANGED <<mess, blak, hist>>
    BY <1>13 DEF DeleteRecords
  <2>2. frie' \in [Boxes -> Nat \cup {None}]
    BY <1>13, <1>1 DEF DeleteRecords, Unfriended
  <2> QED BY <2>1, <2>2, <1>1
<1>14. ASSUME BlackWrite(t) PROVE Goal
  BY <1>14, <1>1, <1>3 DEF BlackWrite, At
<1>15. ASSUME ChatReset(t) \/ ChatPush(t) \/ ChatHdel(t) PROVE Goal
  <2>1. CASE ChatReset(t)
    BY <2>1, <1>1, <1>5 DEF ChatReset, Grant
  <2>2. CASE ChatPush(t)
    BY <2>2, <1>1, <1>3, <1>4 DEF ChatPush, At
  <2>3. CASE ChatHdel(t)
    <3>1. offl' \subseteq offl /\ UNCHANGED <<frie, mess, blak, hist>>
      BY <2>3 DEF ChatHdel
    <3> QED BY <3>1, <1>1
  <2> QED BY <1>15, <2>1, <2>2, <2>3
<1>16. ASSUME MessageRead(t) PROVE Goal
  BY <1>16, <1>1, <1>3, <1>4 DEF MessageRead, At
<1>17. ASSUME StoreOffl(t) PROVE Goal
  BY <1>17, <1>1, <1>3, <1>4, <1>5 DEF StoreOffl, At
<1>18. ASSUME StoreIncr(t) PROVE Goal
  BY <1>18, <1>1, <1>5 DEF StoreIncr
<1> QED BY <1>6, <1>7, <1>8, <1>9, <1>10, <1>11, <1>12, <1>13, <1>14, <1>15, <1>16,
           <1>17, <1>18 DEF TaskStep

\* The initial state and every step of the system keep the types.
LEMMA TypeInit ==
    ASSUME ConstantsAssumption, Init PROVE TypeOK
<1>1. PICK friends \in SUBSET Pairs :
         frie = [b \in Boxes |-> IF PairOf(b) \in friends THEN 0 ELSE None]
  BY DEF Init
<1>2. frie \in [Boxes -> Nat \cup {None}]
  BY <1>1
<1>3. screen \in [Users -> {"menu", "wait", "chat"} \X Names]
  BY DEF Init, Names
<1> QED BY <1>2, <1>3 DEF Init, TypeOK

\* A request adds a task of its sender.
LEMMA RequestTypes ==
    ASSUME TypeOK, NEW u \in Users, NEW v \in Names,
           NEW op \in {"add", "yes", "no", "delete", "black", "unblack", "chat"},
           op = "add" \/ v \in Users, Request(u, op, v), ConstantsAssumption
    PROVE  TypeOK'
<1> DEFINE r == [op |-> op, box |-> <<u, v>>, id |-> requests[u], n |-> 0,
                 i |-> 0, step |-> "begin"]
<1>1. /\ tasks' = tasks \cup {r} /\ u # v
      /\ requests' = [requests EXCEPT ![u] = @ + 1]
      /\ screen' = [screen EXCEPT ![u] = <<"wait", v>>]
      /\ UNCHANGED <<redis, words, faults>>
  BY DEF Request
<1>2. /\ r \in RequestTask /\ r.box[1] # r.box[2]
      /\ r.box[2] \in Users \/ (r.op = "add" /\ r.step = "begin")
  BY <1>1 DEF RequestTask, TypeOK, Steps
<1> HIDE DEF r
<1>3. /\ tasks' \subseteq RequestTask \cup MessageTask
      /\ \A t \in tasks' : /\ t.box[1] # t.box[2]
                           /\ \/ t.box[2] \in Users
                              \/ t.op = "add" /\ t.step = "begin"
  BY <1>1, <1>2 DEF TypeOK
<1>4. requests' \in [Users -> Nat]
  BY <1>1 DEF TypeOK
<1>5. /\ screen' \in [Users -> {"menu", "wait", "chat"} \X Names]
      /\ \A w \in Users : screen'[w][1] = "chat" => <<w, screen'[w][2]>> \in Boxes
  BY <1>1 DEF TypeOK
<1> QED BY <1>1, <1>3, <1>4, <1>5 DEF TypeOK, redis

\* A message adds a task that stores it.
LEMMA SayTypes ==
    ASSUME TypeOK, NEW u \in Users, Say(u), ConstantsAssumption
    PROVE  TypeOK'
<1> DEFINE v == screen[u][2]
           r == [op |-> "message", box |-> <<v, u>>, id |-> words[u], n |-> 0,
                 step |-> "begin",
                 friends |-> IsFriend(<<u, v>>) /\ IsFriend(<<v, u>>)]
<1>1. /\ tasks' = tasks \cup {r}
      /\ words' = [words EXCEPT ![u] = @ + 1]
      /\ UNCHANGED <<redis, screen, requests, faults>>
  BY DEF Say
<1>2. v \in Users /\ u # v
  BY DEF Say, TypeOK, Boxes
<1>3. IsFriend(<<u, v>>) \in BOOLEAN /\ IsFriend(<<v, u>>) \in BOOLEAN
  BY DEF IsFriend
<1>4. r \in MessageTask /\ r.box[1] # r.box[2] /\ r.box[2] \in Users
  <2>1. "begin" \in Steps /\ words[u] \in Nat /\ <<v, u>> \in Users \X Names
    BY <1>2 DEF TypeOK, Steps, Names
  <2> HIDE DEF v
  <2> QED BY <1>2, <1>3, <2>1 DEF MessageTask
<1> HIDE DEF r
<1>5. /\ tasks' \subseteq RequestTask \cup MessageTask
      /\ \A t \in tasks' : /\ t.box[1] # t.box[2]
                           /\ \/ t.box[2] \in Users
                              \/ t.op = "add" /\ t.step = "begin"
  BY <1>1, <1>4 DEF TypeOK
<1>6. words' \in [Users -> Nat]
  BY <1>1 DEF TypeOK
<1> QED BY <1>1, <1>5, <1>6 DEF TypeOK, redis

\* What a client does is a request, a message, or a change of its screen.
LEMMA ClientSteps ==
    ASSUME TypeOK, NEW u \in Users, ClientStep(u)
    PROVE  \/ \E v \in Names,
                 op \in {"add", "yes", "no", "delete", "black", "unblack", "chat"} :
                     (op = "add" \/ v \in Users) /\ Request(u, op, v)
           \/ Say(u)
           \/ /\ screen' = [screen EXCEPT ![u] = <<"menu", Unknown>>]
              /\ UNCHANGED <<redis, storeMtx, requests, words, tasks, consent, history>>
              /\ faults' = faults \/ faults' = faults + 1
<1>1. Users \subseteq Names
  BY DEF Names
<1>2. CASE Leave(u) \/ Drop(u)
  BY <1>2 DEF Leave, Drop, redis
<1>3. CASE \E v \in Names : addFriend(u, v)
  BY <1>3 DEF addFriend
<1>4. CASE \E v \in Users : handleCmd(u, v) \/ managerFriend(u, v) \/ seeFriend(u, v)
  BY <1>1, <1>4 DEF handleCmd, managerFriend, seeFriend
<1> QED BY <1>2, <1>3, <1>4 DEF ClientStep

\* Every step keeps the types.
LEMMA TypeStep ==
    ASSUME TypeOK, [Next]_vars, ConstantsAssumption PROVE TypeOK'
<1>1. CASE UNCHANGED vars
  BY <1>1 DEF vars, redis, TypeOK
<1>2. ASSUME NEW u \in Users, ClientStep(u) PROVE TypeOK'
  <2>1. CASE \E v \in Names,
                 op \in {"add", "yes", "no", "delete", "black", "unblack", "chat"} :
                     (op = "add" \/ v \in Users) /\ Request(u, op, v)
    BY <2>1, RequestTypes
  <2>2. CASE Say(u)
    BY <2>2, SayTypes
  <2>3. CASE /\ screen' = [screen EXCEPT ![u] = <<"menu", Unknown>>]
             /\ UNCHANGED <<redis, storeMtx, requests, words, tasks, consent, history>>
             /\ faults' = faults \/ faults' = faults + 1
    <3>1. /\ screen' \in [Users -> {"menu", "wait", "chat"} \X Names]
          /\ \A w \in Users : screen'[w][1] = "chat" => <<w, screen'[w][2]>> \in Boxes
      BY <2>3 DEF TypeOK, Names
    <3>2. faults' \in Nat
      BY <2>3 DEF TypeOK
    <3> QED BY <2>3, <3>1, <3>2 DEF TypeOK, redis
  <2> QED BY <1>2, <2>1, <2>2, <2>3, ClientSteps
<1>3. ASSUME NEW t \in tasks, TaskStep(t) PROVE TypeOK'
  <2>1. Step(t) /\ (screen' = screen \/ Answer(t))
    BY <1>3, TaskSteps
  <2>2. /\ screen' \in [Users -> {"menu", "wait", "chat"} \X Names]
        /\ \A w \in Users : screen'[w][1] = "chat" => <<w, screen'[w][2]>> \in Boxes
    BY <2>1, ScreenTypes
  <2>3. /\ frie' \in [Boxes -> Nat \cup {None}]
        /\ mess' \subseteq Boxes /\ blak' \subseteq Boxes /\ hist' \subseteq Pairs
        /\ offl' \subseteq Users \X Users \X Nat
    BY <1>3, RedisTypes
  <2>4. /\ tasks' \subseteq RequestTask \cup MessageTask
        /\ \A s \in tasks' : /\ s.box[1] # s.box[2]
                             /\ \/ s.box[2] \in Users
                                \/ s.op = "add" /\ s.step = "begin"
    BY <2>1, TaskTypes
  <2>5. words' = words /\ requests' = requests /\ faults' = faults
    BY <2>1 DEF Step
  <2> QED BY <2>2, <2>3, <2>4, <2>5 DEF TypeOK
<1>4. CASE Restart
  <2>1. /\ screen' \in [Users -> {"menu", "wait", "chat"} \X Names]
        /\ \A w \in Users : screen'[w][1] # "chat"
    BY <1>4 DEF Restart, Names
  <2>2. tasks' = {} /\ faults' \in Nat /\ UNCHANGED <<redis, requests, words>>
    BY <1>4 DEF Restart, TypeOK
  <2> QED BY <2>1, <2>2 DEF TypeOK, redis
<1> QED BY <1>1, <1>2, <1>3, <1>4 DEF Next

----------------------------------------------------------------------------
(***************************************************************************)
(* What each step does to the tasks and to the variables the invariants    *)
(* speak of.                                                               *)
(***************************************************************************)
\* ADD before it writes.
LEMMA AddEffects ==
    ASSUME TypeOK, NEW t \in tasks
    PROVE  /\ AddIsAccount(t) =>
                 /\ t.op = "add" /\ t.step = "begin" /\ Quiet /\ storeMtx' = storeMtx
                 /\ Done(t) \/ Goes(t, "mine", t.n)
           /\ AddIsFriend(t) =>
                 /\ t.op = "add" /\ Quiet /\ storeMtx' = storeMtx
                 /\ \/ t.step = "mine" /\ IsFriend(t.box) /\ Goes(t, "theirs", t.n)
                    \/ t.step = "mine" /\ ~IsFriend(t.box) /\ Goes(t, "look", t.n)
                    \/ t.step = "theirs" /\ Done(t)
                    \/ /\ t.step = "theirs" /\ ~IsFriend(Swap(t.box))
                       /\ Goes(t, "look", t.n)
           /\ AddLook(t) =>
                 /\ t.op = "add" /\ t.step = "look" /\ Quiet /\ storeMtx' = storeMtx
                 /\ \/ t.box \in mess /\ Goes(t, "other", t.n)
                    \/ t.box \notin mess /\ Goes(t, "push", t.n)
           /\ AddPush(t) =>
                 /\ t.op = "add" /\ t.step = "push" /\ Done(t)
                 /\ mess' = mess \cup {Swap(t.box)}
                 /\ UNCHANGED <<frie, offl, hist, consent, storeMtx>>
<1>1. \A s \in Steps \ {"begin"} : GoOn(t, s) => Goes(t, s, t.n)
  BY GoesOn, Kinds
<1>2. {"mine", "theirs", "look", "other", "push"} \subseteq Steps \ {"begin"}
  BY DEF Steps
<1>3. /\ GoOn(t, "mine") => Goes(t, "mine", t.n)
      /\ GoOn(t, "theirs") => Goes(t, "theirs", t.n)
      /\ GoOn(t, "look") => Goes(t, "look", t.n)
      /\ GoOn(t, "other") => Goes(t, "other", t.n)
      /\ GoOn(t, "push") => Goes(t, "push", t.n)
  BY <1>1, <1>2
<1>4. Answer(t) => Done(t)
  BY DEF Answer
<1>5. AddIsAccount(t) =>
          /\ t.op = "add" /\ t.step = "begin" /\ Quiet /\ storeMtx' = storeMtx
          /\ Done(t) \/ Goes(t, "mine", t.n)
  BY <1>3, <1>4 DEF AddIsAccount, At, Quiet, redis
<1>6. AddIsFriend(t) =>
          /\ t.op = "add" /\ Quiet /\ storeMtx' = storeMtx
          /\ \/ t.step = "mine" /\ IsFriend(t.box) /\ Goes(t, "theirs", t.n)
             \/ t.step = "mine" /\ ~IsFriend(t.box) /\ Goes(t, "look", t.n)
             \/ t.step = "theirs" /\ Done(t)
             \/ /\ t.step = "theirs" /\ ~IsFriend(Swap(t.box))
                /\ Goes(t, "look", t.n)
  BY <1>3, <1>4 DEF AddIsFriend, At, Quiet, redis
<1>7. AddLook(t) =>
          /\ t.op = "add" /\ t.step = "look" /\ Quiet /\ storeMtx' = storeMtx
          /\ \/ t.box \in mess /\ Goes(t, "other", t.n)
             \/ t.box \notin mess /\ Goes(t, "push", t.n)
  BY <1>3 DEF AddLook, At, Quiet, redis
<1>8. AddPush(t) =>
          /\ t.op = "add" /\ t.step = "push" /\ Done(t)
          /\ mess' = mess \cup {Swap(t.box)}
          /\ UNCHANGED <<frie, offl, hist, consent, storeMtx>>
  BY <1>4 DEF AddPush, At
<1> QED BY <1>5, <1>6, <1>7, <1>8

\* VERIFY, and what ADD writes when it accepts.
LEMMA AcceptEffects ==
    ASSUME TypeOK, NEW t \in tasks
    PROVE  /\ VerifyFind(t) =>
                 /\ t.op \in {"yes", "no"} /\ t.step = "begin"
                 /\ Quiet /\ storeMtx' = storeMtx
                 /\ \/ Done(t)
                    \/ t.op = "yes" /\ t.box \in mess /\ Goes(t, "own", t.n)
                    \/ t.op = "no" /\ Goes(t, "lrem", t.n)
           /\ GrantOwn(t) =>
                 /\ t.step = "own"
                 /\ \/ t.op = "add" /\ Goes(t, "lrem", t.n)
                    \/ t.op = "yes" /\ Goes(t, "other", t.n)
                 /\ frie' = [frie EXCEPT ![t.box] = 0]
                 /\ UNCHANGED <<mess, offl, hist, consent, storeMtx>>
           /\ GrantOther(t) =>
                 /\ t.step = "other"
                 /\ \/ t.op = "add" /\ Goes(t, "own", t.n)
                    \/ t.op = "yes" /\ Goes(t, "lrem", t.n)
                 /\ frie' = [frie EXCEPT ![Swap(t.box)] = 0]
                 /\ UNCHANGED <<mess, offl, hist, consent, storeMtx>>
           /\ Lrem(t) =>
                 /\ t.op \in {"add", "yes", "no"} /\ t.step = "lrem" /\ Done(t)
                 /\ mess' = mess \ {t.box}
                 /\ UNCHANGED <<frie, offl, hist, consent, storeMtx>>
<1>1. \A s \in Steps \ {"begin"} : GoOn(t, s) => Goes(t, s, t.n)
  BY GoesOn, Kinds
<1>2. {"own", "lrem", "other"} \subseteq Steps \ {"begin"}
  BY DEF Steps
<1>3. /\ GoOn(t, "own") => Goes(t, "own", t.n)
      /\ GoOn(t, "lrem") => Goes(t, "lrem", t.n)
      /\ GoOn(t, "other") => Goes(t, "other", t.n)
  BY <1>1, <1>2
<1>4. Answer(t) => Done(t)
  BY DEF Answer
<1>5. VerifyFind(t) =>
          /\ t.op \in {"yes", "no"} /\ t.step = "begin"
          /\ Quiet /\ storeMtx' = storeMtx
          /\ \/ Done(t)
             \/ t.op = "yes" /\ t.box \in mess /\ Goes(t, "own", t.n)
             \/ t.op = "no" /\ Goes(t, "lrem", t.n)
  BY <1>3, <1>4 DEF VerifyFind, At, Quiet, redis
<1>6. GrantOwn(t) =>
          /\ t.step = "own"
          /\ \/ t.op = "add" /\ Goes(t, "lrem", t.n)
             \/ t.op = "yes" /\ Goes(t, "other", t.n)
          /\ frie' = [frie EXCEPT ![t.box] = 0]
          /\ UNCHANGED <<mess, offl, hist, consent, storeMtx>>
  BY <1>3 DEF GrantOwn, Grant, At
<1>7. GrantOther(t) =>
          /\ t.step = "other"
          /\ \/ t.op = "add" /\ Goes(t, "own", t.n)
             \/ t.op = "yes" /\ Goes(t, "lrem", t.n)
          /\ frie' = [frie EXCEPT ![Swap(t.box)] = 0]
          /\ UNCHANGED <<mess, offl, hist, consent, storeMtx>>
  BY <1>3 DEF GrantOther, Grant, At
<1>8. Lrem(t) =>
          /\ t.op \in {"add", "yes", "no"} /\ t.step = "lrem" /\ Done(t)
          /\ mess' = mess \ {t.box}
          /\ UNCHANGED <<frie, offl, hist, consent, storeMtx>>
  BY <1>4 DEF Lrem, At
<1> QED BY <1>5, <1>6, <1>7, <1>8

\* DELFRIEND and BLACK.
LEMMA DeleteEffects ==
    ASSUME TypeOK, NEW t \in tasks
    PROVE  /\ DeleteCheck(t) =>
                 /\ t.op = "delete" /\ t.step = "begin" /\ Quiet
                 /\ storeMtx' = storeMtx
                 /\ Done(t) \/ (IsFriend(t.box) /\ Goes(t, "hist", t.n))
           /\ DeleteHistory(t) =>
                 /\ t.op = "delete" /\ t.step = "hist" /\ Goes(t, "count1", t.n)
                 /\ hist' = hist \ {PairOf(t.box)}
                 /\ UNCHANGED <<frie, mess, offl, consent, storeMtx>>
           /\ DeleteCount(t) =>
                 /\ t.op = "delete"
                 /\ UNCHANGED <<frie, mess, hist, consent, storeMtx>>
                 /\ \/ /\ t.step = "count1" /\ offl' = offl
                       /\ \/ Done(t)
                          \/ IsFriend(t.box) /\ Goes(t, "count2", frie[t.box])
                    \/ /\ t.step = "count2"
                       /\ offl' = offl \ {o \in Unread(t.box) : o[3] < t.n}
                       /\ \/ ~IsFriend(Swap(t.box)) /\ Done(t)
                          \/ /\ IsFriend(Swap(t.box))
                             /\ Goes(t, "records", frie[Swap(t.box)])
           /\ DeleteRecords(t) =>
                 /\ t.op = "delete" /\ t.step = "records" /\ Done(t)
                 /\ frie' = [frie EXCEPT ![t.box] = None, ![Swap(t.box)] = None]
                 /\ offl' = offl \ {o \in Unread(Swap(t.box)) : o[3] < t.n}
                 /\ consent' = consent \ ({t.box, Swap(t.box)} \
                        {s.box : s \in {r \in tasks : r.op \in {"add", "yes"}}})
                 /\ UNCHANGED <<mess, hist, storeMtx>>
           /\ BlackCheck(t) \/ BlackWrite(t) =>
                 /\ t.op \in {"black", "unblack"} /\ Quiet /\ storeMtx' = storeMtx
                 /\ Done(t) \/ Goes(t, "write", t.n)
<1>1. \A s \in Steps \ {"begin"} : GoOn(t, s) => Goes(t, s, t.n)
  BY GoesOn, Kinds
<1>2. {"hist", "count1", "count2", "records", "write"} \subseteq Steps \ {"begin"}
  BY DEF Steps
<1>3. /\ GoOn(t, "hist") => Goes(t, "hist", t.n)
      /\ GoOn(t, "count1") => Goes(t, "count1", t.n)
      /\ GoOn(t, "write") => Goes(t, "write", t.n)
  BY <1>1, <1>2
<1>4. (Answer(t) => Done(t)) /\ (Throw(t) => Done(t))
  BY DEF Answer, Throw
<1>5. DeleteCheck(t) =>
          /\ t.op = "delete" /\ t.step = "begin" /\ Quiet /\ storeMtx' = storeMtx
          /\ Done(t) \/ (IsFriend(t.box) /\ Goes(t, "hist", t.n))
  BY <1>3, <1>4 DEF DeleteCheck, At, Quiet, redis
<1>6. DeleteHistory(t) =>
          /\ t.op = "delete" /\ t.step = "hist" /\ Goes(t, "count1", t.n)
          /\ hist' = hist \ {PairOf(t.box)}
          /\ UNCHANGED <<frie, mess, offl, consent, storeMtx>>
  BY <1>3 DEF DeleteHistory, At
<1>7. ASSUME DeleteCount(t)
      PROVE  /\ t.op = "delete"
             /\ UNCHANGED <<frie, mess, hist, consent, storeMtx>>
             /\ \/ /\ t.step = "count1" /\ offl' = offl
                   /\ \/ Done(t)
                      \/ IsFriend(t.box) /\ Goes(t, "count2", frie[t.box])
                \/ /\ t.step = "count2"
                   /\ offl' = offl \ {o \in Unread(t.box) : o[3] < t.n}
                   /\ \/ ~IsFriend(Swap(t.box)) /\ Done(t)
                      \/ /\ IsFriend(Swap(t.box))
                         /\ Goes(t, "records", frie[Swap(t.box)])
  <2>1. t.op = "delete" /\ UNCHANGED <<frie, mess, hist, consent, storeMtx>>
    BY <1>7 DEF DeleteCount, At
  <2>2. \A b : IsFriend(b) => frie[b] \in Nat
    BY DEF TypeOK, IsFriend
  <2>3. IsFriend(t.box) /\ Replace(t, [t EXCEPT !.step = "count2", !.n = frie[t.box]])
            => Goes(t, "count2", frie[t.box])
    <3> SUFFICES ASSUME IsFriend(t.box),
                        Replace(t, [t EXCEPT !.step = "count2", !.n = frie[t.box]])
                 PROVE  Goes(t, "count2", frie[t.box])
      OBVIOUS
    <3> QED BY <2>2, GoesOn DEF Steps
  <2>4. IsFriend(Swap(t.box)) =>
          (Replace(t, [t EXCEPT !.step = "records", !.n = frie[Swap(t.box)]])
              => Goes(t, "records", frie[Swap(t.box)]))
    <3> SUFFICES ASSUME IsFriend(Swap(t.box)),
                   Replace(t, [t EXCEPT !.step = "records", !.n = frie[Swap(t.box)]])
                 PROVE  Goes(t, "records", frie[Swap(t.box)])
      OBVIOUS
    <3> QED BY <2>2, GoesOn DEF Steps
  <2>5. \/ /\ t.step = "count1" /\ offl' = offl
           /\ \/ Throw(t)
              \/ /\ IsFriend(t.box)
                 /\ Replace(t, [t EXCEPT !.step = "count2", !.n = frie[t.box]])
        \/ /\ t.step = "count2"
           /\ offl' = offl \ {o \in Unread(t.box) : o[3] < t.n}
           /\ \/ ~IsFriend(Swap(t.box)) /\ Throw(t)
              \/ /\ IsFriend(Swap(t.box))
                 /\ Replace(t, [t EXCEPT !.step = "records", !.n = frie[Swap(t.box)]])
    BY <1>7 DEF DeleteCount, At
  <2> QED BY <2>1, <2>3, <2>4, <2>5, <1>4
<1>8. DeleteRecords(t) =>
          /\ t.op = "delete" /\ t.step = "records" /\ Done(t)
          /\ frie' = [frie EXCEPT ![t.box] = None, ![Swap(t.box)] = None]
          /\ offl' = offl \ {o \in Unread(Swap(t.box)) : o[3] < t.n}
          /\ consent' = consent \ ({t.box, Swap(t.box)} \
                 {s.box : s \in {r \in tasks : r.op \in {"add", "yes"}}})
          /\ UNCHANGED <<mess, hist, storeMtx>>
  BY <1>4 DEF DeleteRecords, Unfriended, Parted, At
<1>9. BlackCheck(t) \/ BlackWrite(t) =>
          /\ t.op \in {"black", "unblack"} /\ Quiet /\ storeMtx' = storeMtx
          /\ Done(t) \/ Goes(t, "write", t.n)
  BY <1>3, <1>4 DEF BlackCheck, BlackWrite, At, Quiet, redis
<1> QED BY <1>5, <1>6, <1>7, <1>8, <1>9

\* MESSAGE.
LEMMA MessageEffects ==
    ASSUME TypeOK, NEW t \in tasks
    PROVE  /\ MessageBlack(t) =>
                 /\ t.op = "message" /\ t.step = "begin" /\ Quiet
                 /\ storeMtx' = storeMtx
                 /\ Done(t) \/ Goes(t, "read", t.n) \/ Goes(t, "lock", t.n)
           /\ MessageRead(t) =>
                 /\ t.op = "message" /\ t.step = "read" /\ Done(t)
                 /\ hist' = hist \cup {PairOf(t.box)}
                 /\ UNCHANGED <<frie, mess, offl, consent, storeMtx>>
           /\ StoreCount(t) =>
                 /\ t.op = "message" /\ t.step = "lock" /\ Quiet
                 /\ storeMtx = None /\ storeMtx' = <<t.box[2], t.id>>
                 /\ \/ Goes(t, "stoi", t.n)
                    \/ ~IsFriend(t.box) /\ Goes(t, "offl", t.n)
           /\ StoreStoi(t) =>
                 /\ t.op = "message" /\ t.step = "stoi" /\ Quiet
                 /\ \/ /\ IsFriend(t.box) /\ Goes(t, "offl", frie[t.box])
                       /\ storeMtx' = storeMtx
                    \/ Done(t) /\ storeMtx' = None
           /\ StoreOffl(t) =>
                 /\ t.op = "message" /\ t.step = "offl" /\ Goes(t, "incr", t.n)
                 /\ offl' = offl \cup {<<t.box[1], t.box[2], t.n>>}
                 /\ UNCHANGED <<frie, mess, hist, consent, storeMtx>>
           /\ StoreIncr(t) =>
                 /\ t.op = "message" /\ t.step = "incr" /\ Done(t)
                 /\ frie' = [frie EXCEPT ![t.box] = t.n + 1]
                 /\ storeMtx' = None
                 /\ UNCHANGED <<mess, offl, hist, consent>>
<1>1. \A s \in Steps \ {"begin"} : GoOn(t, s) => Goes(t, s, t.n)
  BY GoesOn, Kinds
<1>2. {"read", "lock", "stoi", "offl", "incr"} \subseteq Steps \ {"begin"}
  BY DEF Steps
<1>3. /\ GoOn(t, "read") => Goes(t, "read", t.n)
      /\ GoOn(t, "lock") => Goes(t, "lock", t.n)
      /\ GoOn(t, "stoi") => Goes(t, "stoi", t.n)
      /\ GoOn(t, "offl") => Goes(t, "offl", t.n)
      /\ GoOn(t, "incr") => Goes(t, "incr", t.n)
  BY <1>1, <1>2
<1>4. Throw(t) => Done(t)
  BY DEF Throw
<1>5. MessageBlack(t) =>
          /\ t.op = "message" /\ t.step = "begin" /\ Quiet /\ storeMtx' = storeMtx
          /\ Done(t) \/ Goes(t, "read", t.n) \/ Goes(t, "lock", t.n)
  BY <1>3, <1>4 DEF MessageBlack, At, Quiet, redis
<1>6. MessageRead(t) =>
          /\ t.op = "message" /\ t.step = "read" /\ Done(t)
          /\ hist' = hist \cup {PairOf(t.box)}
          /\ UNCHANGED <<frie, mess, offl, consent, storeMtx>>
  BY <1>4 DEF MessageRead, At
<1>7. StoreCount(t) =>
          /\ t.op = "message" /\ t.step = "lock" /\ Quiet
          /\ storeMtx = None /\ storeMtx' = <<t.box[2], t.id>>
          /\ \/ Goes(t, "stoi", t.n)
             \/ ~IsFriend(t.box) /\ Goes(t, "offl", t.n)
  BY <1>3 DEF StoreCount, At, Quiet, redis
<1>8. ASSUME StoreStoi(t)
      PROVE  /\ t.op = "message" /\ t.step = "stoi" /\ Quiet
             /\ \/ /\ IsFriend(t.box) /\ Goes(t, "offl", frie[t.box])
                   /\ storeMtx' = storeMtx
                \/ Done(t) /\ storeMtx' = None
  <2>1. /\ t.op = "message" /\ t.step = "stoi" /\ Quiet
        /\ \/ /\ IsFriend(t.box) /\ storeMtx' = storeMtx
              /\ Replace(t, [t EXCEPT !.step = "offl", !.n = frie[t.box]])
           \/ Throw(t) /\ storeMtx' = None
    BY <1>8 DEF StoreStoi, At, Quiet, redis
  <2>2. \A b : IsFriend(b) => frie[b] \in Nat
    BY DEF TypeOK, IsFriend
  <2>3. IsFriend(t.box) /\ Replace(t, [t EXCEPT !.step = "offl", !.n = frie[t.box]])
            => Goes(t, "offl", frie[t.box])
    <3> SUFFICES ASSUME IsFriend(t.box),
                        Replace(t, [t EXCEPT !.step = "offl", !.n = frie[t.box]])
                 PROVE  Goes(t, "offl", frie[t.box])
      OBVIOUS
    <3> QED BY <2>2, GoesOn DEF Steps
  <2> QED BY <2>1, <2>3, <1>4
<1>9. StoreOffl(t) =>
          /\ t.op = "message" /\ t.step = "offl" /\ Goes(t, "incr", t.n)
          /\ offl' = offl \cup {<<t.box[1], t.box[2], t.n>>}
          /\ UNCHANGED <<frie, mess, hist, consent, storeMtx>>
  BY <1>3 DEF StoreOffl, At
<1>10. StoreIncr(t) =>
          /\ t.op = "message" /\ t.step = "incr" /\ Done(t)
          /\ frie' = [frie EXCEPT ![t.box] = t.n + 1]
          /\ storeMtx' = None
          /\ UNCHANGED <<mess, offl, hist, consent>>
  BY <1>4 DEF StoreIncr, At
<1> QED BY <1>5, <1>6, <1>7, <1>8, <1>9, <1>10

----------------------------------------------------------------------------
(***************************************************************************)
(* Tasks stay apart, and the lock has one holder.                          *)
(***************************************************************************)

\* A task that moves beside another one notes what that may do.
LEMMA Noted ==
    ASSUME NEW t \in tasks, Note(t)
    PROVE  /\ torn \subseteq torn' /\ crossed \subseteq crossed' /\ met \subseteq met'
           /\ \A s \in tasks \ {t} :
                 Begun(s) /\ PairOf(s.box) = PairOf(t.box) =>
                     /\ Tears(s.op, t.op) => PairOf(t.box) \in torn'
                     /\ Crosses(s.op, t.op) => PairOf(t.box) \in crossed'
                     /\ Meets(s.op, t.op) => PairOf(t.box) \in met'
           /\ t.op = "message" /\ t.step \in {"read", "offl", "incr"}
              /\ ~IsFriend(t.box) => PairOf(t.box) \in torn'
<1>1. torn \subseteq torn' /\ crossed \subseteq crossed' /\ met \subseteq met'
  BY DEF Note
<1>2. ASSUME NEW s \in tasks \ {t}, Begun(s), PairOf(s.box) = PairOf(t.box)
      PROVE  /\ Tears(s.op, t.op) => PairOf(t.box) \in torn'
             /\ Crosses(s.op, t.op) => PairOf(t.box) \in crossed'
             /\ Meets(s.op, t.op) => PairOf(t.box) \in met'
  <2>1. s \in Beside(t)
    BY <1>2 DEF Beside, Begun
  <2> QED BY <2>1 DEF Note, Tears, Crosses, Meets
<1>3. t.op = "message" /\ t.step \in {"read", "offl", "incr"} /\ ~IsFriend(t.box)
          => PairOf(t.box) \in torn'
  BY DEF Note
<1> QED BY <1>1, <1>2, <1>3

\* Overlapping is symmetric.
LEMMA Symmetric ==
    ASSUME NEW o, NEW p
    PROVE  /\ Tears(o, p) <=> Tears(p, o)
           /\ Crosses(o, p) <=> Crosses(p, o)
           /\ Meets(o, p) <=> Meets(p, o)
<1>1. {o, p} = {p, o}
  OBVIOUS
<1> QED BY <1>1 DEF Tears, Crosses, Meets

\* Steps of tasks keep the tasks apart.
LEMMA ApartTask ==
    ASSUME TypeOK, Apart(tasks, torn, crossed, met), NEW t \in tasks, Step(t)
    PROVE  Apart(tasks', torn', crossed', met')
<1>1. /\ torn \subseteq torn' /\ crossed \subseteq crossed' /\ met \subseteq met'
      /\ \A s \in tasks \ {t} :
            Begun(s) /\ PairOf(s.box) = PairOf(t.box) =>
                /\ Tears(s.op, t.op) => PairOf(t.box) \in torn'
                /\ Crosses(s.op, t.op) => PairOf(t.box) \in crossed'
                /\ Meets(s.op, t.op) => PairOf(t.box) \in met'
  BY Noted DEF Step
<1>2. /\ \A s \in tasks' : s \in tasks \ {t} \/ (s.op = t.op /\ s.box = t.box)
      /\ \A p, q \in tasks' : p \in tasks \ {t} \/ q \in tasks \ {t} \/ p = q
  BY TasksAfter, OneGoes DEF Moves
<1>3. SUFFICES ASSUME NEW p \in tasks', NEW q \in tasks', p # q, Begun(p), Begun(q),
                      PairOf(p.box) = PairOf(q.box)
               PROVE  /\ Tears(p.op, q.op) => PairOf(q.box) \in torn'
                      /\ Crosses(p.op, q.op) => PairOf(q.box) \in crossed'
                      /\ Meets(p.op, q.op) => PairOf(q.box) \in met'
  BY DEF Apart
<1>4. CASE p \in tasks \ {t} /\ q \in tasks \ {t}
  BY <1>1, <1>3, <1>4 DEF Apart
<1>5. CASE p \in tasks \ {t} /\ q \notin tasks \ {t}
  BY <1>1, <1>2, <1>3, <1>5
<1>6. CASE q \in tasks \ {t} /\ p \notin tasks \ {t}
  BY <1>1, <1>2, <1>3, <1>6, Symmetric
<1> QED BY <1>2, <1>3, <1>4, <1>5, <1>6

\* Whoever asks or accepts keeps having done so.
LEMMA AskingTask ==
    ASSUME TypeOK, Asking(consent, tasks), NEW t \in tasks, TaskStep(t)
    PROVE  Asking(consent', tasks')
<1>1. Step(t)
  BY TaskSteps
<1>2. \A s \in tasks' : s \in tasks \ {t} \/ (s.op = t.op /\ s.box = t.box)
  BY <1>1, TasksAfter DEF Moves
<1>3. CASE consent' = consent
  BY <1>2, <1>3 DEF Asking
<1>4. CASE DeleteRecords(t)
  <2>1. /\ t.op = "delete"
        /\ consent' = consent \ ({t.box, Swap(t.box)} \
                 {s.box : s \in {r \in tasks : r.op \in {"add", "yes"}}})
    BY <1>4, DeleteEffects
  <2> QED BY <2>1, <1>2 DEF Asking
<1>5. consent' = consent \/ DeleteRecords(t)
  BY DEF TaskStep, AddIsAccount, AddIsFriend, AddLook, AddPush, VerifyFind, GrantOwn,
     GrantOther, Lrem, DeleteCheck, DeleteHistory, DeleteCount, BlackCheck, BlackWrite,
     ChatCheck, ChatTake, ChatReset, ChatFetch, ChatPush, ChatHdel, ChatOwn,
     ChatOwnRead, ChatReply, MessageBlack, MessageRead, StoreCount, StoreStoi,
     StoreOffl, StoreIncr
<1> QED BY <1>3, <1>4, <1>5

\* A task that goes on is where it goes, and is the only new task.
LEMMA GoesTo ==
    ASSUME NEW t, NEW step, NEW n, Goes(t, step, n)
    PROVE  /\ \A s \in tasks' : \/ s \in tasks \ {t}
                                \/ Moves(t, s) /\ s.step = step /\ s.n = n
           /\ \E s \in tasks' : Moves(t, s) /\ s.step = step /\ s.n = n
BY DEF Goes

\* Only MESSAGE moves storeMtx.
LEMMA LockTouched ==
    ASSUME TypeOK, NEW t \in tasks, TaskStep(t)
    PROVE  \/ storeMtx' = storeMtx /\ t.op # "message"
           \/ MessageBlack(t) \/ MessageRead(t) \/ StoreCount(t) \/ StoreStoi(t)
           \/ StoreOffl(t) \/ StoreIncr(t)
BY DEF TaskStep, AddIsAccount, AddIsFriend, AddLook, AddPush, VerifyFind, GrantOwn,
   GrantOther, Lrem, DeleteCheck, DeleteHistory, DeleteCount, DeleteRecords, BlackCheck,
   BlackWrite, ChatCheck, ChatTake, ChatReset, ChatFetch, ChatPush, ChatHdel, ChatOwn,
   ChatOwnRead, ChatReply, At

\* Steps of tasks keep the lock with its holder.
LEMMA LockingTask ==
    ASSUME TypeOK, Locking, ConstantsAssumption, NEW t \in tasks, TaskStep(t)
    PROVE  Locking'
<1> DEFINE Inside == {"stoi", "offl", "incr"}
           Holds(s) == s.op = "message" /\ s.step \in Inside =>
                           storeMtx' = <<s.box[2], s.id>>
<1>1. Step(t)
  BY TaskSteps
<1>2. /\ \A s \in tasks' : \/ s \in tasks \ {t}
                           \/ s.op = t.op /\ s.box = t.box /\ s.id = t.id
      /\ \A p, q \in tasks' : p \in tasks \ {t} \/ q \in tasks \ {t} \/ p = q
      /\ words' = words
  BY <1>1, TasksAfter, OneGoes DEF Moves, Step
<1>3. \A s \in tasks' : s.op = "message" => s.id < words'[s.box[2]]
  BY <1>2 DEF Locking
<1>4. \A p, q \in tasks' : p.op = "message" /\ q.op = "message" /\ p.box[2] = q.box[2]
                           /\ p.id = q.id => p = q
  BY <1>2 DEF Locking
<1>5. \A s \in tasks : s.op = "message" /\ s.step \in Inside =>
          /\ storeMtx = <<s.box[2], s.id>>
          /\ storeMtx # None
  <2>1. \A s \in tasks : s.op = "message" => s.box[2] \in Users /\ s.id \in Nat
    BY Kinds
  <2>2. \A s \in tasks : s.op = "message" /\ s.step \in Inside =>
            storeMtx = <<s.box[2], s.id>>
    BY DEF Locking
  <2> QED BY <2>1, <2>2 DEF ConstantsAssumption
<1>6. ASSUME t.op = "message", t.step \in Inside
      PROVE  \A s \in tasks \ {t} : s.op = "message" => s.step \notin Inside
  <2> SUFFICES ASSUME NEW s \in tasks \ {t}, s.op = "message", s.step \in Inside
               PROVE  FALSE
    OBVIOUS
  <2>1. <<s.box[2], s.id>> = <<t.box[2], t.id>>
    BY <1>5, <1>6
  <2> QED BY <1>6, <2>1 DEF Locking
<1>7. ASSUME storeMtx' = storeMtx,
             \A s \in tasks' : \/ s \in tasks \ {t}
                               \/ s.op = "message" /\ s.step \in Inside =>
                                      t.op = "message" /\ t.step \in Inside
      PROVE  \A s \in tasks' : Holds(s)
  BY <1>2, <1>5, <1>7
<1> HIDE DEF Inside
<1>8. \A s \in tasks' : Holds(s)
  <2>1. CASE storeMtx' = storeMtx /\ t.op # "message"
    BY <2>1, <1>2, <1>7
  <2>2. CASE MessageBlack(t)
    <3>1. storeMtx' = storeMtx /\ (Done(t) \/ Goes(t, "read", t.n) \/ Goes(t, "lock", t.n))
      BY <2>2, MessageEffects
    <3>2. \A s \in tasks' : s \in tasks \ {t} \/ s.step \in {"read", "lock"}
      BY <3>1, GoesTo DEF Done
    <3> QED BY <3>1, <3>2, <1>7 DEF Inside
  <2>3. CASE MessageRead(t)
    <3>1. storeMtx' = storeMtx /\ tasks' = tasks \ {t}
      BY <2>3, MessageEffects DEF MessageRead, Done
    <3> QED BY <3>1, <1>7
  <2>4. CASE StoreCount(t)
    <3>1. t.op = "message" /\ storeMtx = None /\ storeMtx' = <<t.box[2], t.id>>
      BY <2>4, MessageEffects
    <3>2. \A s \in tasks \ {t} : Holds(s)
      BY <3>1, <1>5
    <3> QED BY <3>1, <3>2, <1>2
  <2>5. CASE StoreStoi(t)
    <3>1. /\ t.op = "message" /\ t.step \in Inside
          /\ \/ storeMtx' = storeMtx
             \/ tasks' = tasks \ {t}
      BY <2>5, MessageEffects DEF Inside, Done
    <3>2. CASE storeMtx' = storeMtx
      BY <3>1, <3>2, <1>7
    <3>3. CASE tasks' = tasks \ {t}
      BY <3>1, <3>3, <1>6
    <3> QED BY <3>1, <3>2, <3>3
  <2>6. CASE StoreOffl(t)
    <3>1. t.op = "message" /\ t.step \in Inside /\ storeMtx' = storeMtx
      BY <2>6, MessageEffects DEF Inside
    <3> QED BY <3>1, <1>7
  <2>7. CASE StoreIncr(t)
    <3>1. t.op = "message" /\ t.step \in Inside /\ tasks' = tasks \ {t}
      BY <2>7, MessageEffects DEF Inside, Done
    <3> QED BY <3>1, <1>6
  <2> QED BY <2>1, <2>2, <2>3, <2>4, <2>5, <2>6, <2>7, LockTouched
<1> QED BY <1>3, <1>4, <1>8 DEF Locking, Inside

----------------------------------------------------------------------------
(***************************************************************************)
(* Pairs that are not torn.                                                *)
(***************************************************************************)

\* Only the pair of the task that moves has to be looked at.
LEMMA WholeStep ==
    ASSUME TypeOK, WholeInv(frie, tasks, torn), NEW t \in tasks, Step(t),
           \A b \in Boxes : PairOf(b) # PairOf(t.box) => frie'[b] = frie[b],
           PairOf(t.box) \notin torn' =>
               /\ \A b \in Boxes : PairOf(b) = PairOf(t.box) => Mutual(frie', tasks', b)
               /\ \A s \in tasks' : PairOf(s.box) = PairOf(t.box) => Held(frie', s)
    PROVE  WholeInv(frie', tasks', torn')
<1>1. /\ torn \subseteq torn'
      /\ \A s \in tasks' : \/ s \in tasks \ {t}
                           \/ PairOf(s.box) = PairOf(t.box)
      /\ tasks \ {t} \subseteq tasks'
  BY Noted, TasksAfter DEF Step, Moves
<1>2. ASSUME NEW b \in Boxes, PairOf(b) \notin torn' PROVE Mutual(frie', tasks', b)
  <2>1. CASE PairOf(b) = PairOf(t.box)
    BY <1>2, <2>1
  <2>2. CASE PairOf(b) # PairOf(t.box)
    <3>1. Mutual(frie, tasks, b)
      BY <1>1, <1>2 DEF WholeInv
    <3>2. frie'[b] = frie[b] /\ frie'[Swap(b)] = frie[Swap(b)]
      BY <2>2, TwoBoxes
    <3>3. CASE Has(frie, b) <=> Has(frie, Swap(b))
      BY <3>2, <3>3 DEF Has, Mutual
    <3>4. CASE \E s \in tasks : Halfway(s) /\ PairOf(s.box) = PairOf(b)
      BY <3>4, <2>2, <1>1 DEF Mutual
    <3> QED BY <3>1, <3>3, <3>4 DEF Mutual
  <2> QED BY <2>1, <2>2
<1>3. ASSUME NEW s \in tasks', PairOf(s.box) \notin torn' PROVE Held(frie', s)
  <2>1. CASE PairOf(s.box) = PairOf(t.box)
    BY <1>3, <2>1
  <2>2. CASE PairOf(s.box) # PairOf(t.box)
    <3>1. s \in tasks /\ Held(frie, s)
      BY <1>1, <1>3, <2>2 DEF WholeInv
    <3>2. CASE s.step = "begin"
      BY <3>2 DEF Held, Begun
    <3>3. CASE s.step # "begin"
      <4>1. s.box \in Boxes
        BY <3>1, <3>3, Kinds DEF Begun
      <4>2. frie'[s.box] = frie[s.box] /\ frie'[Swap(s.box)] = frie[Swap(s.box)]
        BY <2>2, <4>1, TwoBoxes
      <4> QED BY <3>1, <4>2 DEF Held, Has
    <3> QED BY <3>2, <3>3
  <2> QED BY <2>1, <2>2
<1> QED BY <1>2, <1>3 DEF WholeInv

\* A step that neither makes nor ends a friendship needs a look at t only.
LEMMA WholeSame ==
    ASSUME TypeOK, WholeInv(frie, tasks, torn), NEW t \in tasks, Step(t), ~Halfway(t),
           \A b \in Boxes : PairOf(b) \notin torn' => (Has(frie', b) <=> Has(frie, b)),
           \A s \in tasks' : \/ s \in tasks \ {t}
                             \/ PairOf(s.box) \notin torn' => Held(frie', s)
    PROVE  WholeInv(frie', tasks', torn')
<1>1. torn \subseteq torn' /\ tasks \ {t} \subseteq tasks'
  BY Noted, TasksAfter DEF Step
<1>2. ASSUME NEW b \in Boxes, PairOf(b) \notin torn' PROVE Mutual(frie', tasks', b)
  <2>1. Mutual(frie, tasks, b)
    BY <1>1, <1>2 DEF WholeInv
  <2>2. Swap(b) \in Boxes /\ PairOf(Swap(b)) = PairOf(b)
    BY TwoBoxes
  <2>3. (Has(frie', b) <=> Has(frie, b)) /\ (Has(frie', Swap(b)) <=> Has(frie, Swap(b)))
    BY <1>2, <2>2
  <2>4. (\E s \in tasks : Halfway(s) /\ PairOf(s.box) = PairOf(b)) =>
            \E s \in tasks' : Halfway(s) /\ PairOf(s.box) = PairOf(b)
    BY <1>1
  <2> QED BY <2>1, <2>3, <2>4 DEF Mutual
<1>3. ASSUME NEW s \in tasks', PairOf(s.box) \notin torn' PROVE Held(frie', s)
  <2>1. CASE s \in tasks \ {t} /\ s.step # "begin"
    <3>1. Held(frie, s) /\ s.box \in Boxes
      BY <1>1, <1>3, <2>1, Kinds DEF WholeInv, Begun
    <3>2. Swap(s.box) \in Boxes /\ PairOf(Swap(s.box)) = PairOf(s.box)
      BY <3>1, TwoBoxes
    <3>3. /\ Has(frie', s.box) <=> Has(frie, s.box)
          /\ Has(frie', Swap(s.box)) <=> Has(frie, Swap(s.box))
      BY <1>3, <3>1, <3>2
    <3> QED BY <3>1, <3>3 DEF Held
  <2>2. CASE s.step = "begin"
    BY <2>2 DEF Held, Begun
  <2> QED BY <1>3, <2>1, <2>2
<1> QED BY <1>2, <1>3 DEF WholeInv

\* The steps that leave all friendships alone.
LEMMA WholeQuiet ==
    ASSUME TypeOK, WholeInv(frie, tasks, torn), NEW t \in tasks, Step(t),
           frie' = frie, ~Halfway(t),
           \/ Done(t)
           \/ \E step, n : /\ Goes(t, step, n)
                           /\ PairOf(t.box) \notin torn' =>
                                 \A s : s.op = t.op /\ s.box = t.box /\ s.step = step
                                           => Held(frie, s)
    PROVE  WholeInv(frie', tasks', torn')
<1>1. CASE Done(t)
  <2>1. \A s \in tasks' : s \in tasks \ {t}
    BY <1>1 DEF Done
  <2> QED BY <2>1, WholeSame
<1>2. ASSUME NEW step, NEW n, Goes(t, step, n),
             PairOf(t.box) \notin torn' =>
                 \A s : s.op = t.op /\ s.box = t.box /\ s.step = step => Held(frie, s)
      PROVE  WholeInv(frie', tasks', torn')
  <2>1. \A s \in tasks' : \/ s \in tasks \ {t}
                          \/ PairOf(s.box) \notin torn' => Held(frie', s)
    BY <1>2, GoesTo DEF Moves
  <2> QED BY <2>1, WholeSame
<1> QED BY <1>1, <1>2

\* A record that is there is a number.
LEMMA HasNumber ==
    ASSUME TypeOK, ConstantsAssumption
    PROVE  /\ \A b \in Boxes : IsFriend(b) <=> Has(frie, b)
           /\ \A b \in Boxes : Has(frie, b) => frie[b] \in Nat
           /\ 0 # None /\ \A n \in Nat : n # None
BY DEF TypeOK, ConstantsAssumption, IsFriend, Has

\* Accepting grants both records, one after the other.
LEMMA WholeGrants ==
    ASSUME TypeOK, ConstantsAssumption, WholeInv(frie, tasks, torn), NEW t \in tasks,
           Step(t), GrantOwn(t) \/ GrantOther(t)
    PROVE  WholeInv(frie', tasks', torn')
<1> DEFINE b == t.box
<1>1. /\ b \in Boxes /\ Swap(b) \in Boxes /\ Swap(b) # b /\ Swap(Swap(b)) = b
      /\ PairOf(Swap(b)) = PairOf(b)
      /\ \A c \in Boxes : PairOf(c) = PairOf(b) <=> c = b \/ c = Swap(b)
  <2>1. b \in Boxes
    BY Kinds, AcceptEffects DEF Begun
  <2> QED BY <2>1, TwoBoxes
<1>2. \/ /\ t.op = "add" /\ t.step = "own" /\ Goes(t, "lrem", t.n)
         /\ frie' = [frie EXCEPT ![b] = 0]
      \/ /\ t.op = "yes" /\ t.step = "own" /\ Goes(t, "other", t.n)
         /\ frie' = [frie EXCEPT ![b] = 0]
      \/ /\ t.op = "add" /\ t.step = "other" /\ Goes(t, "own", t.n)
         /\ frie' = [frie EXCEPT ![Swap(b)] = 0]
      \/ /\ t.op = "yes" /\ t.step = "other" /\ Goes(t, "lrem", t.n)
         /\ frie' = [frie EXCEPT ![Swap(b)] = 0]
  BY AcceptEffects
<1> HIDE DEF b
<1>3. /\ \A c \in Boxes : c # b /\ c # Swap(b) => frie'[c] = frie[c]
      /\ \A c \in Boxes : Has(frie, c) => Has(frie', c)
  BY <1>1, <1>2, HasNumber DEF TypeOK, Has
<1>4. \A c \in Boxes : PairOf(c) # PairOf(t.box) => frie'[c] = frie[c]
  BY <1>1, <1>3 DEF b
<1>5. torn \subseteq torn' /\ t.box = b
  BY Noted DEF Step, b
<1>6. ASSUME PairOf(b) \notin torn' PROVE Held(frie, t)
  BY <1>5, <1>6 DEF WholeInv
<1>7. ASSUME PairOf(b) \notin torn'
      PROVE  \/ Has(frie', b) /\ Has(frie', Swap(b))
             \/ \E s \in tasks' : Halfway(s) /\ PairOf(s.box) = PairOf(b)
  <2>1. CASE /\ t.op = "add" /\ t.step = "own" /\ Goes(t, "lrem", t.n)
             /\ frie' = [frie EXCEPT ![b] = 0]
    <3>1. Has(frie, Swap(b))
      BY <2>1, <1>5, <1>6, <1>7 DEF Held
    <3> QED BY <2>1, <3>1, <1>1, <1>3, HasNumber DEF TypeOK, Has
  <2>2. CASE /\ t.op = "yes" /\ t.step = "own" /\ Goes(t, "other", t.n)
             /\ frie' = [frie EXCEPT ![b] = 0]
    <3>1. PICK s \in tasks' : Moves(t, s) /\ s.step = "other"
      BY <2>2, GoesTo
    <3> QED BY <2>2, <3>1, <1>5 DEF Moves, Halfway
  <2>3. CASE /\ t.op = "add" /\ t.step = "other" /\ Goes(t, "own", t.n)
             /\ frie' = [frie EXCEPT ![Swap(b)] = 0]
    <3>1. PICK s \in tasks' : Moves(t, s) /\ s.step = "own"
      BY <2>3, GoesTo
    <3> QED BY <2>3, <3>1, <1>5 DEF Moves, Halfway
  <2>4. CASE /\ t.op = "yes" /\ t.step = "other" /\ Goes(t, "lrem", t.n)
             /\ frie' = [frie EXCEPT ![Swap(b)] = 0]
    <3>1. Has(frie, b)
      BY <2>4, <1>5, <1>6, <1>7 DEF Held
    <3> QED BY <2>4, <3>1, <1>1, <1>3, HasNumber DEF TypeOK, Has
  <2> QED BY <1>2, <2>1, <2>2, <2>3, <2>4
<1>8. ASSUME PairOf(b) \notin torn', NEW s \in tasks', PairOf(s.box) = PairOf(b)
      PROVE  Held(frie', s)
  <2>1. CASE s \in tasks \ {t} /\ s.step # "begin"
    <3>1. Held(frie, s) /\ s.box \in Boxes /\ Swap(s.box) \in Boxes
      BY <1>5, <1>8, <2>1, Kinds, TwoBoxes DEF WholeInv, Begun
    <3> QED BY <3>1, <1>3 DEF Held
  <2>2. CASE s \notin tasks \ {t}
    <3>1. CASE t.op = "add" /\ Goes(t, "lrem", t.n)
      BY <2>2, <3>1, GoesTo DEF Moves, Held
    <3>2. CASE /\ t.op = "yes" /\ Goes(t, "other", t.n)
               /\ frie' = [frie EXCEPT ![b] = 0]
      <4>1. Has(frie', b)
        BY <3>2, <1>1, HasNumber DEF TypeOK, Has
      <4>2. s.op = "yes" /\ s.box = b /\ s.step = "other"
        BY <2>2, <3>2, <1>5, GoesTo DEF Moves
      <4> QED BY <4>1, <4>2 DEF Held
    <3>3. CASE /\ t.op = "add" /\ Goes(t, "own", t.n)
               /\ frie' = [frie EXCEPT ![Swap(b)] = 0]
      <4>1. Has(frie', Swap(b))
        BY <3>3, <1>1, HasNumber DEF TypeOK, Has
      <4>2. s.op = "add" /\ s.box = b /\ s.step = "own"
        BY <2>2, <3>3, <1>5, GoesTo DEF Moves
      <4> QED BY <4>1, <4>2 DEF Held
    <3>4. CASE t.op = "yes" /\ Goes(t, "lrem", t.n)
      BY <2>2, <3>4, GoesTo DEF Moves, Held
    <3> QED BY <1>2, <3>1, <3>2, <3>3, <3>4
  <2>3. CASE s.step = "begin"
    BY <2>3 DEF Held, Begun
  <2> QED BY <2>1, <2>2, <2>3
<1>9. ASSUME PairOf(b) \notin torn', NEW c \in Boxes, PairOf(c) = PairOf(b)
      PROVE  Mutual(frie', tasks', c)
  <2>1. c = b \/ c = Swap(b)
    BY <1>1, <1>9
  <2> QED BY <1>1, <1>7, <1>9, <2>1 DEF Mutual
<1> QED BY <1>4, <1>5, <1>8, <1>9, WholeStep

\* DELFRIEND ends a friendship beside nobody who relies on it.
LEMMA WholeDelete ==
    ASSUME TypeOK, ConstantsAssumption, WholeInv(frie, tasks, torn), NEW t \in tasks,
           Step(t), DeleteRecords(t)
    PROVE  WholeInv(frie', tasks', torn')
<1>1. /\ t.op = "delete" /\ t.step = "records" /\ tasks' = tasks \ {t}
      /\ frie' = [frie EXCEPT ![t.box] = None, ![Swap(t.box)] = None]
  BY DeleteEffects DEF Done
<1>2. /\ t.box \in Boxes /\ Swap(t.box) \in Boxes
      /\ PairOf(Swap(t.box)) = PairOf(t.box) /\ Swap(Swap(t.box)) = t.box
      /\ \A c \in Boxes : PairOf(c) = PairOf(t.box) <=> c = t.box \/ c = Swap(t.box)
  BY <1>1, Kinds, TwoBoxes
<1>3. /\ ~Has(frie', t.box) /\ ~Has(frie', Swap(t.box))
      /\ \A c \in Boxes : PairOf(c) # PairOf(t.box) => frie'[c] = frie[c]
  BY <1>1, <1>2 DEF TypeOK, Has
<1>4. ASSUME NEW c \in Boxes, PairOf(c) = PairOf(t.box)
      PROVE  Mutual(frie', tasks', c)
  BY <1>2, <1>3, <1>4 DEF Mutual
<1>5. ASSUME PairOf(t.box) \notin torn', NEW s \in tasks', PairOf(s.box) = PairOf(t.box)
      PROVE  Held(frie', s)
  <2>1. s.step = "begin" \/ ~Tears(s.op, t.op)
    BY <1>1, <1>5, Noted DEF Step, Begun
  <2>2. s.step = "begin" \/ s.op \notin {"delete", "chat", "add", "yes", "message"}
    BY <1>1, <2>1 DEF Tears
  <2> QED BY <2>2 DEF Held, Begun
<1> QED BY <1>3, <1>4, <1>5, WholeStep

\* CHAT and MESSAGE write records that are there.
LEMMA WholeCounts ==
    ASSUME TypeOK, ConstantsAssumption, WholeInv(frie, tasks, torn), NEW t \in tasks,
           Step(t), ChatReset(t) \/ StoreIncr(t)
    PROVE  WholeInv(frie', tasks', torn')
<1>1. PICK n \in Nat : /\ frie' = [frie EXCEPT ![t.box] = n]
                       /\ \/ t.op = "chat" /\ t.step = "reset"
                          \/ /\ t.op = "message" /\ t.step = "incr"
                             /\ tasks' = tasks \ {t}
  <2>1. t.n \in Nat /\ t.n + 1 \in Nat /\ 0 \in Nat
    BY Kinds
  <2> QED BY <2>1, ChatEffects, MessageEffects DEF Done
<1>2. t.box \in Boxes
  BY <1>1, Kinds DEF Begun
<1>3. torn \subseteq torn'
  BY Noted DEF Step
<1>4. PairOf(t.box) \notin torn' => Has(frie, t.box)
  BY <1>1, <1>3 DEF WholeInv, Held, Begun
<1>5. \A b \in Boxes : PairOf(b) \notin torn' => (Has(frie', b) <=> Has(frie, b))
  BY <1>1, <1>2, <1>4, HasNumber DEF TypeOK, Has
<1>6. ~Halfway(t)
  BY <1>1 DEF Halfway
<1>7. ASSUME NEW s \in tasks', s \notin tasks \ {t}, PairOf(s.box) \notin torn'
      PROVE  Held(frie', s)
  <2>1. s.op = t.op /\ s.box = t.box
    BY <1>7, TasksAfter DEF Moves
  <2>2. s.op = "chat"
    BY <1>1, <1>7, <2>1
  <2>3. Has(frie', s.box)
    BY <1>2, <1>4, <1>5, <1>7, <2>1
  <2> QED BY <2>2, <2>3 DEF Held
<1> QED BY <1>5, <1>6, <1>7, WholeSame

\* Steps of tasks keep untorn pairs whole.
LEMMA WholeTask ==
    ASSUME TypeOK, ConstantsAssumption, WholeInv(frie, tasks, torn), NEW t \in tasks,
           TaskStep(t)
    PROVE  WholeInv(frie', tasks', torn')
<1> DEFINE Goal == WholeInv(frie', tasks', torn')
           b == t.box
           Kept(step) == PairOf(b) \notin torn' =>
               \A s : s.op = t.op /\ s.box = t.box /\ s.step = step => Held(frie, s)
<1>1. Step(t) /\ torn \subseteq torn'
  BY TaskSteps, Noted DEF Step
<1>2. t.op # "add" \/ t.step # "begin" => t.box \in Boxes
  BY Kinds DEF Begun
<1>3. PairOf(b) \notin torn' => Held(frie, t)
  BY <1>1 DEF WholeInv
<1>4. /\ \A c \in Boxes : IsFriend(c) <=> Has(frie, c)
      /\ t.op = "message" /\ t.step \in {"read", "offl", "incr"}
         /\ ~IsFriend(t.box) => PairOf(t.box) \in torn'
  BY <1>1, HasNumber, Noted DEF Step
<1>5. ASSUME Done(t), frie' = frie, ~Halfway(t) PROVE Goal
  BY <1>1, <1>5, WholeQuiet
<1>6. ASSUME NEW step, NEW n, Goes(t, step, n), Kept(step), frie' = frie, ~Halfway(t)
      PROVE  Goal
  BY <1>1, <1>6, WholeQuiet
<1>7. \A step, n : Goes(t, step, n) /\ Kept(step) /\ frie' = frie /\ ~Halfway(t) => Goal
  BY <1>6
<1>8. /\ t.op \in {"add", "yes", "no", "black", "unblack"} =>
             /\ Kept("mine") /\ Kept("theirs") /\ Kept("look") /\ Kept("push")
             /\ t.op # "yes" => Kept("other")
             /\ t.op # "add" => Kept("own")
             /\ Kept("lrem") /\ Kept("write")
      /\ t.op = "message" =>
             /\ Kept("read") /\ Kept("lock") /\ Kept("stoi") /\ Kept("offl")
             /\ t.step = "offl" => Kept("incr")
  <2>1. t.op = "message" /\ t.step = "offl" => Kept("incr")
    BY <1>2, <1>4 DEF Held
  <2> QED BY <2>1 DEF Held
<1>9. t.op \in {"delete", "chat"} /\ (IsFriend(b) \/ Begun(t)) =>
          \A step : Kept(step)
  BY <1>2, <1>3, <1>4 DEF Held
<1> HIDE DEF Goal, Kept, b
<1>11. ASSUME AddIsAccount(t) \/ AddIsFriend(t) \/ AddLook(t) \/ AddPush(t)
       PROVE  Goal
  <2>1. /\ t.op = "add" /\ frie' = frie /\ ~Halfway(t)
        /\ \/ Done(t) \/ Goes(t, "mine", t.n) \/ Goes(t, "theirs", t.n)
           \/ Goes(t, "look", t.n) \/ Goes(t, "other", t.n) \/ Goes(t, "push", t.n)
    BY <1>11, AddEffects DEF Quiet, Halfway
  <2> QED BY <2>1, <1>5, <1>7, <1>8
<1>12. ASSUME VerifyFind(t) \/ Lrem(t)
       PROVE  Goal
  <2>1. /\ t.op \in {"add", "yes", "no"} /\ frie' = frie /\ ~Halfway(t)
        /\ \/ Done(t) \/ (t.op = "yes" /\ Goes(t, "own", t.n)) \/ Goes(t, "lrem", t.n)
    BY <1>12, AcceptEffects DEF Quiet, Halfway
  <2> QED BY <2>1, <1>5, <1>7, <1>8
<1>13. ASSUME GrantOwn(t) \/ GrantOther(t) PROVE Goal
  BY <1>1, <1>13, WholeGrants DEF Goal
<1>14. ASSUME DeleteCheck(t) \/ DeleteHistory(t) \/ DeleteCount(t)
       PROVE  Goal
  <2>1. /\ t.op = "delete" /\ frie' = frie /\ ~Halfway(t)
        /\ \/ Done(t)
           \/ /\ IsFriend(t.box) \/ Begun(t)
              /\ \E step, n : Goes(t, step, n)
    BY <1>14, DeleteEffects DEF Quiet, Halfway, Begun
  <2> QED BY <2>1, <1>5, <1>7, <1>9 DEF b
<1>15. ASSUME DeleteRecords(t) PROVE Goal
  BY <1>1, <1>15, WholeDelete DEF Goal
<1>16. ASSUME BlackCheck(t) \/ BlackWrite(t) PROVE Goal
  <2>1. /\ t.op \in {"black", "unblack"} /\ frie' = frie /\ ~Halfway(t)
        /\ Done(t) \/ Goes(t, "write", t.n)
    BY <1>16, DeleteEffects DEF Quiet, Halfway
  <2> QED BY <2>1, <1>5, <1>7, <1>8
<1>17. ASSUME \/ ChatCheck(t) \/ ChatTake(t) \/ ChatFetch(t) \/ ChatPush(t)
              \/ ChatHdel(t) \/ ChatOwn(t) \/ ChatOwnRead(t) \/ ChatReply(t)
       PROVE  Goal
  <2>1. frie' = frie
    BY <1>17, ChatEffects DEF Quiet
  <2>2. /\ t.op = "chat" /\ ~Halfway(t)
        /\ Done(t) \/ \E step, n : Goes(t, step, n)
    BY <1>17, ChatMoves DEF ChatStep, Halfway
  <2>3. Done(t) \/ IsFriend(t.box) \/ Begun(t)
    BY <1>17, ChatEffects DEF Begun
  <2> QED BY <2>1, <2>2, <2>3, <1>5, <1>7, <1>9 DEF b
<1>18. ASSUME ChatReset(t) \/ StoreIncr(t) PROVE Goal
  BY <1>1, <1>18, WholeCounts DEF Goal
<1>19. ASSUME \/ MessageBlack(t) \/ MessageRead(t) \/ StoreCount(t) \/ StoreStoi(t)
              \/ StoreOffl(t)
       PROVE  Goal
  <2>1. /\ t.op = "message" /\ frie' = frie /\ ~Halfway(t)
        /\ \/ Done(t) \/ Goes(t, "read", t.n) \/ Goes(t, "lock", t.n)
           \/ Goes(t, "stoi", t.n) \/ Goes(t, "offl", t.n)
           \/ Goes(t, "offl", frie[t.box])
           \/ (t.step = "offl" /\ Goes(t, "incr", t.n))
    BY <1>19, MessageEffects DEF Quiet, Halfway
  <2> QED BY <2>1, <1>5, <1>7, <1>8
<1>20. Goal
  BY <1>11, <1>12, <1>13, <1>14, <1>15, <1>16, <1>17, <1>18, <1>19 DEF TaskStep
<1> QED BY <1>20 DEF Goal

----------------------------------------------------------------------------
(***************************************************************************)
(* Friendship is mutual.                                                   *)
(***************************************************************************)
MutualInv ==
    /\ TypeOK
    /\ Apart(tasks, torn, crossed, met)
    /\ Locking
    /\ Asking(consent, tasks)
    /\ WholeInv(frie, tasks, torn)

\* The invariant holds at the start.
LEMMA MutualInit ==
    ASSUME ConstantsAssumption, Init PROVE MutualInv
<1>1. PICK friends \in SUBSET Pairs :
         frie = [b \in Boxes |-> IF PairOf(b) \in friends THEN 0 ELSE None]
  BY DEF Init
<1>2. ASSUME NEW b \in Boxes PROVE Has(frie, b) <=> Has(frie, Swap(b))
  BY <1>1, TwoBoxes DEF Has
<1>3. tasks = {}
  BY DEF Init
<1> QED BY <1>2, <1>3, TypeInit DEF MutualInv, Apart, Locking, Asking, WholeInv, Mutual

\* What clients do leaves alone everything but the tasks that have not begun.
LEMMA ClientsOnlyAsk ==
    ASSUME TypeOK, NEW u \in Users, ClientStep(u)
    PROVE  /\ UNCHANGED <<redis, storeMtx, history>>
           /\ consent \subseteq consent'
           /\ \/ tasks' = tasks /\ consent' = consent /\ words' = words
              \/ \E r : /\ tasks' = tasks \cup {r}
                        /\ r.step = "begin" /\ r.n = 0
                        /\ \/ /\ r.op # "message" /\ r.i = 0 /\ words' = words
                              /\ r.op \in {"add", "yes"} => r.box \in consent'
                           \/ /\ r.op = "message" /\ r.box[2] = u
                              /\ r.id = words[u] /\ consent' = consent
                              /\ words' = [words EXCEPT ![u] = @ + 1]
<1>1. ASSUME NEW op \in {"add", "yes", "no", "delete", "black", "unblack", "chat"},
             NEW v, Request(u, op, v)
      PROVE  /\ UNCHANGED <<redis, storeMtx, history, words>>
             /\ consent \subseteq consent'
             /\ \E r : /\ tasks' = tasks \cup {r}
                       /\ r.step = "begin" /\ r.n = 0
                       /\ r.op # "message" /\ r.i = 0
                       /\ r.op \in {"add", "yes"} => r.box \in consent'
  <2> DEFINE r == [op |-> op, box |-> <<u, v>>, id |-> requests[u], n |-> 0,
                   i |-> 0, step |-> "begin"]
  <2>1. /\ tasks' = tasks \cup {r}
        /\ consent' = IF op \in {"add", "yes"} THEN consent \cup {<<u, v>>} ELSE consent
        /\ UNCHANGED <<redis, storeMtx, history, words>>
    BY <1>1 DEF Request
  <2>2. r.op = op /\ r.box = <<u, v>> /\ r.n = 0 /\ r.i = 0 /\ r.step = "begin"
    OBVIOUS
  <2> HIDE DEF r
  <2> QED BY <2>1, <2>2
<1>2. ASSUME Say(u)
      PROVE  /\ UNCHANGED <<redis, storeMtx, history, consent>>
             /\ words' = [words EXCEPT ![u] = @ + 1]
             /\ \E r : /\ tasks' = tasks \cup {r}
                       /\ r.step = "begin" /\ r.n = 0
                       /\ r.op = "message" /\ r.box[2] = u /\ r.id = words[u]
  <2> DEFINE v == screen[u][2]
             r == [op |-> "message", box |-> <<v, u>>, id |-> words[u], n |-> 0,
                   step |-> "begin",
                   friends |-> IsFriend(<<u, v>>) /\ IsFriend(<<v, u>>)]
  <2>1. /\ tasks' = tasks \cup {r} /\ words' = [words EXCEPT ![u] = @ + 1]
        /\ UNCHANGED <<redis, storeMtx, history, consent>>
    BY <1>2 DEF Say
  <2>2. /\ r.op = "message" /\ r.box[2] = u /\ r.id = words[u] /\ r.n = 0
        /\ r.step = "begin"
    OBVIOUS
  <2> HIDE DEF r, v
  <2> QED BY <2>1, <2>2
<1> QED BY <1>1, <1>2, ClientSteps

\* A task that has not begun changes nothing for its pair.
LEMMA MutualClient ==
    ASSUME MutualInv, ConstantsAssumption, NEW u \in Users, ClientStep(u), TypeOK'
    PROVE  MutualInv'
<1>1. /\ UNCHANGED <<redis, storeMtx, torn, crossed, met>> /\ frie' = frie
      /\ consent \subseteq consent'
      /\ \/ tasks' = tasks /\ consent' = consent /\ words' = words
         \/ \E r : /\ tasks' = tasks \cup {r}
                   /\ r.step = "begin" /\ r.n = 0
                   /\ \/ /\ r.op # "message" /\ words' = words
                         /\ r.op \in {"add", "yes"} => r.box \in consent'
                      \/ /\ r.op = "message" /\ r.box[2] = u
                         /\ r.id = words[u] /\ consent' = consent
                         /\ words' = [words EXCEPT ![u] = @ + 1]
  BY ClientsOnlyAsk DEF MutualInv, redis, history
<1>2. /\ tasks \subseteq tasks'
      /\ \A s \in tasks' : s \in tasks \/ s.step = "begin"
  BY <1>1
<1>3. Apart(tasks', torn', crossed', met')
  BY <1>1, <1>2 DEF MutualInv, Apart, Begun
<1>4. Asking(consent', tasks')
  BY <1>1 DEF MutualInv, Asking
<1>5. WholeInv(frie', tasks', torn')
  <2>1. ASSUME NEW b \in Boxes, PairOf(b) \notin torn PROVE Mutual(frie, tasks', b)
    <3>1. Mutual(frie, tasks, b)
      BY <2>1 DEF MutualInv, WholeInv
    <3> QED BY <3>1, <1>2 DEF Mutual
  <2>2. ASSUME NEW s \in tasks', PairOf(s.box) \notin torn PROVE Held(frie, s)
    <3>1. CASE s \in tasks
      BY <2>2, <3>1 DEF MutualInv, WholeInv
    <3>2. CASE s.step = "begin"
      BY <3>2 DEF Held, Begun
    <3> QED BY <3>1, <3>2, <1>2
  <2> QED BY <2>1, <2>2, <1>1 DEF WholeInv
<1>6. Locking'
  <2>1. CASE tasks' = tasks /\ words' = words
    BY <1>1, <2>1 DEF MutualInv, Locking
  <2>2. ASSUME NEW r, tasks' = tasks \cup {r}, r.step = "begin", r.op # "message",
               words' = words
        PROVE  Locking'
    BY <1>1, <2>2 DEF MutualInv, Locking
  <2>3. ASSUME NEW r, tasks' = tasks \cup {r}, r.step = "begin", r.op = "message",
               r.box[2] = u, r.id = words[u], words' = [words EXCEPT ![u] = @ + 1]
        PROVE  Locking'
    <3>1. /\ \A v \in Users : words[v] \in Nat
          /\ words'[u] = words[u] + 1
          /\ \A v \in Users : v # u => words'[v] = words[v]
      BY <2>3 DEF MutualInv, TypeOK
    <3>2. \A s \in tasks : s.op = "message" =>
              /\ s.box[2] \in Users /\ s.id \in Nat
              /\ s.id < words[s.box[2]]
      BY Kinds DEF MutualInv, Locking
    <3>3. \A s \in tasks' : s.op = "message" => s.id < words'[s.box[2]]
      BY <2>3, <3>1, <3>2
    <3>4. \A s \in tasks : s.op = "message" /\ s.box[2] = r.box[2] => s.id # r.id
      BY <2>3, <3>1, <3>2
    <3>5. \A s, t \in tasks' :
              s.op = "message" /\ t.op = "message" /\ s.box[2] = t.box[2] /\ s.id = t.id
                  => s = t
      BY <2>3, <3>4 DEF MutualInv, Locking
    <3>6. \A s \in tasks' : s.op = "message" /\ s.step \in {"stoi", "offl", "incr"} =>
              storeMtx' = <<s.box[2], s.id>>
      BY <1>1, <2>3 DEF MutualInv, Locking
    <3> QED BY <3>3, <3>5, <3>6 DEF Locking
  <2> QED BY <1>1, <2>1, <2>2, <2>3
<1> QED BY <1>3, <1>4, <1>5, <1>6 DEF MutualInv

\* A restart tears the pairs whose tasks it cuts off.
LEMMA MutualRestart ==
    ASSUME MutualInv, ConstantsAssumption, Restart, TypeOK'
    PROVE  MutualInv'
<1>1. /\ tasks' = {} /\ frie' = frie
      /\ torn' = torn \cup {PairOf(t.box) : t \in tasks}
  BY DEF Restart, redis
<1>2. ASSUME NEW b \in Boxes, PairOf(b) \notin torn' PROVE Mutual(frie', tasks', b)
  <2>1. Mutual(frie, tasks, b)
    BY <1>1, <1>2 DEF MutualInv, WholeInv
  <2>2. ~\E t \in tasks : PairOf(t.box) = PairOf(b)
    BY <1>1, <1>2
  <2> QED BY <1>1, <2>1, <2>2 DEF Mutual
<1> QED BY <1>1, <1>2 DEF MutualInv, Apart, Locking, Asking, WholeInv

\* Every step keeps the invariant.
LEMMA MutualStep ==
    ASSUME MutualInv, ConstantsAssumption, [Next]_vars PROVE MutualInv'
<1>1. TypeOK'
  BY TypeStep DEF MutualInv
<1>2. CASE UNCHANGED vars
  BY <1>1, <1>2 DEF vars, redis, clients, MutualInv, Locking
<1>3. ASSUME NEW u \in Users, ClientStep(u) PROVE MutualInv'
  BY <1>1, <1>3, MutualClient
<1>4. ASSUME NEW t \in tasks, TaskStep(t) PROVE MutualInv'
  BY <1>1, <1>4, TaskSteps, ApartTask, LockingTask, AskingTask, WholeTask DEF MutualInv
<1>5. CASE Restart
  BY <1>1, <1>5, MutualRestart
<1> QED BY <1>2, <1>3, <1>4, <1>5 DEF Next

\* At rest, nobody is a friend of who is not his: a pair without tasks that no
\* DELFRIEND and no restart has torn has both records or none.
THEOREM Mutuality == Spec => []FriendshipIsMutual
<1>1. MutualInv => FriendshipIsMutual
  <2> SUFFICES ASSUME MutualInv, NEW b \in Boxes, Undisturbed(b)
               PROVE  IsFriend(b) <=> IsFriend(Swap(b))
    BY DEF FriendshipIsMutual
  <2>1. PairOf(b) \notin torn /\ \A t \in tasks : PairOf(t.box) # PairOf(b)
    BY DEF Undisturbed, Settled
  <2>2. Mutual(frie, tasks, b)
    BY <2>1 DEF MutualInv, WholeInv
  <2> QED BY <2>1, <2>2, TwoBoxes DEF Mutual, Has, IsFriend
<1>2. Init => MutualInv
  BY MutualInit, ConstantsAssumption
<1>3. MutualInv /\ [Next]_vars => MutualInv'
  BY MutualStep, ConstantsAssumption
<1> QED BY <1>1, <1>2, <1>3, PTL DEF Spec

----------------------------------------------------------------------------
(***************************************************************************)
(* Pairs that are neither torn nor crossed.                                *)
(***************************************************************************)
\* What the invariant says of a box, and of a task.
BoxSound(E, F, M, O, H, C, T, b) ==
    Requested(F, M, C, T, b) /\ Agreed(F, C, b) /\ Filed(E, F, O, H, T, b)
TaskSound(E, F, M, O, H, C, s) ==
    Strangers(F, M, C, s) /\ Deleting(E, F, O, H, s) /\ Counting(E, F, O, s)

\* t is a task other facts rely on: those about the messages of a box, or any.
Needed(t) ==
    \/ t.op = "message" /\ t.step = "incr"
    \/ Fetching(t)
    \/ t.op = "delete" /\ t.step = "records"
Relied(t) == Accepting(t) \/ Needed(t)

\* The sets of tasks may differ in what nothing relies on.
LEMMA FiledOn ==
    ASSUME NEW E, NEW F, NEW O, NEW H, NEW T, NEW U, NEW b, Filed(E, F, O, H, T, b),
           PairOf(b) \notin E => \A s \in T : s.box = b /\ Needed(s) => s \in U
    PROVE  Filed(E, F, O, H, U, b)
<1> SUFFICES ASSUME PairOf(b) \notin E
             PROVE  Filed(E, F, O, H, U, b)
  BY DEF Filed
<1>1. \A k : (\E s \in T : Covers(s, b, k)) => \E s \in U : Covers(s, b, k)
  BY DEF Covers, Needed
<1>2. (\E s \in T : Clears(s, b)) => \E s \in U : Clears(s, b)
  BY DEF Clears, Needed
<1> QED BY <1>1, <1>2 DEF Filed, Counted, Dense

LEMMA ReliedOn ==
    ASSUME NEW E, NEW F, NEW M, NEW O, NEW H, NEW C, NEW T, NEW U, NEW b,
           \A s \in T : s.box = b /\ Relied(s) => s \in U
    PROVE  /\ Requested(F, M, C, T, b) => Requested(F, M, C, U, b)
           /\ Filed(E, F, O, H, T, b) => Filed(E, F, O, H, U, b)
<1>1. Requested(F, M, C, T, b) => Requested(F, M, C, U, b)
  BY DEF Requested, Relied
<1>2. \A s \in T : s.box = b /\ Needed(s) => s \in U
  BY DEF Relied
<1> QED BY <1>1, <1>2, FiledOn

\* A task that has not begun has found out nothing.
LEMMA NotBegun ==
    ASSUME NEW E, NEW F, NEW M, NEW O, NEW H, NEW C, NEW s, s.step = "begin",
           PairOf(s.box) \notin E => /\ s.op = "message" => s.n = 0
                                     /\ s.op = "chat" => s.i = 0
    PROVE  TaskSound(E, F, M, O, H, C, s)
BY DEF TaskSound, Strangers, Deleting, Counting, Fetching, Accepting

\* Neither has it if anything else changes.
LEMMA StillNotBegun ==
    ASSUME NEW E, NEW F, NEW M, NEW O, NEW H, NEW C, NEW s, s.step = "begin",
           TaskSound(E, F, M, O, H, C, s),
           NEW G, NEW N, NEW P, NEW I, NEW D
    PROVE  TaskSound(E, G, N, P, I, D, s)
<1>1. PairOf(s.box) \notin E => /\ s.op = "message" => s.n = 0
                                /\ s.op = "chat" => s.i = 0
  BY DEF TaskSound, Counting
<1> QED BY <1>1, NotBegun

\* What the invariant says of a box and of a task that has begun depends on
\* what there is of their pair alone.
LEMMA SameBox ==
    ASSUME NEW E, NEW F, NEW O, NEW H, NEW T, NEW G, NEW P, NEW I, NEW b,
           G[b] = F[b], G[Swap(b)] = F[Swap(b)], UnreadOf(P, b) = UnreadOf(O, b),
           PairOf(b) \in I => PairOf(b) \in H, Filed(E, F, O, H, T, b)
    PROVE  Filed(E, G, P, I, T, b)
BY DEF Filed, Counted, Dense, Has

LEMMA SameTask ==
    ASSUME NEW E, NEW F, NEW O, NEW H, NEW G, NEW P, NEW I, NEW s,
           G[s.box] = F[s.box], G[Swap(s.box)] = F[Swap(s.box)],
           UnreadOf(P, s.box) = UnreadOf(O, s.box),
           PairOf(s.box) \in I => PairOf(s.box) \in H,
           Deleting(E, F, O, H, s), Counting(E, F, O, s)
    PROVE  Deleting(E, G, P, I, s) /\ Counting(E, G, P, s)
BY DEF Deleting, Counting, Has

\* A task that asks, accepts or handles a list: it counts no messages.
LEMMA NotCounting ==
    ASSUME NEW E, NEW F, NEW O, NEW H, NEW s, s.op \notin {"delete", "chat", "message"}
    PROVE  Deleting(E, F, O, H, s) /\ Counting(E, F, O, s)
BY DEF Deleting, Counting, Fetching

\* A stored message is unread in the box it is in.
LEMMA MessageIs ==
    ASSUME TypeOK, NEW b \in Boxes
    PROVE  /\ \A k : Message(b, k) \in offl => Message(b, k) \in UnreadOf(offl, b)
           /\ \A o \in UnreadOf(offl, b) : o[3] \in Nat /\ o = Message(b, o[3])
           /\ \A k : Message(b, k)[3] = k
<1>1. b = <<b[1], b[2]>>
  BY DEF Boxes
<1>2. \A k : Message(b, k) \in offl => Message(b, k) \in UnreadOf(offl, b)
  BY <1>1 DEF Message, UnreadOf
<1>3. ASSUME NEW o \in UnreadOf(offl, b) PROVE o[3] \in Nat /\ o = Message(b, o[3])
  <2>1. o \in Users \X Users \X Nat /\ <<o[1], o[2]>> = b
    BY DEF TypeOK, UnreadOf
  <2>2. o = <<o[1], o[2], o[3]>> /\ o[3] \in Nat
    BY <2>1
  <2>3. o[1] = b[1] /\ o[2] = b[2]
    BY <2>1
  <2> QED BY <2>2, <2>3 DEF Message
<1>4. \A k : Message(b, k)[3] = k
  BY DEF Message
<1> QED BY <1>2, <1>3, <1>4

\* Only the pair of the task that moves has to be looked at.
LEMMA CleanStep ==
    ASSUME TypeOK, CleanInv(frie, mess, offl, hist, consent, tasks, torn, crossed, met'),
           NEW t \in tasks, Step(t),
           \A b \in Boxes : PairOf(b) # PairOf(t.box) =>
               /\ frie'[b] = frie[b]
               /\ b \in mess' <=> b \in mess
               /\ UnreadOf(offl', b) = UnreadOf(offl, b)
               /\ PairOf(b) \in hist' <=> PairOf(b) \in hist
               /\ b \in consent => b \in consent',
           PairOf(t.box) \notin torn' \cup crossed' =>
               /\ \A b \in Boxes : PairOf(b) = PairOf(t.box) =>
                     BoxSound(met', frie', mess', offl', hist', consent', tasks', b)
               /\ \A s \in tasks' : PairOf(s.box) = PairOf(t.box) =>
                     TaskSound(met', frie', mess', offl', hist', consent', s)
    PROVE  CleanInv(frie', mess', offl', hist', consent', tasks', torn', crossed', met')
<1>1. /\ torn \subseteq torn' /\ crossed \subseteq crossed'
      /\ \A s \in tasks' : \/ s \in tasks \ {t}
                           \/ PairOf(s.box) = PairOf(t.box)
      /\ tasks \ {t} \subseteq tasks'
  BY Noted, TasksAfter DEF Step, Moves
<1>2. ASSUME NEW b \in Boxes, PairOf(b) \notin torn' \cup crossed'
      PROVE  BoxSound(met', frie', mess', offl', hist', consent', tasks', b)
  <2>1. CASE PairOf(b) = PairOf(t.box)
    BY <1>2, <2>1
  <2>2. CASE PairOf(b) # PairOf(t.box)
    <3>1. BoxSound(met', frie, mess, offl, hist, consent, tasks, b)
      BY <1>1, <1>2 DEF CleanInv, BoxSound
    <3>2. Swap(b) \in Boxes /\ PairOf(Swap(b)) = PairOf(b)
      BY TwoBoxes
    <3>3. /\ frie'[b] = frie[b] /\ frie'[Swap(b)] = frie[Swap(b)]
          /\ b \in mess' <=> b \in mess
          /\ Swap(b) \in mess' <=> Swap(b) \in mess
          /\ UnreadOf(offl', b) = UnreadOf(offl, b)
          /\ PairOf(b) \in hist' <=> PairOf(b) \in hist
          /\ b \in consent => b \in consent'
          /\ Swap(b) \in consent => Swap(b) \in consent'
      BY <2>2, <3>2
    <3>4. \A s \in tasks : s.box = b => s \in tasks'
      BY <1>1, <2>2
    <3>5. Requested(frie', mess', consent', tasks', b)
      BY <3>1, <3>3, <3>4 DEF BoxSound, Requested, Has
    <3>6. Agreed(frie', consent', b)
      BY <3>1, <3>3 DEF BoxSound, Agreed, Has
    <3>7. Filed(met', frie', offl', hist', tasks, b)
      BY <3>1, <3>3, SameBox DEF BoxSound
    <3>8. Filed(met', frie', offl', hist', tasks', b)
      BY <3>4, <3>7, ReliedOn
    <3> QED BY <3>5, <3>6, <3>8 DEF BoxSound
  <2> QED BY <2>1, <2>2
<1>3. ASSUME NEW s \in tasks', PairOf(s.box) \notin torn' \cup crossed'
      PROVE  TaskSound(met', frie', mess', offl', hist', consent', s)
  <2>1. CASE PairOf(s.box) = PairOf(t.box)
    BY <1>3, <2>1
  <2>2. CASE PairOf(s.box) # PairOf(t.box)
    <3>1. s \in tasks /\ TaskSound(met', frie, mess, offl, hist, consent, s)
      BY <1>1, <1>3, <2>2 DEF CleanInv, TaskSound
    <3>2. CASE s.step = "begin"
      BY <3>1, <3>2, StillNotBegun
    <3>3. CASE s.step # "begin"
      <4>1. s.box \in Boxes
        BY <3>1, <3>3, Kinds DEF Begun
      <4>2. Swap(s.box) \in Boxes /\ PairOf(Swap(s.box)) = PairOf(s.box)
        BY <4>1, TwoBoxes
      <4>3. /\ frie'[s.box] = frie[s.box] /\ frie'[Swap(s.box)] = frie[Swap(s.box)]
            /\ s.box \in mess' <=> s.box \in mess
            /\ Swap(s.box) \in mess' <=> Swap(s.box) \in mess
            /\ UnreadOf(offl', s.box) = UnreadOf(offl, s.box)
            /\ PairOf(s.box) \in hist' <=> PairOf(s.box) \in hist
            /\ Swap(s.box) \in consent => Swap(s.box) \in consent'
        BY <2>2, <4>1, <4>2
      <4>4. Strangers(frie', mess', consent', s)
        BY <3>1, <4>3 DEF TaskSound, Strangers, Has
      <4>5. Deleting(met', frie', offl', hist', s) /\ Counting(met', frie', offl', s)
        <5>1. Deleting(met', frie, offl, hist, s) /\ Counting(met', frie, offl, s)
          BY <3>1 DEF TaskSound
        <5> QED BY <4>3, <5>1, SameTask
      <4> QED BY <4>4, <4>5 DEF TaskSound
    <3> QED BY <3>2, <3>3
  <2> QED BY <2>1, <2>2
<1> QED BY <1>2, <1>3 DEF CleanInv, BoxSound, TaskSound

\* What is known when a task moves in a pair that stays clean.
LEMMA CleanFacts ==
    ASSUME MutualInv, CleanInv(frie, mess, offl, hist, consent, tasks, torn, crossed, met'),
           NEW t \in tasks, Step(t), t.box \in Boxes,
           PairOf(t.box) \notin torn' \cup crossed'
    PROVE  /\ \A b \in Boxes : PairOf(b) = PairOf(t.box) =>
                 /\ BoxSound(met', frie, mess, offl, hist, consent, tasks, b)
                 /\ Mutual(frie, tasks, b)
           /\ TaskSound(met', frie, mess, offl, hist, consent, t) /\ Held(frie, t)
           /\ \A s \in tasks \ {t} : PairOf(s.box) = PairOf(t.box) =>
                 /\ TaskSound(met', frie, mess, offl, hist, consent, s)
                 /\ Held(frie, s)
                 /\ Begun(s) =>
                       /\ ~Tears(s.op, t.op) /\ ~Crosses(s.op, t.op)
                       /\ PairOf(t.box) \notin met' => ~Meets(s.op, t.op)
                       /\ s.box = t.box \/ s.box = Swap(t.box)
           /\ t.op = "message" /\ t.step \in {"read", "offl", "incr"} =>
                 Has(frie, t.box)
<1>1. /\ torn \subseteq torn' /\ crossed \subseteq crossed'
      /\ \A s \in tasks \ {t} :
            Begun(s) /\ PairOf(s.box) = PairOf(t.box) =>
                /\ Tears(s.op, t.op) => PairOf(t.box) \in torn'
                /\ Crosses(s.op, t.op) => PairOf(t.box) \in crossed'
                /\ Meets(s.op, t.op) => PairOf(t.box) \in met'
      /\ t.op = "message" /\ t.step \in {"read", "offl", "incr"}
         /\ ~IsFriend(t.box) => PairOf(t.box) \in torn'
  BY Noted DEF Step
<1>2. PairOf(t.box) \notin torn /\ PairOf(t.box) \notin crossed
  BY <1>1
<1>3. \A b \in Boxes : PairOf(b) = PairOf(t.box) =>
          /\ BoxSound(met', frie, mess, offl, hist, consent, tasks, b)
          /\ Mutual(frie, tasks, b)
  BY <1>2 DEF CleanInv, BoxSound, MutualInv, WholeInv
<1>4. \A s \in tasks : PairOf(s.box) = PairOf(t.box) =>
          TaskSound(met', frie, mess, offl, hist, consent, s) /\ Held(frie, s)
  BY <1>2 DEF CleanInv, TaskSound, MutualInv, WholeInv
<1>5. \A s \in tasks : Begun(s) /\ PairOf(s.box) = PairOf(t.box) =>
          s.box = t.box \/ s.box = Swap(t.box)
  BY Kinds, TwoBoxes DEF MutualInv
<1>6. t.op = "message" /\ t.step \in {"read", "offl", "incr"} => Has(frie, t.box)
  BY <1>1 DEF IsFriend, Has
<1> QED BY <1>1, <1>3, <1>4, <1>5, <1>6

\* The steps that only look: what t has found out is all there is to show.
LEMMA CleanQuiet ==
    ASSUME MutualInv, CleanInv(frie, mess, offl, hist, consent, tasks, torn, crossed, met'),
           NEW t \in tasks, Step(t), Quiet, ~Relied(t),
           \/ Done(t)
           \/ \E r : /\ Moves(t, r) /\ tasks' = (tasks \ {t}) \cup {r}
                     /\ PairOf(t.box) \notin torn' \cup crossed' =>
                           TaskSound(met', frie, mess, offl, hist, consent, r)
    PROVE  CleanInv(frie', mess', offl', hist', consent', tasks', torn', crossed', met')
<1>1. /\ torn \subseteq torn' /\ crossed \subseteq crossed'
      /\ tasks \ {t} \subseteq tasks'
      /\ frie' = frie /\ mess' = mess /\ offl' = offl /\ hist' = hist
      /\ consent' = consent
  BY Noted, TasksAfter DEF Step, MutualInv, Quiet
<1>2. ASSUME NEW b \in Boxes, PairOf(b) \notin torn' \cup crossed'
      PROVE  BoxSound(met', frie, mess, offl, hist, consent, tasks', b)
  <2>1. BoxSound(met', frie, mess, offl, hist, consent, tasks, b)
    BY <1>1, <1>2 DEF CleanInv, BoxSound
  <2>2. \A s \in tasks : s.box = b /\ Relied(s) => s \in tasks'
    BY <1>1
  <2>3. Requested(frie, mess, consent, tasks', b) /\ Filed(met', frie, offl, hist, tasks', b)
    BY <2>1, <2>2, ReliedOn DEF BoxSound
  <2> QED BY <2>1, <2>3 DEF BoxSound
<1>3. ASSUME NEW s \in tasks', PairOf(s.box) \notin torn' \cup crossed'
      PROVE  TaskSound(met', frie, mess, offl, hist, consent, s)
  <2>1. CASE s \in tasks
    BY <1>1, <1>3, <2>1 DEF CleanInv, TaskSound
  <2>2. CASE s \notin tasks
    <3>1. PICK r : /\ Moves(t, r) /\ tasks' = (tasks \ {t}) \cup {r}
                   /\ PairOf(t.box) \notin torn' \cup crossed' =>
                         TaskSound(met', frie, mess, offl, hist, consent, r)
      BY <1>3, <2>2 DEF Done
    <3>2. s = r /\ s.box = t.box
      BY <1>3, <2>2, <3>1 DEF Moves
    <3> QED BY <1>3, <3>1, <3>2
  <2> QED BY <2>1, <2>2
<1> QED BY <1>1, <1>2, <1>3 DEF CleanInv, BoxSound, TaskSound

\* The same of a task of which only the step and the number matter.
LEMMA CleanGoes ==
    ASSUME MutualInv, CleanInv(frie, mess, offl, hist, consent, tasks, torn, crossed, met'),
           NEW t \in tasks, Step(t), Quiet, ~Relied(t), NEW step, NEW n, Goes(t, step, n),
           PairOf(t.box) \notin torn' \cup crossed' =>
               \A s : s.op = t.op /\ s.box = t.box /\ s.step = step /\ s.n = n =>
                          TaskSound(met', frie, mess, offl, hist, consent, s)
    PROVE  CleanInv(frie', mess', offl', hist', consent', tasks', torn', crossed', met')
<1>1. PICK r : /\ Moves(t, r) /\ r.step = step /\ r.n = n
               /\ tasks' = (tasks \ {t}) \cup {r}
  BY DEF Goes
<1>2. PairOf(t.box) \notin torn' \cup crossed' =>
          TaskSound(met', frie, mess, offl, hist, consent, r)
  BY <1>1 DEF Moves
<1> QED BY <1>1, <1>2, CleanQuiet

\* Two records of which neither is being written alone agree.
LEMMA Agree ==
    ASSUME MutualInv, CleanInv(frie, mess, offl, hist, consent, tasks, torn, crossed, met'),
           NEW t \in tasks, Step(t), t.box \in Boxes, t.op \in {"add", "yes"},
           ~Halfway(t), PairOf(t.box) \notin torn' \cup crossed'
    PROVE  Has(frie, t.box) <=> Has(frie, Swap(t.box))
<1>1. Mutual(frie, tasks, t.box)
  BY CleanFacts
<1>2. ASSUME NEW s \in tasks, Halfway(s), PairOf(s.box) = PairOf(t.box) PROVE FALSE
  <2>1. s \in tasks \ {t} /\ Begun(s) /\ s.op \in {"add", "yes"}
    BY <1>2 DEF Halfway, Begun
  <2>2. ~Crosses(s.op, t.op)
    BY <1>2, <2>1, CleanFacts
  <2> QED BY <2>1, <2>2 DEF Crosses
<1> QED BY <1>1, <1>2 DEF Mutual

\* ADD and VERIFY up to what they write.
LEMMA CleanAsks ==
    ASSUME MutualInv, ConstantsAssumption,
           CleanInv(frie, mess, offl, hist, consent, tasks, torn, crossed, met'),
           NEW t \in tasks, Step(t),
           AddIsAccount(t) \/ AddIsFriend(t) \/ AddLook(t) \/ VerifyFind(t)
    PROVE  CleanInv(frie', mess', offl', hist', consent', tasks', torn', crossed', met')
<1> DEFINE Sound(s) == TaskSound(met', frie, mess, offl, hist, consent, s)
           Known(step, n) == PairOf(t.box) \notin torn' \cup crossed' =>
               \A s : s.op = t.op /\ s.box = t.box /\ s.step = step /\ s.n = n => Sound(s)
<1>1. TypeOK
  BY DEF MutualInv
<1>2. /\ Quiet /\ ~Accepting(t) /\ t.op \in {"add", "yes", "no"} /\ ~Halfway(t)
      /\ \/ Done(t)
         \/ t.op = "add" /\ (Goes(t, "mine", t.n) \/ Goes(t, "theirs", t.n))
         \/ /\ t.op = "add" /\ Goes(t, "look", t.n)
            /\ t.step \in {"mine", "theirs"}
            /\ ~IsFriend(t.box) \/ ~IsFriend(Swap(t.box))
         \/ t.op = "add" /\ t.step = "look" /\ t.box \in mess /\ Goes(t, "other", t.n)
         \/ t.op = "add" /\ t.step = "look" /\ t.box \notin mess /\ Goes(t, "push", t.n)
         \/ t.op = "yes" /\ t.step = "begin" /\ t.box \in mess /\ Goes(t, "own", t.n)
         \/ t.op = "no" /\ Goes(t, "lrem", t.n)
  <2>1. /\ AddIsAccount(t) \/ AddIsFriend(t) \/ AddLook(t) => Quiet /\ t.op = "add"
        /\ VerifyFind(t) => Quiet /\ t.op \in {"yes", "no"}
        /\ t.step \in {"begin", "mine", "theirs", "look"}
    BY <1>1, AddEffects, AcceptEffects
  <2>2. ~Accepting(t) /\ ~Halfway(t)
    BY <2>1 DEF Accepting, Halfway
  <2>3. CASE AddIsAccount(t) \/ AddLook(t)
    BY <1>1, <2>1, <2>2, <2>3, AddEffects
  <2>4. CASE AddIsFriend(t)
    BY <1>1, <2>1, <2>2, <2>4, AddEffects
  <2>5. CASE VerifyFind(t)
    BY <1>1, <2>1, <2>2, <2>5, AcceptEffects
  <2> QED BY <2>3, <2>4, <2>5
<1>3. ~Relied(t)
  BY <1>2 DEF Relied, Needed, Fetching
<1>4. ASSUME Done(t)
      PROVE  CleanInv(frie', mess', offl', hist', consent', tasks', torn', crossed', met')
  BY <1>2, <1>3, <1>4, CleanQuiet
<1>5. ASSUME NEW step, NEW n, Goes(t, step, n), Known(step, n)
      PROVE  CleanInv(frie', mess', offl', hist', consent', tasks', torn', crossed', met')
  BY <1>2, <1>3, <1>5, CleanGoes
<1>6. CASE t.op = "add" /\ (Goes(t, "mine", t.n) \/ Goes(t, "theirs", t.n))
  <2>1. Known("mine", t.n) /\ Known("theirs", t.n)
    BY <1>6 DEF TaskSound, Strangers, Deleting, Counting, Fetching, Accepting
  <2> QED BY <1>5, <1>6, <2>1
<1>7. CASE /\ t.op = "add" /\ Goes(t, "look", t.n)
           /\ t.step \in {"mine", "theirs"}
           /\ ~IsFriend(t.box) \/ ~IsFriend(Swap(t.box))
  <2>1. ASSUME PairOf(t.box) \notin torn' \cup crossed'
        PROVE  ~Has(frie, t.box) /\ ~Has(frie, Swap(t.box))
    <3>1. t.box \in Boxes /\ Swap(t.box) \in Boxes
      BY <1>1, <1>7, Kinds, TwoBoxes DEF Begun
    <3>2. Has(frie, t.box) <=> Has(frie, Swap(t.box))
      BY <1>2, <1>7, <2>1, <3>1, Agree
    <3> QED BY <1>1, <1>7, <3>1, <3>2, HasNumber
  <2>2. Known("look", t.n)
    BY <1>7, <2>1 DEF TaskSound, Strangers, Deleting, Counting, Fetching, Accepting
  <2> QED BY <1>5, <1>7, <2>2
<1>8. CASE t.op = "add" /\ t.step = "look" /\ t.box \in mess /\ Goes(t, "other", t.n)
  <2>1. ASSUME PairOf(t.box) \notin torn' \cup crossed'
        PROVE  /\ ~Has(frie, t.box) /\ ~Has(frie, Swap(t.box))
               /\ Swap(t.box) \notin mess /\ Swap(t.box) \in consent
    <3>1. t.box \in Boxes
      BY <1>1, <1>8, Kinds DEF Begun
    <3>2. /\ TaskSound(met', frie, mess, offl, hist, consent, t)
          /\ BoxSound(met', frie, mess, offl, hist, consent, tasks, t.box)
      BY <2>1, <3>1, CleanFacts
    <3> QED BY <1>8, <3>2 DEF TaskSound, Strangers, BoxSound, Requested
  <2>2. Known("other", t.n)
    BY <1>8, <2>1 DEF TaskSound, Strangers, Deleting, Counting, Fetching
  <2> QED BY <1>5, <1>8, <2>2
<1>9. CASE t.op = "add" /\ t.step = "look" /\ t.box \notin mess /\ Goes(t, "push", t.n)
  <2>1. ASSUME PairOf(t.box) \notin torn' \cup crossed'
        PROVE  ~Has(frie, t.box) /\ ~Has(frie, Swap(t.box))
    <3>1. t.box \in Boxes
      BY <1>1, <1>9, Kinds DEF Begun
    <3>2. TaskSound(met', frie, mess, offl, hist, consent, t)
      BY <2>1, <3>1, CleanFacts
    <3> QED BY <1>9, <3>2 DEF TaskSound, Strangers
  <2>2. Known("push", t.n)
    BY <1>9, <2>1 DEF TaskSound, Strangers, Deleting, Counting, Fetching, Accepting
  <2> QED BY <1>5, <1>9, <2>2
<1>10. CASE t.op = "yes" /\ t.step = "begin" /\ t.box \in mess /\ Goes(t, "own", t.n)
  <2>1. ASSUME PairOf(t.box) \notin torn' \cup crossed'
        PROVE  /\ ~Has(frie, t.box) /\ ~Has(frie, Swap(t.box))
               /\ Swap(t.box) \notin mess /\ Swap(t.box) \in consent
    <3>1. t.box \in Boxes
      BY <1>1, <1>10, Kinds
    <3>2. BoxSound(met', frie, mess, offl, hist, consent, tasks, t.box)
      BY <2>1, <3>1, CleanFacts
    <3>3. ASSUME NEW s \in tasks, Accepting(s), s.box = t.box PROVE FALSE
      <4>1. s \in tasks \ {t} /\ Begun(s) /\ s.op \in {"add", "yes"}
        BY <1>10, <3>3 DEF Accepting, Begun
      <4>2. ~Crosses(s.op, t.op)
        BY <2>1, <3>1, <3>3, <4>1, CleanFacts
      <4> QED BY <1>10, <4>1, <4>2 DEF Crosses
    <3>4. ~Has(frie, t.box) /\ Swap(t.box) \notin mess /\ Swap(t.box) \in consent
      BY <1>10, <3>2, <3>3 DEF BoxSound, Requested
    <3>5. Has(frie, t.box) <=> Has(frie, Swap(t.box))
      BY <1>2, <1>10, <2>1, <3>1, Agree
    <3> QED BY <3>4, <3>5
  <2>2. Known("own", t.n)
    BY <1>10, <2>1 DEF TaskSound, Strangers, Deleting, Counting, Fetching
  <2> QED BY <1>5, <1>10, <2>2
<1>11. CASE t.op = "no" /\ Goes(t, "lrem", t.n)
  <2>1. Known("lrem", t.n)
    BY <1>11 DEF TaskSound, Strangers, Deleting, Counting, Fetching, Accepting
  <2> QED BY <1>5, <1>11, <2>1
<1> QED BY <1>2, <1>4, <1>6, <1>7, <1>8, <1>9, <1>10, <1>11

\* DELFRIEND, BLACK and MESSAGE where they only look.
LEMMA CleanLooks ==
    ASSUME MutualInv, ConstantsAssumption,
           CleanInv(frie, mess, offl, hist, consent, tasks, torn, crossed, met'),
           NEW t \in tasks, Step(t),
           \/ DeleteCheck(t) \/ BlackCheck(t) \/ BlackWrite(t)
           \/ DeleteCount(t) /\ t.step = "count1"
           \/ MessageBlack(t) \/ StoreCount(t) \/ StoreStoi(t)
    PROVE  CleanInv(frie', mess', offl', hist', consent', tasks', torn', crossed', met')
<1> DEFINE Goal == CleanInv(frie', mess', offl', hist', consent', tasks', torn', crossed', met')
           Known(step, n) == PairOf(t.box) \notin torn' \cup crossed' =>
               \A s : s.op = t.op /\ s.box = t.box /\ s.step = step /\ s.n = n =>
                          TaskSound(met', frie, mess, offl, hist, consent, s)
<1>1. TypeOK
  BY DEF MutualInv
<1>2. /\ Quiet /\ t.op \in {"delete", "black", "unblack", "message"}
      /\ \/ Done(t)
         \/ t.op = "delete" /\ Goes(t, "hist", t.n)
         \/ t.op = "delete" /\ t.step = "count1" /\ Goes(t, "count2", frie[t.box])
         \/ t.op \in {"black", "unblack"} /\ Goes(t, "write", t.n)
         \/ /\ t.op = "message" /\ t.step \in {"begin", "lock"}
            /\ Goes(t, "read", t.n) \/ Goes(t, "lock", t.n) \/ Goes(t, "stoi", t.n)
         \/ /\ t.op = "message" /\ t.step = "lock" /\ ~IsFriend(t.box)
            /\ Goes(t, "offl", t.n)
         \/ t.op = "message" /\ IsFriend(t.box) /\ Goes(t, "offl", frie[t.box])
  <2>1. CASE DeleteCheck(t) \/ BlackCheck(t) \/ BlackWrite(t)
    BY <1>1, <2>1, DeleteEffects
  <2>2. CASE DeleteCount(t) /\ t.step = "count1"
    BY <1>1, <2>2, DeleteEffects DEF Quiet
  <2>3. CASE MessageBlack(t)
    BY <1>1, <2>3, MessageEffects
  <2>4. CASE StoreCount(t)
    BY <1>1, <2>4, MessageEffects
  <2>5. CASE StoreStoi(t)
    BY <1>1, <2>5, MessageEffects
  <2> QED BY <2>1, <2>2, <2>3, <2>4, <2>5
<1>3. t.step \notin {"incr", "records"}
  BY DEF DeleteCheck, BlackCheck, BlackWrite, MessageBlack, StoreCount, StoreStoi, At
<1>4. ~Relied(t)
  BY <1>2, <1>3 DEF Relied, Needed, Accepting, Fetching
<1>5. ASSUME Done(t) PROVE Goal
  BY <1>2, <1>4, <1>5, CleanQuiet
<1>6. ASSUME NEW step, NEW n, Goes(t, step, n), Known(step, n) PROVE Goal
  BY <1>2, <1>4, <1>6, CleanGoes
<1>7. t.box \in Boxes
  BY <1>1, <1>2, Kinds
<1>8. ASSUME PairOf(t.box) \notin torn' \cup crossed'
      PROVE  /\ TaskSound(met', frie, mess, offl, hist, consent, t)
             /\ Held(frie, t)
             /\ BoxSound(met', frie, mess, offl, hist, consent, tasks, t.box)
  BY <1>7, <1>8, CleanFacts
<1>9. /\ IsFriend(t.box) <=> Has(frie, t.box)
      /\ Has(frie, t.box) => frie[t.box] \in Nat
  BY <1>1, <1>7, HasNumber
<1>10. /\ t.op = "delete" => Known("hist", t.n)
       /\ t.op \in {"black", "unblack"} => Known("write", t.n)
       /\ t.op = "message" => Known("read", t.n)
  BY DEF TaskSound, Strangers, Deleting, Counting, Fetching, Accepting
<1>11. t.op = "delete" /\ t.step = "count1" => Known("count2", frie[t.box])
  <2> SUFFICES ASSUME t.op = "delete", t.step = "count1",
                      PairOf(t.box) \notin torn' \cup crossed',
                      NEW s, s.op = t.op, s.box = t.box, s.step = "count2",
                      s.n = frie[t.box]
               PROVE  TaskSound(met', frie, mess, offl, hist, consent, s)
    OBVIOUS
  <2>1. PairOf(t.box) \notin met' => PairOf(t.box) \notin hist
    BY <1>8 DEF TaskSound, Deleting
  <2> QED BY <2>1 DEF TaskSound, Strangers, Deleting, Counting, Fetching, Accepting
<1>13. t.op = "message" /\ t.step \in {"begin", "lock"} =>
           Known("lock", t.n) /\ Known("stoi", t.n)
  <2> SUFFICES ASSUME t.op = "message", t.step \in {"begin", "lock"},
                      PairOf(t.box) \notin torn' \cup crossed',
                      NEW s, s.op = t.op, s.box = t.box, s.step \in {"lock", "stoi"},
                      s.n = t.n
               PROVE  TaskSound(met', frie, mess, offl, hist, consent, s)
    OBVIOUS
  <2>1. PairOf(t.box) \notin met' => t.n = 0
    BY <1>8 DEF TaskSound, Counting
  <2> QED BY <2>1 DEF TaskSound, Strangers, Deleting, Counting, Fetching, Accepting
<1>14. t.op = "message" /\ t.step = "lock" /\ ~IsFriend(t.box) => Known("offl", t.n)
  <2> SUFFICES ASSUME t.op = "message", t.step = "lock", ~IsFriend(t.box),
                      PairOf(t.box) \notin torn' \cup crossed',
                      NEW s, s.op = t.op, s.box = t.box, s.step = "offl", s.n = t.n
               PROVE  TaskSound(met', frie, mess, offl, hist, consent, s)
    OBVIOUS
  <2>1. PairOf(t.box) \notin met' => t.n = 0
    BY <1>8 DEF TaskSound, Counting
  <2> QED BY <1>9, <2>1 DEF TaskSound, Strangers, Deleting, Counting, Fetching, Accepting
<1>15. t.op = "message" /\ IsFriend(t.box) => Known("offl", frie[t.box])
  BY <1>9 DEF TaskSound, Strangers, Deleting, Counting, Fetching, Accepting
<1> HIDE DEF Goal, Known
<1>16. \A step, n : Goes(t, step, n) /\ Known(step, n) => Goal
  BY <1>6
<1>17. Goal
  BY <1>2, <1>5, <1>10, <1>11, <1>13, <1>14, <1>15, <1>16
<1> QED BY <1>17 DEF Goal

\* CHAT where it only looks: it gets its number of messages and no other, and
\* reads its own messages that the other has not read.
LEMMA CleanChat ==
    ASSUME MutualInv, ConstantsAssumption,
           CleanInv(frie, mess, offl, hist, consent, tasks, torn, crossed, met'),
           NEW t \in tasks, Step(t),
           ChatCheck(t) \/ ChatTake(t) \/ ChatOwn(t) \/ ChatOwnRead(t) \/ ChatReply(t)
    PROVE  CleanInv(frie', mess', offl', hist', consent', tasks', torn', crossed', met')
<1> DEFINE Goal == CleanInv(frie', mess', offl', hist', consent', tasks', torn', crossed', met')
           Sound(s) == TaskSound(met', frie, mess, offl, hist, consent, s)
           Own == \E step \in {"ownstoi", "ownread", "reply"}, n \in Nat, i \in Nat :
                      GoesAt(t, step, n, i)
<1>1. TypeOK
  BY DEF MutualInv
<1>2. /\ Quiet /\ t.op = "chat"
      /\ \/ Done(t)
         \/ t.step = "begin" /\ GoesAt(t, "take", t.n, t.i)
         \/ t.step = "take" /\ GoesAt(t, "stoi", t.n, t.i)
         \/ t.step = "take" /\ ~IsFriend(t.box) /\ GoesAt(t, "reset", t.n, t.i)
         \/ t.step = "stoi" /\ GoesAt(t, "reset", frie[t.box], t.i)
         \/ Own
  <2>1. CASE ChatCheck(t)
    BY <1>1, <2>1, ChatEffects
  <2>2. CASE ChatTake(t)
    BY <1>1, <2>2, ChatEffects
  <2>3. CASE ChatOwn(t) \/ ChatOwnRead(t) \/ ChatReply(t)
    BY <1>1, <2>3, ChatEffects
  <2> QED BY <2>1, <2>2, <2>3
<1>3. t.step \notin {"fetch", "push", "hdel"}
  BY DEF ChatCheck, ChatTake, ChatOwn, ChatOwnRead, ChatReply, At
<1>4. ~Relied(t)
  BY <1>2, <1>3 DEF Relied, Needed, Accepting, Fetching
<1>5. t.box \in Boxes
  BY <1>1, <1>2, Kinds
<1>6. ASSUME Done(t) PROVE Goal
  BY <1>2, <1>4, <1>6, CleanQuiet
<1>7. ASSUME NEW step, NEW n, NEW i, GoesAt(t, step, n, i),
             PairOf(t.box) \notin torn' \cup crossed' =>
                 \A r : Moves(t, r) /\ r.step = step /\ r.n = n /\ r.i = i => Sound(r)
      PROVE  Goal
  <2>1. PICK r : /\ Moves(t, r) /\ r.step = step /\ r.n = n /\ r.i = i
                 /\ tasks' = (tasks \ {t}) \cup {r}
    BY <1>7 DEF GoesAt
  <2>2. PairOf(t.box) \notin torn' \cup crossed' => Sound(r)
    BY <1>7, <2>1
  <2> QED BY <1>2, <1>4, <2>1, <2>2, CleanQuiet
<1>8. ASSUME PairOf(t.box) \notin torn' \cup crossed'
      PROVE  Sound(t) /\ Held(frie, t)
  BY <1>5, <1>8, CleanFacts
<1>9. ASSUME t.step \in {"begin", "take"},
             GoesAt(t, "take", t.n, t.i) \/ GoesAt(t, "stoi", t.n, t.i)
      PROVE  Goal
  <2>1. ASSUME NEW r, Moves(t, r), r.step \in {"take", "stoi"}, r.i = t.i,
               PairOf(t.box) \notin torn' \cup crossed'
        PROVE  Sound(r)
    <3>1. PairOf(t.box) \notin met' => t.i = 0
      BY <1>2, <1>8, <1>9, <2>1 DEF TaskSound, Counting
    <3> QED BY <1>2, <2>1, <3>1
         DEF Moves, TaskSound, Strangers, Deleting, Counting, Fetching, Accepting
  <2> HIDE DEF Sound, Goal
  <2> QED BY <1>7, <1>9, <2>1
<1>10. ASSUME t.step = "take", ~IsFriend(t.box), GoesAt(t, "reset", t.n, t.i)
       PROVE  Goal
  <2>1. PairOf(t.box) \in torn' \cup crossed'
    <3>1. ASSUME PairOf(t.box) \notin torn' \cup crossed' PROVE FALSE
      BY <1>1, <1>2, <1>5, <1>8, <1>10, <3>1, HasNumber DEF Held, Begun
    <3> QED BY <3>1
  <2> HIDE DEF Sound, Goal
  <2> QED BY <1>7, <1>10, <2>1
<1>11. ASSUME t.step = "stoi", GoesAt(t, "reset", frie[t.box], t.i) PROVE Goal
  <2>1. ASSUME NEW r, Moves(t, r), r.step = "reset", r.n = frie[t.box], r.i = t.i,
               PairOf(t.box) \notin torn' \cup crossed'
        PROVE  Sound(r)
    <3>1. PairOf(t.box) \notin met' => t.i = 0
      BY <1>2, <1>8, <1>11, <2>1 DEF TaskSound, Counting
    <3> QED BY <1>2, <2>1, <3>1
         DEF Moves, TaskSound, Strangers, Deleting, Counting, Fetching, Accepting
  <2> HIDE DEF Sound, Goal
  <2> QED BY <1>7, <1>11, <2>1
<1>12. ASSUME Own PROVE Goal
  <2>1. ASSUME NEW r, Moves(t, r), r.step \in {"ownstoi", "ownread", "reply"}
        PROVE  Sound(r)
    BY <1>2, <2>1 DEF Moves, TaskSound, Strangers, Deleting, Counting, Fetching, Accepting
  <2> HIDE DEF Sound, Goal
  <2>2. PICK step \in {"ownstoi", "ownread", "reply"}, n \in Nat, i \in Nat :
            GoesAt(t, step, n, i)
    BY <1>12
  <2> QED BY <1>7, <2>1, <2>2
<1> HIDE DEF Goal, Sound, Own
<1>13. Goal
  <2>1. CASE Done(t)
    BY <1>6, <2>1
  <2>2. CASE \/ t.step = "begin" /\ GoesAt(t, "take", t.n, t.i)
             \/ t.step = "take" /\ GoesAt(t, "stoi", t.n, t.i)
    BY <1>9, <2>2
  <2>3. CASE Own
    BY <1>12, <2>3
  <2> QED BY <1>2, <1>10, <1>11, <2>1, <2>2, <2>3
<1> QED BY <1>13 DEF Goal

\* A request put in the list of the other.
LEMMA CleanPush ==
    ASSUME MutualInv, ConstantsAssumption,
           CleanInv(frie, mess, offl, hist, consent, tasks, torn, crossed, met'),
           NEW t \in tasks, Step(t), AddPush(t)
    PROVE  CleanInv(frie', mess', offl', hist', consent', tasks', torn', crossed', met')
<1> DEFINE b == t.box
<1>1. TypeOK
  BY DEF MutualInv
<1>2. /\ t.op = "add" /\ t.step = "push" /\ tasks' = tasks \ {t}
      /\ mess' = mess \cup {Swap(b)}
      /\ frie' = frie /\ offl' = offl /\ hist' = hist /\ consent' = consent
  BY <1>1, AddEffects DEF Done
<1>3. /\ t.box = b /\ b \in Boxes /\ Swap(b) \in Boxes /\ Swap(Swap(b)) = b
      /\ Swap(b) # b /\ PairOf(Swap(b)) = PairOf(b)
      /\ \A c \in Boxes : PairOf(c) = PairOf(b) <=> c = b \/ c = Swap(b)
  <2>1. b \in Boxes
    BY <1>1, <1>2, Kinds DEF Begun
  <2> QED BY <2>1, TwoBoxes
<1>4. b \in consent
  BY <1>2, <1>3 DEF MutualInv, Asking
<1> HIDE DEF b
<1>5. ASSUME PairOf(b) \notin torn' \cup crossed'
      PROVE  /\ BoxSound(met', frie, mess, offl, hist, consent, tasks, b)
             /\ BoxSound(met', frie, mess, offl, hist, consent, tasks, Swap(b))
             /\ ~Has(frie, b) /\ ~Has(frie, Swap(b)) /\ b \notin mess
             /\ \A s \in tasks \ {t} : PairOf(s.box) = PairOf(b) =>
                   /\ TaskSound(met', frie, mess, offl, hist, consent, s)
                   /\ Begun(s) => s.op \notin {"add", "yes"}
  <2>1. /\ BoxSound(met', frie, mess, offl, hist, consent, tasks, b)
        /\ BoxSound(met', frie, mess, offl, hist, consent, tasks, Swap(b))
    BY <1>3, <1>5, CleanFacts
  <2>2. TaskSound(met', frie, mess, offl, hist, consent, t)
    BY <1>3, <1>5, CleanFacts
  <2>3. ~Has(frie, b) /\ ~Has(frie, Swap(b)) /\ b \notin mess
    BY <1>2, <1>3, <2>2 DEF TaskSound, Strangers
  <2>4. \A s \in tasks \ {t} : PairOf(s.box) = PairOf(b) =>
            /\ TaskSound(met', frie, mess, offl, hist, consent, s)
            /\ Begun(s) => ~Crosses(s.op, t.op)
    BY <1>3, <1>5, CleanFacts
  <2>5. \A o \in {"add", "yes"} : Crosses(o, t.op)
    BY <1>2 DEF Crosses
  <2> QED BY <2>1, <2>3, <2>4, <2>5
<1>6. ASSUME PairOf(b) \notin torn' \cup crossed', NEW c \in Boxes, PairOf(c) = PairOf(b)
      PROVE  BoxSound(met', frie, mess', offl, hist, consent, tasks', c)
  <2>1. c = b \/ c = Swap(b)
    BY <1>3, <1>6
  <2>2. Requested(frie, mess', consent, tasks', c)
    BY <2>1, <1>2, <1>3, <1>4, <1>5, <1>6 DEF Requested
  <2>3. BoxSound(met', frie, mess, offl, hist, consent, tasks, c)
    BY <2>1, <1>5, <1>6
  <2>4. Filed(met', frie, offl, hist, tasks', c)
    <3>1. \A s \in tasks : Needed(s) => s \in tasks'
      BY <1>2 DEF Needed, Fetching
    <3> QED BY <2>3, <3>1, FiledOn DEF BoxSound
  <2> QED BY <2>2, <2>3, <2>4 DEF BoxSound
<1>7. ASSUME PairOf(b) \notin torn' \cup crossed', NEW s \in tasks',
             PairOf(s.box) = PairOf(b)
      PROVE  TaskSound(met', frie, mess', offl, hist, consent, s)
  <2>1. /\ TaskSound(met', frie, mess, offl, hist, consent, s)
        /\ s.step # "begin" => s.op \notin {"add", "yes"}
    BY <1>2, <1>5, <1>7 DEF Begun
  <2> QED BY <2>1 DEF TaskSound, Strangers, Accepting
<1>8. \A c \in Boxes : PairOf(c) # PairOf(t.box) => (c \in mess' <=> c \in mess)
  BY <1>2, <1>3
<1> QED BY <1>1, <1>2, <1>3, <1>6, <1>7, <1>8, CleanStep

\* A request taken out of one's own list.
LEMMA CleanLrem ==
    ASSUME MutualInv, ConstantsAssumption,
           CleanInv(frie, mess, offl, hist, consent, tasks, torn, crossed, met'),
           NEW t \in tasks, Step(t), Lrem(t)
    PROVE  CleanInv(frie', mess', offl', hist', consent', tasks', torn', crossed', met')
<1> DEFINE b == t.box
<1>1. TypeOK
  BY DEF MutualInv
<1>2. /\ t.op \in {"add", "yes", "no"} /\ t.step = "lrem" /\ tasks' = tasks \ {t}
      /\ mess' = mess \ {b}
      /\ frie' = frie /\ offl' = offl /\ hist' = hist /\ consent' = consent
  BY <1>1, AcceptEffects DEF Done
<1>3. /\ t.box = b /\ b \in Boxes /\ Swap(b) \in Boxes
      /\ Swap(b) # b /\ PairOf(Swap(b)) = PairOf(b)
      /\ \A c \in Boxes : PairOf(c) = PairOf(b) <=> c = b \/ c = Swap(b)
  <2>1. b \in Boxes
    BY <1>1, <1>2, Kinds DEF Begun
  <2> QED BY <2>1, TwoBoxes
<1> HIDE DEF b
<1>5. ASSUME PairOf(b) \notin torn' \cup crossed'
      PROVE  /\ BoxSound(met', frie, mess, offl, hist, consent, tasks, b)
             /\ BoxSound(met', frie, mess, offl, hist, consent, tasks, Swap(b))
             /\ \A s \in tasks \ {t} : PairOf(s.box) = PairOf(b) =>
                   TaskSound(met', frie, mess, offl, hist, consent, s)
  <2>1. /\ BoxSound(met', frie, mess, offl, hist, consent, tasks, b)
        /\ BoxSound(met', frie, mess, offl, hist, consent, tasks, Swap(b))
    BY <1>3, <1>5, CleanFacts
  <2>2. \A s \in tasks \ {t} : PairOf(s.box) = PairOf(b) =>
            TaskSound(met', frie, mess, offl, hist, consent, s)
    BY <1>3, <1>5, CleanFacts
  <2> QED BY <2>1, <2>2
<1>6. ASSUME PairOf(b) \notin torn' \cup crossed', NEW c \in Boxes, PairOf(c) = PairOf(b)
      PROVE  BoxSound(met', frie, mess', offl, hist, consent, tasks', c)
  <2>1. c = b \/ c = Swap(b)
    BY <1>3, <1>6
  <2>2. BoxSound(met', frie, mess, offl, hist, consent, tasks, c)
    BY <2>1, <1>5, <1>6
  <2>3. Requested(frie, mess', consent, tasks', c)
    <3>1. CASE c = b
      BY <3>1, <1>2 DEF Requested
    <3>2. CASE c = Swap(b)
      <4>1. \A s \in tasks : s.box = c => s \in tasks'
        BY <3>2, <1>2, <1>3
      <4> QED BY <4>1, <2>2, <1>2 DEF BoxSound, Requested
    <3> QED BY <2>1, <3>1, <3>2
  <2>4. Filed(met', frie, offl, hist, tasks', c)
    <3>1. \A s \in tasks : Needed(s) => s \in tasks'
      BY <1>2 DEF Needed, Fetching
    <3> QED BY <2>2, <3>1, FiledOn DEF BoxSound
  <2> QED BY <2>2, <2>3, <2>4 DEF BoxSound
<1>7. ASSUME PairOf(b) \notin torn' \cup crossed', NEW s \in tasks',
             PairOf(s.box) = PairOf(b)
      PROVE  TaskSound(met', frie, mess', offl, hist, consent, s)
  <2>1. TaskSound(met', frie, mess, offl, hist, consent, s)
    BY <1>2, <1>5, <1>7
  <2> QED BY <2>1, <1>2 DEF TaskSound, Strangers
<1>8. \A c \in Boxes : PairOf(c) # PairOf(t.box) => (c \in mess' <=> c \in mess)
  BY <1>2, <1>3
<1> QED BY <1>1, <1>2, <1>3, <1>6, <1>7, <1>8, CleanStep

\* The two grants of an acceptance.
LEMMA CleanGrants ==
    ASSUME MutualInv, ConstantsAssumption,
           CleanInv(frie, mess, offl, hist, consent, tasks, torn, crossed, met'),
           NEW t \in tasks, Step(t), GrantOwn(t) \/ GrantOther(t)
    PROVE  CleanInv(frie', mess', offl', hist', consent', tasks', torn', crossed', met')
<1> DEFINE b == t.box
           g == IF t.step = "own" THEN b ELSE Swap(b)
           next == IF t.op = "yes" /\ t.step = "own" THEN "other"
                   ELSE IF t.op = "add" /\ t.step = "other" THEN "own" ELSE "lrem"
<1>1. TypeOK
  BY DEF MutualInv
<1>2. /\ t.op \in {"add", "yes"} /\ t.step \in {"own", "other"}
      /\ Goes(t, next, t.n)
      /\ frie' = [frie EXCEPT ![g] = 0]
      /\ mess' = mess /\ offl' = offl /\ hist' = hist /\ consent' = consent
  <2>1. CASE GrantOwn(t)
    BY <1>1, <2>1, AcceptEffects
  <2>2. CASE GrantOther(t)
    BY <1>1, <2>2, AcceptEffects
  <2> QED BY <2>1, <2>2
<1>3. /\ t.box = b /\ b \in Boxes /\ Swap(b) \in Boxes /\ Swap(Swap(b)) = b
      /\ Swap(b) # b /\ PairOf(Swap(b)) = PairOf(b)
      /\ \A c \in Boxes : PairOf(c) = PairOf(b) <=> c = b \/ c = Swap(b)
  <2>1. b \in Boxes
    BY <1>1, <1>2, Kinds DEF Begun
  <2> QED BY <2>1, TwoBoxes
<1>4. b \in consent
  BY <1>2, <1>3 DEF MutualInv, Asking
<1>5. /\ t.step = "own" => g = b
      /\ t.step = "other" => g = Swap(b)
      /\ next \in {"own", "other", "lrem"}
      /\ next = "own" => t.op = "add" /\ g = Swap(b)
      /\ next = "other" => t.op = "yes" /\ g = b
  BY <1>2
<1>6. g \in Boxes /\ PairOf(g) = PairOf(b)
  BY <1>2, <1>3, <1>5
<1> HIDE DEF b, g, next
<1>7. /\ frie'[g] = 0 /\ Has(frie', g)
      /\ \A c \in Boxes : c # g => /\ frie'[c] = frie[c]
                                   /\ Has(frie', c) <=> Has(frie, c)
  BY <1>1, <1>2, <1>6, HasNumber DEF TypeOK, Has
<1>8. /\ \A s \in tasks' : \/ s \in tasks \ {t}
                           \/ s.op = t.op /\ s.box = b /\ s.step = next
      /\ \E s \in tasks' : s.op = t.op /\ s.box = b /\ s.step = next
      /\ tasks \ {t} \subseteq tasks'
  BY <1>1, <1>2, <1>3, GoesTo, TasksAfter DEF Moves
<1>9. ASSUME PairOf(b) \notin torn' \cup crossed'
      PROVE  /\ BoxSound(met', frie, mess, offl, hist, consent, tasks, b)
             /\ BoxSound(met', frie, mess, offl, hist, consent, tasks, Swap(b))
             /\ ~Has(frie, g) /\ Swap(b) \notin mess /\ Swap(b) \in consent
             /\ next = "own" => ~Has(frie, b)
             /\ next = "other" => ~Has(frie, Swap(b))
             /\ \A s \in tasks \ {t} : PairOf(s.box) = PairOf(b) =>
                   /\ TaskSound(met', frie, mess, offl, hist, consent, s) /\ Held(frie, s)
                   /\ Begun(s) => /\ s.op \notin {"add", "yes", "delete"}
                                  /\ s.box = b \/ s.box = Swap(b)
  <2>1. /\ BoxSound(met', frie, mess, offl, hist, consent, tasks, b)
        /\ BoxSound(met', frie, mess, offl, hist, consent, tasks, Swap(b))
    BY <1>3, <1>9, CleanFacts
  <2>2. TaskSound(met', frie, mess, offl, hist, consent, t)
    BY <1>3, <1>9, CleanFacts
  <2>3. /\ ~Has(frie, g) /\ Swap(b) \notin mess /\ Swap(b) \in consent
        /\ next = "own" => ~Has(frie, b)
        /\ next = "other" => ~Has(frie, Swap(b))
    BY <1>2, <1>3, <1>5, <2>2 DEF TaskSound, Strangers, Accepting, next, g
  <2>4. \A s \in tasks \ {t} : PairOf(s.box) = PairOf(b) =>
            /\ TaskSound(met', frie, mess, offl, hist, consent, s) /\ Held(frie, s)
            /\ Begun(s) => /\ ~Crosses(s.op, t.op) /\ ~Tears(s.op, t.op)
                           /\ s.box = b \/ s.box = Swap(b)
    BY <1>3, <1>9, CleanFacts
  <2>5. /\ \A o \in {"add", "yes"} : Crosses(o, t.op)
        /\ Tears("delete", t.op)
    BY <1>2 DEF Crosses, Tears
  <2> QED BY <2>1, <2>3, <2>4, <2>5
<1>10. ASSUME PairOf(b) \notin torn' \cup crossed', NEW c \in Boxes,
              PairOf(c) = PairOf(b)
       PROVE  BoxSound(met', frie', mess, offl, hist, consent, tasks', c)
  <2>1. (c = b \/ c = Swap(b)) /\ Swap(c) \in Boxes
    BY <1>3, <1>10
  <2>2. BoxSound(met', frie, mess, offl, hist, consent, tasks, c)
    BY <2>1, <1>9, <1>10
  <2>3. \E s \in tasks' : Accepting(s) /\ s.box = b
    BY <1>2, <1>5, <1>8 DEF Accepting
  <2>4. Requested(frie', mess, consent, tasks', c)
    <3>1. CASE c = b
      BY <3>1, <2>2, <2>3 DEF BoxSound, Requested
    <3>2. CASE c = Swap(b)
      BY <3>2, <1>9, <1>10 DEF Requested
    <3> QED BY <2>1, <3>1, <3>2
  <2>5. Agreed(frie', consent, c)
    BY <2>1, <1>3, <1>4, <1>9, <1>10 DEF Agreed
  <2>6. Filed(met', frie', offl, hist, tasks', c)
    <3>1. Filed(met', frie, offl, hist, tasks, c)
      BY <2>2 DEF BoxSound
    <3>2. PairOf(c) \notin met' =>
              (PairOf(c) \in hist => Has(frie', c) \/ Has(frie', Swap(c)))
      BY <3>1, <2>1, <1>7 DEF Filed
    <3>3. CASE c = g
      <4>1. PairOf(c) \notin met' => UnreadOf(offl, c) = {}
        BY <3>1, <3>3, <1>9, <1>10 DEF Filed, Counted
      <4>2. PairOf(c) \notin met' => Counted(frie', offl, tasks', c)
        BY <4>1 DEF Counted
      <4>3. Dense(frie', offl, tasks', c)
        BY <3>3, <1>7 DEF Dense
      <4> QED BY <3>2, <4>2, <4>3 DEF Filed
    <3>4. CASE c # g
      <4>1. \A s \in tasks : Needed(s) => s \in tasks'
        BY <1>2, <1>8 DEF Needed, Fetching
      <4>2. Filed(met', frie, offl, hist, tasks', c)
        BY <3>1, <4>1, FiledOn
      <4>3. /\ PairOf(c) \notin met' => Counted(frie, offl, tasks', c)
            /\ PairOf(c) \notin met' => Dense(frie, offl, tasks', c)
        BY <4>2 DEF Filed
      <4>4. frie'[c] = frie[c]
        BY <1>7, <1>10, <3>4
      <4> QED BY <3>2, <4>3, <4>4 DEF Filed, Counted, Dense, Has
    <3> QED BY <3>3, <3>4
  <2> QED BY <2>4, <2>5, <2>6 DEF BoxSound
<1>11. ASSUME PairOf(b) \notin torn' \cup crossed', NEW s \in tasks',
              PairOf(s.box) = PairOf(b)
       PROVE  TaskSound(met', frie', mess, offl, hist, consent, s)
  <2>1. CASE s \in tasks \ {t}
    <3>1. /\ TaskSound(met', frie, mess, offl, hist, consent, s) /\ Held(frie, s)
          /\ s.step # "begin" => /\ s.op \notin {"add", "yes", "delete"}
                                 /\ s.box = b \/ s.box = Swap(b)
      BY <1>9, <1>11, <2>1 DEF Begun
    <3>2. CASE s.step = "begin"
      BY <3>1, <3>2, StillNotBegun
    <3>3. CASE s.step # "begin"
      <4>1. s.box \in Boxes
        BY <1>3, <3>1, <3>3
      <4>2. Counting(met', frie', offl, s)
        <5>1. CASE s.box = g
          <6>1. s.op # "chat" /\ (s.op = "message" => s.step # "incr")
            BY <3>1, <3>3, <5>1, <1>9, <1>11 DEF Held, Begun
          <6>2. PairOf(s.box) \notin met' /\ s.op = "message" =>
                    /\ s.step \in {"begin", "lock", "stoi"} => s.n = 0
                    /\ s.step = "offl" => s.n = 0
            BY <3>1, <5>1, <1>9, <1>11 DEF TaskSound, Counting
          <6> QED BY <5>1, <6>1, <6>2, <1>7 DEF Counting, Fetching
        <5>2. CASE s.box # g
          <6>1. frie'[s.box] = frie[s.box] /\ (Has(frie', s.box) <=> Has(frie, s.box))
            BY <4>1, <5>2, <1>7
          <6> QED BY <3>1, <6>1 DEF TaskSound, Counting
        <5> QED BY <5>1, <5>2
      <4> QED BY <3>1, <3>3, <4>2 DEF TaskSound, Strangers, Deleting, Accepting
    <3> QED BY <3>2, <3>3
  <2>2. CASE s \notin tasks \ {t}
    <3>1. s.op = t.op /\ s.box = b /\ s.step = next
      BY <1>8, <1>11, <2>2
    <3>2. /\ next = "own" => ~Has(frie', b)
          /\ next = "other" => ~Has(frie', Swap(b))
      BY <1>3, <1>5, <1>7, <1>9, <1>11
    <3>3. Strangers(frie', mess, consent, s)
      BY <3>1, <3>2, <1>2, <1>5, <1>9, <1>11 DEF Strangers
    <3> QED BY <3>1, <3>3, <1>2 DEF TaskSound, Deleting, Counting, Fetching
  <2> QED BY <2>1, <2>2
<1>12. \A c \in Boxes : PairOf(c) # PairOf(t.box) => frie'[c] = frie[c]
  BY <1>3, <1>6, <1>7
<1> QED BY <1>1, <1>2, <1>3, <1>10, <1>11, <1>12, CleanStep

\* Unread is UnreadOf of what is stored.
LEMMA UnreadIs ==
    \A b : Unread(b) = UnreadOf(offl, b)
BY DEF Unread, UnreadOf

\* DELFRIEND takes away the history.
LEMMA CleanHistory ==
    ASSUME MutualInv, ConstantsAssumption,
           CleanInv(frie, mess, offl, hist, consent, tasks, torn, crossed, met'),
           NEW t \in tasks, Step(t), DeleteHistory(t)
    PROVE  CleanInv(frie', mess', offl', hist', consent', tasks', torn', crossed', met')
<1> DEFINE b == t.box
<1>1. TypeOK
  BY DEF MutualInv
<1>2. /\ t.op = "delete" /\ t.step = "hist" /\ Goes(t, "count1", t.n)
      /\ hist' = hist \ {PairOf(b)}
      /\ frie' = frie /\ mess' = mess /\ offl' = offl /\ consent' = consent
  BY <1>1, DeleteEffects
<1>3. t.box = b /\ b \in Boxes
  BY <1>1, <1>2, Kinds DEF Begun
<1> HIDE DEF b
<1>4. /\ \A s \in tasks' : \/ s \in tasks \ {t}
                           \/ s.op = "delete" /\ s.step = "count1" /\ s.box = b
      /\ tasks \ {t} \subseteq tasks'
  BY <1>1, <1>2, <1>3, GoesTo, TasksAfter DEF Moves
<1>5. ASSUME PairOf(b) \notin torn' \cup crossed', NEW c \in Boxes, PairOf(c) = PairOf(b)
      PROVE  BoxSound(met', frie, mess, offl, hist', consent, tasks', c)
  <2>1. BoxSound(met', frie, mess, offl, hist, consent, tasks, c)
    BY <1>3, <1>5, CleanFacts
  <2>2. \A s \in tasks : Relied(s) => s \in tasks'
    BY <1>2, <1>4 DEF Relied, Needed, Accepting, Fetching
  <2>3. Requested(frie, mess, consent, tasks', c) /\ Filed(met', frie, offl, hist, tasks', c)
    BY <2>1, <2>2, ReliedOn DEF BoxSound
  <2>4. Filed(met', frie, offl, hist', tasks', c)
    BY <2>3, <1>2, <1>5 DEF Filed
  <2> QED BY <2>1, <2>3, <2>4 DEF BoxSound
<1>6. ASSUME PairOf(b) \notin torn' \cup crossed', NEW s \in tasks',
             PairOf(s.box) = PairOf(b)
      PROVE  TaskSound(met', frie, mess, offl, hist', consent, s)
  <2>1. CASE s \in tasks \ {t}
    <3>1. TaskSound(met', frie, mess, offl, hist, consent, s)
      BY <1>3, <1>6, <2>1, CleanFacts
    <3> QED BY <3>1, <1>2 DEF TaskSound, Deleting
  <2>2. CASE s.op = "delete" /\ s.step = "count1" /\ s.box = b
    BY <2>2, <1>2 DEF TaskSound, Strangers, Deleting, Counting, Fetching, Accepting
  <2> QED BY <2>1, <2>2, <1>4, <1>6
<1> QED BY <1>1, <1>2, <1>3, <1>5, <1>6, CleanStep

\* DELFRIEND takes away the messages its owner has not read.
LEMMA CleanCount ==
    ASSUME MutualInv, ConstantsAssumption,
           CleanInv(frie, mess, offl, hist, consent, tasks, torn, crossed, met'),
           NEW t \in tasks, Step(t), DeleteCount(t), t.step = "count2"
    PROVE  CleanInv(frie', mess', offl', hist', consent', tasks', torn', crossed', met')
<1> DEFINE b == t.box
           Next2(s) == /\ s.op = "delete" /\ s.step = "records" /\ s.box = b
                       /\ s.n = frie[Swap(b)]
<1>1. TypeOK
  BY DEF MutualInv
<1>2. /\ t.op = "delete"
      /\ \/ ~IsFriend(Swap(b)) /\ Done(t)
         \/ Goes(t, "records", frie[Swap(b)])
      /\ offl' = offl \ {o \in UnreadOf(offl, b) : o[3] < t.n}
      /\ frie' = frie /\ mess' = mess /\ hist' = hist /\ consent' = consent
  BY <1>1, DeleteEffects, UnreadIs
<1>3. /\ t.box = b /\ b \in Boxes /\ Swap(b) \in Boxes
      /\ \A c \in Boxes : c # b => UnreadOf(offl', c) = UnreadOf(offl, c)
  <2>1. b \in Boxes /\ Swap(b) \in Boxes
    BY <1>1, <1>2, Kinds, TwoBoxes DEF Begun
  <2> QED BY <2>1, <1>2 DEF UnreadOf
<1> HIDE DEF b
<1>4. /\ \A s \in tasks' : s \in tasks \ {t} \/ Next2(s)
      /\ Done(t) \/ \E s \in tasks' : Next2(s)
      /\ tasks \ {t} \subseteq tasks'
  <2>1. tasks \ {t} \subseteq tasks'
    BY <1>1, TasksAfter
  <2>2. CASE Done(t)
    BY <2>1, <2>2 DEF Done
  <2>3. CASE Goes(t, "records", frie[Swap(b)])
    BY <1>2, <1>3, <2>1, <2>3, GoesTo DEF Moves
  <2> QED BY <1>2, <2>1, <2>2, <2>3
<1>5. \A s \in tasks : Relied(s) => s \in tasks'
  BY <1>2, <1>4 DEF Relied, Needed, Accepting, Fetching
<1>6. ASSUME PairOf(b) \notin torn' \cup crossed', NEW s \in tasks \ {t},
             PairOf(s.box) = PairOf(b)
      PROVE  /\ TaskSound(met', frie, mess, offl, hist, consent, s)
             /\ s.step # "begin" =>
                   s.op \notin {"add", "yes", "delete", "chat", "message"}
  <2>1. /\ TaskSound(met', frie, mess, offl, hist, consent, s)
        /\ Begun(s) => ~Tears(s.op, t.op)
    BY <1>3, <1>6, CleanFacts
  <2> QED BY <1>2, <2>1 DEF Tears, Begun
<1>7. ASSUME PairOf(b) \notin torn' \cup crossed' PROVE \E s \in tasks' : Next2(s)
  <2>1. Held(frie, t) /\ Mutual(frie, tasks, b)
    BY <1>3, <1>7, CleanFacts
  <2>2. ASSUME NEW s \in tasks, Halfway(s), PairOf(s.box) = PairOf(b) PROVE FALSE
    BY <1>2, <1>6, <1>7, <2>2 DEF Halfway
  <2>3. Has(frie, Swap(b))
    BY <1>2, <1>3, <2>1, <2>2 DEF Held, Begun, Mutual
  <2>4. IsFriend(Swap(b))
    BY <1>1, <1>3, <2>3, HasNumber
  <2>5. Goes(t, "records", frie[Swap(b)])
    BY <1>2, <2>4
  <2> QED BY <1>2, <1>3, <2>5, GoesTo DEF Moves
<1>8. ASSUME PairOf(b) \notin torn' \cup crossed', PairOf(b) \notin met'
      PROVE  PairOf(b) \notin hist /\ UnreadOf(offl', b) = {}
  <2>1. /\ TaskSound(met', frie, mess, offl, hist, consent, t)
        /\ BoxSound(met', frie, mess, offl, hist, consent, tasks, b)
    BY <1>3, <1>8, CleanFacts
  <2>2. PairOf(b) \notin hist /\ t.n = frie[b]
    BY <1>2, <1>3, <1>8, <2>1 DEF TaskSound, Deleting
  <2>3. ASSUME NEW s \in tasks, NEW k, Covers(s, b, k) PROVE FALSE
    <3>1. /\ s \in tasks \ {t} /\ PairOf(s.box) = PairOf(b)
          /\ s.op \in {"message", "chat"} /\ s.step # "begin"
      BY <1>2, <2>3 DEF Covers, Fetching
    <3> QED BY <1>6, <1>8, <3>1
  <2>4. \A o \in UnreadOf(offl, b) : o[3] < t.n
    BY <1>8, <2>1, <2>2, <2>3 DEF BoxSound, Filed, Counted
  <2>5. UnreadOf(offl', b) = {}
    BY <1>2, <2>4 DEF UnreadOf
  <2> QED BY <2>2, <2>5
<1> HIDE DEF Next2
<1>9. ASSUME PairOf(b) \notin torn' \cup crossed', NEW c \in Boxes, PairOf(c) = PairOf(b)
      PROVE  BoxSound(met', frie, mess, offl', hist, consent, tasks', c)
  <2>1. BoxSound(met', frie, mess, offl, hist, consent, tasks, c)
    BY <1>3, <1>9, CleanFacts
  <2>2. Requested(frie, mess, consent, tasks', c) /\ Filed(met', frie, offl, hist, tasks', c)
    BY <2>1, <1>5, ReliedOn DEF BoxSound
  <2>3. CASE c # b
    <3>1. UnreadOf(offl', c) = UnreadOf(offl, c)
      BY <1>3, <2>3
    <3> QED BY <2>1, <2>2, <3>1, SameBox DEF BoxSound
  <2>4. CASE c = b
    <3>1. PairOf(b) \notin met' => Counted(frie, offl', tasks', b)
      BY <1>8, <1>9 DEF Counted
    <3>2. Dense(frie, offl', tasks', b)
      BY <1>7, <1>9 DEF Next2, Dense, Clears
    <3>3. Filed(met', frie, offl', hist, tasks', b)
      BY <2>2, <2>4, <3>1, <3>2 DEF Filed
    <3> QED BY <2>1, <2>2, <2>4, <3>3 DEF BoxSound
  <2> QED BY <2>3, <2>4
<1>10. ASSUME PairOf(b) \notin torn' \cup crossed', NEW s \in tasks',
              PairOf(s.box) = PairOf(b)
       PROVE  TaskSound(met', frie, mess, offl', hist, consent, s)
  <2>1. CASE s \in tasks \ {t} /\ s.step # "begin"
    <3>1. /\ TaskSound(met', frie, mess, offl, hist, consent, s)
          /\ s.op \notin {"delete", "chat", "message"}
      BY <1>6, <1>10, <2>1
    <3> QED BY <3>1, NotCounting DEF TaskSound
  <2>2. CASE s \in tasks \ {t} /\ s.step = "begin"
    <3>1. TaskSound(met', frie, mess, offl, hist, consent, s)
      BY <1>6, <1>10, <2>2
    <3> QED BY <3>1, <2>2, StillNotBegun
  <2>3. CASE Next2(s)
    <3>1. Deleting(met', frie, offl', hist, s)
      BY <2>3, <1>8, <1>10 DEF Deleting, Next2
    <3> QED BY <2>3, <3>1
         DEF Next2, TaskSound, Strangers, Counting, Fetching, Accepting
  <2> QED BY <2>1, <2>2, <2>3, <1>4, <1>10
<1>11. \A c \in Boxes : PairOf(c) # PairOf(t.box) => UnreadOf(offl', c) = UnreadOf(offl, c)
  BY <1>3
<1> QED BY <1>1, <1>2, <1>3, <1>9, <1>10, <1>11, CleanStep

\* DELFRIEND takes away both records and the messages the other has not read.
LEMMA CleanRecords ==
    ASSUME MutualInv, ConstantsAssumption,
           CleanInv(frie, mess, offl, hist, consent, tasks, torn, crossed, met'),
           NEW t \in tasks, Step(t), DeleteRecords(t)
    PROVE  CleanInv(frie', mess', offl', hist', consent', tasks', torn', crossed', met')
<1> DEFINE b == t.box
           e == Swap(t.box)
<1>1. TypeOK
  BY DEF MutualInv
<1>2. /\ t.op = "delete" /\ t.step = "records" /\ tasks' = tasks \ {t}
      /\ frie' = [frie EXCEPT ![b] = None, ![e] = None]
      /\ offl' = offl \ {o \in UnreadOf(offl, e) : o[3] < t.n}
      /\ \A c \in consent : c # b /\ c # e => c \in consent'
      /\ mess' = mess /\ hist' = hist
  BY <1>1, DeleteEffects, UnreadIs DEF Done
<1>3. /\ t.box = b /\ b \in Boxes /\ e \in Boxes /\ Swap(e) = b /\ Swap(b) = e
      /\ e # b /\ PairOf(e) = PairOf(b)
      /\ \A c \in Boxes : PairOf(c) = PairOf(b) <=> c = b \/ c = e
  <2>1. b \in Boxes
    BY <1>1, <1>2, Kinds DEF Begun
  <2> QED BY <2>1, TwoBoxes
<1> HIDE DEF b, e
<1>4. /\ ~Has(frie', b) /\ ~Has(frie', e)
      /\ \A c \in Boxes : c # b /\ c # e => frie'[c] = frie[c]
      /\ \A c \in Boxes : c # e => UnreadOf(offl', c) = UnreadOf(offl, c)
  BY <1>1, <1>2, <1>3 DEF TypeOK, Has, UnreadOf
<1>5. ASSUME PairOf(b) \notin torn' \cup crossed', NEW s \in tasks, Begun(s),
             PairOf(s.box) = PairOf(b), s # t
      PROVE  s.op \notin {"add", "yes", "delete", "chat", "message"}
  <2>1. ~Tears(s.op, t.op)
    BY <1>3, <1>5, CleanFacts
  <2> QED BY <1>2, <2>1 DEF Tears
<1>6. ASSUME PairOf(b) \notin torn' \cup crossed'
      PROVE  /\ b \notin mess /\ e \notin mess
             /\ PairOf(b) \notin met' =>
                   /\ PairOf(b) \notin hist
                   /\ UnreadOf(offl', b) = {} /\ UnreadOf(offl', e) = {}
  <2>1. /\ TaskSound(met', frie, mess, offl, hist, consent, t) /\ Held(frie, t)
        /\ BoxSound(met', frie, mess, offl, hist, consent, tasks, b)
        /\ BoxSound(met', frie, mess, offl, hist, consent, tasks, e)
        /\ Mutual(frie, tasks, b)
    BY <1>3, <1>6, CleanFacts
  <2>2. /\ PairOf(b) \notin met' =>
              PairOf(b) \notin hist /\ t.n = frie[e] /\ UnreadOf(offl, b) = {}
        /\ Has(frie, b)
    BY <1>2, <1>3, <2>1 DEF TaskSound, Deleting, Held, Begun
  <2>3. Has(frie, e)
    <3>1. ASSUME NEW s \in tasks, Halfway(s), PairOf(s.box) = PairOf(b) PROVE FALSE
      <4>1. Begun(s) /\ s # t /\ s.op \in {"add", "yes"}
        BY <1>2, <3>1 DEF Halfway, Begun
      <4> QED BY <1>5, <1>6, <3>1, <4>1
    <3> QED BY <1>3, <2>1, <2>2, <3>1 DEF Mutual
  <2>4. ASSUME NEW s \in tasks, Accepting(s), PairOf(s.box) = PairOf(b) PROVE FALSE
    <3>1. Begun(s) /\ s # t /\ s.op \in {"add", "yes"}
      BY <1>2, <2>4 DEF Accepting, Begun
    <3> QED BY <1>5, <1>6, <2>4, <3>1
  <2>5. b \notin mess /\ e \notin mess
    BY <1>3, <2>1, <2>2, <2>3, <2>4 DEF BoxSound, Requested
  <2>6. ASSUME NEW s \in tasks, NEW k, Covers(s, e, k) PROVE FALSE
    <3>1. Begun(s) /\ s # t /\ PairOf(s.box) = PairOf(b) /\ s.op \in {"message", "chat"}
      BY <1>2, <1>3, <2>6 DEF Begun, Covers, Fetching
    <3> QED BY <1>5, <1>6, <3>1
  <2>7. PairOf(b) \notin met' => \A o \in UnreadOf(offl, e) : o[3] < t.n
    BY <1>3, <2>1, <2>2, <2>6 DEF BoxSound, Filed, Counted
  <2>8. PairOf(b) \notin met' => UnreadOf(offl', e) = {}
    BY <1>2, <2>7 DEF UnreadOf
  <2> QED BY <1>3, <1>4, <2>2, <2>5, <2>8
<1>7. ASSUME PairOf(b) \notin torn' \cup crossed', NEW c \in Boxes, PairOf(c) = PairOf(b)
      PROVE  BoxSound(met', frie', mess, offl', hist, consent', tasks', c)
  <2>1. c = b \/ c = e
    BY <1>3, <1>7
  <2>2. Filed(met', frie', offl', hist, tasks', c)
    BY <2>1, <1>2, <1>3, <1>4, <1>6, <1>7 DEF Filed, Counted, Dense
  <2>3. ~Has(frie', c) /\ c \notin mess
    BY <2>1, <1>4, <1>6, <1>7
  <2> QED BY <2>2, <2>3 DEF BoxSound, Requested, Agreed
<1>8. ASSUME PairOf(b) \notin torn' \cup crossed', NEW s \in tasks',
             PairOf(s.box) = PairOf(b)
      PROVE  TaskSound(met', frie', mess, offl', hist, consent', s)
  <2>1. CASE s.step # "begin"
    <3>1. s.op \notin {"add", "yes", "delete", "chat", "message"}
      BY <1>2, <1>5, <1>8, <2>1 DEF Begun
    <3> QED BY <3>1, <2>1 DEF TaskSound, Strangers, Deleting, Counting, Fetching, Accepting
  <2>2. CASE s.step = "begin"
    <3>1. TaskSound(met', frie, mess, offl, hist, consent, s)
      BY <1>2, <1>3, <1>8, CleanFacts
    <3> QED BY <3>1, <2>2, StillNotBegun
  <2> QED BY <2>1, <2>2
<1>9. \A c \in Boxes : PairOf(c) # PairOf(t.box) => /\ frie'[c] = frie[c]
                                                    /\ UnreadOf(offl', c) = UnreadOf(offl, c)
                                                    /\ c \in consent => c \in consent'
  BY <1>2, <1>3, <1>4
<1> QED BY <1>1, <1>2, <1>3, <1>7, <1>8, <1>9, CleanStep

\* CHAT resets a counter that is there, and is about to fetch what it counted.
LEMMA CleanReset ==
    ASSUME MutualInv, ConstantsAssumption,
           CleanInv(frie, mess, offl, hist, consent, tasks, torn, crossed, met'),
           NEW t \in tasks, Step(t), ChatReset(t)
    PROVE  CleanInv(frie', mess', offl', hist', consent', tasks', torn', crossed', met')
<1> DEFINE b == t.box
           next == IF t.n = 0 THEN "own" ELSE "fetch"
           Gone(s) == /\ s.op = "chat" /\ s.box = b /\ s.step = next
                      /\ s.n = t.n /\ s.i = t.i
<1>1. TypeOK
  BY DEF MutualInv
<1>2. /\ t.op = "chat" /\ t.step = "reset" /\ GoesAt(t, next, t.n, t.i)
      /\ frie' = [frie EXCEPT ![b] = 0]
      /\ offl' = offl /\ hist' = hist /\ mess' = mess /\ consent' = consent
  BY <1>1, ChatEffects
<1>3. /\ t.box = b /\ b \in Boxes /\ Swap(b) \in Boxes /\ Swap(Swap(b)) = b
      /\ PairOf(Swap(b)) = PairOf(b)
      /\ \A c \in Boxes : PairOf(c) = PairOf(b) <=> c = b \/ c = Swap(b)
  <2>1. b \in Boxes
    BY <1>1, <1>2, Kinds DEF Begun
  <2> QED BY <2>1, TwoBoxes
<1>4. t.n \in Nat /\ next \in {"own", "fetch"}
  BY <1>1, Kinds
<1>5. /\ \A s \in tasks' : s \in tasks \ {t} \/ Gone(s)
      /\ \E s \in tasks' : Gone(s)
      /\ tasks \ {t} \subseteq tasks'
  <2>1. PICK r : /\ Moves(t, r) /\ r.step = next /\ r.n = t.n /\ r.i = t.i
                 /\ tasks' = (tasks \ {t}) \cup {r}
    BY <1>2 DEF GoesAt
  <2>2. Gone(r)
    BY <1>2, <2>1 DEF Moves
  <2> HIDE DEF Gone
  <2> QED BY <2>1, <2>2
<1> HIDE DEF b
<1>6. /\ frie'[b] = 0 /\ Has(frie', b)
      /\ \A c \in Boxes : c # b => frie'[c] = frie[c]
  BY <1>1, <1>2, <1>3, HasNumber DEF TypeOK, Has
<1>7. \A s \in tasks : Relied(s) => s \in tasks'
  BY <1>2, <1>5 DEF Relied, Needed, Accepting, Fetching
<1>8. ASSUME PairOf(b) \notin torn' \cup crossed', NEW s \in tasks \ {t},
             PairOf(s.box) = PairOf(b)
      PROVE  /\ TaskSound(met', frie, mess, offl, hist, consent, s)
             /\ s.step # "begin" =>
                   /\ s.op # "delete" /\ s.box \in Boxes
                   /\ PairOf(b) \notin met' => s.op \notin {"chat", "message"}
  <2>1. /\ TaskSound(met', frie, mess, offl, hist, consent, s)
        /\ Begun(s) => /\ ~Tears(s.op, t.op)
                       /\ PairOf(b) \notin met' => ~Meets(s.op, t.op)
                       /\ s.box = b \/ s.box = Swap(b)
    BY <1>3, <1>8, CleanFacts
  <2> QED BY <1>2, <1>3, <2>1 DEF Tears, Meets, Begun
<1>9. ASSUME PairOf(b) \notin torn' \cup crossed'
      PROVE  /\ BoxSound(met', frie, mess, offl, hist, consent, tasks, b)
             /\ BoxSound(met', frie, mess, offl, hist, consent, tasks, Swap(b))
             /\ TaskSound(met', frie, mess, offl, hist, consent, t)
             /\ \A c \in Boxes : Has(frie', c) <=> Has(frie, c)
  <2>1. /\ BoxSound(met', frie, mess, offl, hist, consent, tasks, b)
        /\ BoxSound(met', frie, mess, offl, hist, consent, tasks, Swap(b))
        /\ TaskSound(met', frie, mess, offl, hist, consent, t) /\ Held(frie, t)
    BY <1>3, <1>9, CleanFacts
  <2>2. Has(frie, b)
    BY <1>2, <1>3, <2>1 DEF Held, Begun
  <2>3. \A c \in Boxes : Has(frie', c) <=> Has(frie, c)
    BY <1>6, <2>2 DEF Has
  <2> QED BY <2>1, <2>3
<1>10. ASSUME PairOf(b) \notin torn' \cup crossed', PairOf(b) \notin met'
       PROVE  /\ t.i = 0 /\ \A o \in UnreadOf(offl, b) : o[3] < t.n
              /\ \A k \in Nat : k < t.n => Message(b, k) \in UnreadOf(offl, b)
  <2>1. t.i = 0 /\ t.n = frie[b] /\ Has(frie, b)
    BY <1>2, <1>3, <1>6, <1>9, <1>10 DEF TaskSound, Counting
  <2>2. Counted(frie, offl, tasks, b) /\ Dense(frie, offl, tasks, b)
    BY <1>9, <1>10 DEF BoxSound, Filed
  <2>3. ASSUME NEW s \in tasks, NEW k, Covers(s, b, k) PROVE FALSE
    <3>1. /\ s \in tasks \ {t} /\ PairOf(s.box) = PairOf(b)
          /\ s.op \in {"message", "chat"} /\ s.step # "begin"
      BY <1>2, <2>3 DEF Covers, Fetching
    <3> QED BY <1>8, <1>10, <3>1
  <2>4. ASSUME NEW s \in tasks, Clears(s, b) PROVE FALSE
    <3>1. /\ s \in tasks \ {t} /\ PairOf(s.box) = PairOf(b)
          /\ s.op = "delete" /\ s.step # "begin"
      BY <1>2, <2>4 DEF Clears
    <3> QED BY <1>8, <1>10, <3>1
  <2>5. \A o \in UnreadOf(offl, b) : o[3] < t.n
    BY <2>1, <2>2, <2>3 DEF Counted
  <2>6. \A k \in Nat : k < t.n => Message(b, k) \in UnreadOf(offl, b)
    BY <2>1, <2>2, <2>4 DEF Dense
  <2> QED BY <2>1, <2>5, <2>6
<1>11. ASSUME PairOf(b) \notin torn' \cup crossed', NEW c \in Boxes, PairOf(c) = PairOf(b)
       PROVE  BoxSound(met', frie', mess, offl, hist, consent, tasks', c)
  <2>1. (c = b \/ c = Swap(b)) /\ Swap(c) \in Boxes
    BY <1>3, <1>11
  <2>2. BoxSound(met', frie, mess, offl, hist, consent, tasks, c)
    BY <2>1, <1>9, <1>11
  <2>3. /\ Has(frie', c) <=> Has(frie, c)
        /\ Has(frie', Swap(c)) <=> Has(frie, Swap(c))
    BY <2>1, <1>9, <1>11
  <2>4. Requested(frie, mess, consent, tasks', c) /\ Filed(met', frie, offl, hist, tasks', c)
    BY <2>2, <1>7, ReliedOn DEF BoxSound
  <2>5. Requested(frie', mess, consent, tasks', c) /\ Agreed(frie', consent, c)
    BY <2>2, <2>3, <2>4 DEF BoxSound, Requested, Agreed
  <2>6. CASE c = b
    <3>1. Dense(frie', offl, tasks', c)
      BY <2>6, <1>6 DEF Dense
    <3>2. ASSUME PairOf(c) \notin met', NEW o \in UnreadOf(offl, c)
          PROVE  \E s \in tasks' : Covers(s, c, o[3])
      <4>1. o[3] \in Nat /\ o[3] < t.n /\ t.i = 0 /\ t.n # 0 /\ t.i <= o[3]
        BY <1>1, <1>4, <1>10, <1>11, <2>6, <3>2, MessageIs
      <4> QED BY <1>5, <2>6, <4>1 DEF Covers, Fetching
    <3>3. PairOf(c) \notin met' => Counted(frie', offl, tasks', c)
      BY <2>6, <3>2, <1>6 DEF Counted
    <3>4. PairOf(c) \notin met' =>
              (PairOf(c) \in hist => Has(frie', c) \/ Has(frie', Swap(c)))
      BY <2>6, <1>6
    <3> QED BY <2>5, <3>1, <3>3, <3>4 DEF BoxSound, Filed
  <2>7. CASE c # b
    <3>1. frie'[c] = frie[c]
      BY <2>7, <1>6
    <3>2. Filed(met', frie', offl, hist, tasks', c)
      BY <2>3, <2>4, <3>1 DEF Filed, Counted, Dense
    <3> QED BY <2>5, <3>2 DEF BoxSound
  <2> QED BY <2>6, <2>7
<1>12. ASSUME PairOf(b) \notin torn' \cup crossed', NEW s \in tasks',
              PairOf(s.box) = PairOf(b)
       PROVE  TaskSound(met', frie', mess, offl, hist, consent, s)
  <2>1. CASE s \in tasks \ {t} /\ s.step = "begin"
    BY <1>8, <1>12, <2>1, StillNotBegun
  <2>2. CASE s \in tasks \ {t} /\ s.step # "begin"
    <3>1. /\ TaskSound(met', frie, mess, offl, hist, consent, s)
          /\ s.op # "delete" /\ s.box \in Boxes /\ Swap(s.box) \in Boxes
          /\ PairOf(s.box) \notin met' => s.op \notin {"chat", "message"}
      BY <1>8, <1>12, <2>2, TwoBoxes
    <3>2. /\ Has(frie', s.box) <=> Has(frie, s.box)
          /\ Has(frie', Swap(s.box)) <=> Has(frie, Swap(s.box))
      BY <1>9, <1>12, <3>1
    <3>3. Strangers(frie', mess, consent, s)
      BY <3>1, <3>2 DEF TaskSound, Strangers
    <3> QED BY <3>1, <3>3 DEF TaskSound, Deleting, Counting, Fetching
  <2>3. CASE Gone(s)
    <3>1. CASE t.n = 0
      BY <2>3, <3>1 DEF TaskSound, Strangers, Deleting, Counting, Fetching, Accepting
    <3>2. CASE t.n # 0
      <4>1. PairOf(s.box) \notin met' =>
                /\ frie'[s.box] = 0 /\ s.i < s.n
                /\ \A k \in Nat : s.i <= k /\ k < s.n =>
                      Message(s.box, k) \in UnreadOf(offl, s.box)
        BY <2>3, <3>2, <1>4, <1>6, <1>10, <1>12
      <4> QED BY <2>3, <3>2, <4>1
           DEF TaskSound, Strangers, Deleting, Counting, Accepting
    <3> QED BY <3>1, <3>2
  <2> QED BY <2>1, <2>2, <2>3, <1>5, <1>12
<1>13. \A c \in Boxes : PairOf(c) # PairOf(t.box) => frie'[c] = frie[c]
  BY <1>3, <1>6
<1> QED BY <1>1, <1>2, <1>3, <1>11, <1>12, <1>13, CleanStep

\* Beside a CHAT that fetches nothing else counts or takes messages, in a pair
\* of which no CHAT met anything.
LEMMA FetchingAlone ==
    ASSUME MutualInv, CleanInv(frie, mess, offl, hist, consent, tasks, torn, crossed, met'),
           NEW t \in tasks, Step(t), t.op = "chat", t.step # "begin",
           PairOf(t.box) \notin torn' \cup crossed'
    PROVE  /\ Has(frie, t.box)
           /\ \A s \in tasks \ {t} : PairOf(s.box) = PairOf(t.box) =>
                 /\ TaskSound(met', frie, mess, offl, hist, consent, s)
                 /\ s.step # "begin" =>
                       /\ s.op # "delete" /\ s.box \in Boxes
                       /\ PairOf(s.box) \notin met' => s.op \notin {"chat", "message"}
           /\ \A c \in Boxes : PairOf(c) = PairOf(t.box) =>
                 BoxSound(met', frie, mess, offl, hist, consent, tasks, c)
           /\ TaskSound(met', frie, mess, offl, hist, consent, t)
<1>1. t.box \in Boxes /\ Swap(t.box) \in Boxes
  BY Kinds, TwoBoxes DEF MutualInv
<1>2. Has(frie, t.box)
  BY <1>1, CleanFacts DEF Held, Begun
<1>3. ASSUME NEW s \in tasks \ {t}, PairOf(s.box) = PairOf(t.box)
      PROVE  /\ TaskSound(met', frie, mess, offl, hist, consent, s)
             /\ s.step # "begin" =>
                   /\ s.op # "delete" /\ s.box \in Boxes
                   /\ PairOf(s.box) \notin met' => s.op \notin {"chat", "message"}
  <2>1. /\ TaskSound(met', frie, mess, offl, hist, consent, s)
        /\ Begun(s) => /\ ~Tears(s.op, t.op)
                       /\ PairOf(s.box) \notin met' => ~Meets(s.op, t.op)
                       /\ s.box = t.box \/ s.box = Swap(t.box)
    BY <1>1, <1>3, CleanFacts
  <2> QED BY <1>1, <2>1 DEF Tears, Meets, Begun
<1>4. /\ \A c \in Boxes : PairOf(c) = PairOf(t.box) =>
            BoxSound(met', frie, mess, offl, hist, consent, tasks, c)
      /\ TaskSound(met', frie, mess, offl, hist, consent, t)
  BY <1>1, CleanFacts
<1> QED BY <1>2, <1>3, <1>4

\* A message that is fetched and pushed to the history is still to be taken.
LEMMA CleanFetch ==
    ASSUME MutualInv, ConstantsAssumption,
           CleanInv(frie, mess, offl, hist, consent, tasks, torn, crossed, met'),
           NEW t \in tasks, Step(t), ChatFetch(t) \/ ChatPush(t)
    PROVE  CleanInv(frie', mess', offl', hist', consent', tasks', torn', crossed', met')
<1> DEFINE b == t.box
           Gone(s) == /\ s.op = "chat" /\ s.box = b /\ s.step \in {"push", "hdel"}
                      /\ s.n = t.n /\ s.i = t.i
<1>1. TypeOK
  BY DEF MutualInv
<1>2. /\ t.op = "chat" /\ t.step \in {"fetch", "push"}
      /\ \/ GoesAt(t, "push", t.n, t.i) \/ GoesAt(t, "hdel", t.n, t.i)
         \/ t.step = "fetch" /\ Message(b, t.i) \notin offl /\ Done(t)
      /\ hist \subseteq hist' /\ hist' \subseteq hist \cup {PairOf(b)}
      /\ frie' = frie /\ offl' = offl /\ mess' = mess /\ consent' = consent
  <2>1. CASE ChatFetch(t)
    BY <1>1, <2>1, ChatEffects DEF Quiet
  <2>2. CASE ChatPush(t)
    BY <1>1, <2>2, ChatEffects
  <2> QED BY <2>1, <2>2
<1>3. /\ t.box = b /\ b \in Boxes /\ t.i \in Nat
      /\ \A c \in Boxes : PairOf(c) = PairOf(b) => c = b \/ Swap(c) = b
  <2>1. b \in Boxes /\ t.i \in Nat
    BY <1>1, <1>2, Kinds DEF Begun
  <2> QED BY <2>1, TwoBoxes
<1>4. /\ \A s \in tasks' : s \in tasks \ {t} \/ Gone(s)
      /\ (t.step = "fetch" /\ Message(b, t.i) \notin offl) \/ \E s \in tasks' : Gone(s)
      /\ tasks \ {t} \subseteq tasks'
  <2>1. CASE t.step = "fetch" /\ Message(b, t.i) \notin offl /\ Done(t)
    BY <2>1 DEF Done
  <2>2. CASE GoesAt(t, "push", t.n, t.i) \/ GoesAt(t, "hdel", t.n, t.i)
    <3>1. PICK r : /\ Moves(t, r) /\ r.step \in {"push", "hdel"} /\ r.n = t.n /\ r.i = t.i
                   /\ tasks' = (tasks \ {t}) \cup {r}
      BY <2>2 DEF GoesAt
    <3>2. Gone(r)
      BY <1>2, <3>1 DEF Moves
    <3> HIDE DEF Gone
    <3> QED BY <3>1, <3>2
  <2> QED BY <1>2, <2>1, <2>2
<1> HIDE DEF b
<1>5. ASSUME PairOf(b) \notin torn' \cup crossed'
      PROVE  /\ Has(frie, b)
             /\ \A s \in tasks \ {t} : PairOf(s.box) = PairOf(b) =>
                   /\ TaskSound(met', frie, mess, offl, hist, consent, s)
                   /\ s.step # "begin" => s.op # "delete"
             /\ \A c \in Boxes : PairOf(c) = PairOf(b) =>
                   BoxSound(met', frie, mess, offl, hist, consent, tasks, c)
             /\ TaskSound(met', frie, mess, offl, hist, consent, t)
  BY <1>2, <1>3, <1>5, FetchingAlone
<1>6. ASSUME PairOf(b) \notin torn' \cup crossed', PairOf(b) \notin met'
      PROVE  /\ frie[b] = 0 /\ t.i < t.n
             /\ \A k \in Nat : t.i <= k /\ k < t.n => Message(b, k) \in UnreadOf(offl, b)
             /\ \E s \in tasks' : Gone(s)
  <2>1. Fetching(t)
    BY <1>2 DEF Fetching
  <2>2. /\ frie[b] = 0 /\ t.i < t.n
        /\ \A k \in Nat : t.i <= k /\ k < t.n => Message(b, k) \in UnreadOf(offl, b)
    BY <1>3, <1>5, <1>6, <2>1 DEF TaskSound, Counting
  <2>3. t.i <= t.i
    BY <1>3
  <2>4. Message(b, t.i) \in offl
    BY <1>3, <2>2, <2>3 DEF UnreadOf
  <2> QED BY <1>4, <2>2, <2>4
<1> HIDE DEF Gone
<1>7. ASSUME PairOf(b) \notin torn' \cup crossed', NEW c \in Boxes, PairOf(c) = PairOf(b)
      PROVE  BoxSound(met', frie, mess, offl, hist', consent, tasks', c)
  <2>1. BoxSound(met', frie, mess, offl, hist, consent, tasks, c)
    BY <1>5, <1>7
  <2>2. Requested(frie, mess, consent, tasks', c)
    <3>1. \A s \in tasks : Accepting(s) => s \in tasks'
      BY <1>2, <1>4 DEF Accepting
    <3> QED BY <2>1, <3>1 DEF BoxSound, Requested
  <2>3. Has(frie, c) \/ Has(frie, Swap(c))
    BY <1>3, <1>5, <1>7
  <2>4. ASSUME PairOf(c) \notin met'
        PROVE  Counted(frie, offl, tasks', c) /\ Dense(frie, offl, tasks', c)
    <3>1. Counted(frie, offl, tasks, c) /\ Dense(frie, offl, tasks, c)
      BY <2>1, <2>4 DEF BoxSound, Filed
    <3>2. ASSUME NEW s \in tasks, NEW k, Covers(s, c, k)
          PROVE  \E r \in tasks' : Covers(r, c, k)
      <4>1. CASE s = t
        <5>1. PICK r \in tasks' : Gone(r)
          BY <1>6, <1>7, <2>4
        <5>2. Covers(r, c, k)
          BY <1>2, <1>3, <3>2, <4>1, <5>1 DEF Covers, Gone, Fetching
        <5> QED BY <5>2
      <4> QED BY <3>2, <4>1, <1>4
    <3>3. \A s \in tasks : Clears(s, c) => s \in tasks'
      BY <1>2, <1>4 DEF Clears
    <3> QED BY <3>1, <3>2, <3>3 DEF Counted, Dense
  <2> QED BY <2>1, <2>2, <2>3, <2>4 DEF BoxSound, Filed
<1>8. ASSUME PairOf(b) \notin torn' \cup crossed', NEW s \in tasks',
             PairOf(s.box) = PairOf(b)
      PROVE  TaskSound(met', frie, mess, offl, hist', consent, s)
  <2>1. CASE s \in tasks \ {t}
    <3>1. /\ TaskSound(met', frie, mess, offl, hist, consent, s)
          /\ s.step # "begin" => s.op # "delete"
      BY <1>5, <1>8, <2>1
    <3> QED BY <3>1 DEF TaskSound, Deleting
  <2>2. CASE Gone(s)
    BY <2>2, <1>6, <1>8
       DEF Gone, TaskSound, Strangers, Deleting, Counting, Fetching, Accepting
  <2> QED BY <2>1, <2>2, <1>4, <1>8
<1>9. \A c \in Boxes : PairOf(c) # PairOf(t.box) => (PairOf(c) \in hist' <=> PairOf(c) \in hist)
  BY <1>2, <1>3
<1> QED BY <1>1, <1>2, <1>3, <1>7, <1>8, <1>9, CleanStep

\* A message that is taken was there, and the next are.
LEMMA CleanHdel ==
    ASSUME MutualInv, ConstantsAssumption,
           CleanInv(frie, mess, offl, hist, consent, tasks, torn, crossed, met'),
           NEW t \in tasks, Step(t), ChatHdel(t)
    PROVE  CleanInv(frie', mess', offl', hist', consent', tasks', torn', crossed', met')
<1> DEFINE b == t.box
           next == IF t.i + 1 = t.n THEN "own" ELSE "fetch"
           Gone(s) == /\ s.op = "chat" /\ s.box = b /\ s.step = next
                      /\ s.n = t.n /\ s.i = t.i + 1
<1>1. TypeOK
  BY DEF MutualInv
<1>2. /\ t.op = "chat" /\ t.step = "hdel" /\ GoesAt(t, next, t.n, t.i + 1)
      /\ offl' = offl \ {Message(b, t.i)}
      /\ frie' = frie /\ hist' = hist /\ mess' = mess /\ consent' = consent
  BY <1>1, ChatEffects
<1>3. t.box = b /\ b \in Boxes /\ t.i \in Nat /\ t.n \in Nat
  BY <1>1, <1>2, Kinds DEF Begun
<1>4. /\ \A s \in tasks' : s \in tasks \ {t} \/ Gone(s)
      /\ \E s \in tasks' : Gone(s)
      /\ tasks \ {t} \subseteq tasks'
  <2>1. PICK r : /\ Moves(t, r) /\ r.step = next /\ r.n = t.n /\ r.i = t.i + 1
                 /\ tasks' = (tasks \ {t}) \cup {r}
    BY <1>2 DEF GoesAt
  <2>2. Gone(r)
    BY <1>2, <2>1 DEF Moves
  <2> HIDE DEF Gone
  <2> QED BY <2>1, <2>2
<1> HIDE DEF b
<1>5. /\ UnreadOf(offl', b) = UnreadOf(offl, b) \ {Message(b, t.i)}
      /\ \A c \in Boxes : c # b => UnreadOf(offl', c) = UnreadOf(offl, c)
  <2>1. ASSUME NEW c \in Boxes, c # b PROVE <<Message(b, t.i)[1], Message(b, t.i)[2]>> # c
    BY <1>3, <2>1 DEF Message, Boxes
  <2> QED BY <1>2, <2>1 DEF UnreadOf
<1>6. ASSUME PairOf(b) \notin torn' \cup crossed'
      PROVE  /\ Has(frie, b)
             /\ \A s \in tasks \ {t} : PairOf(s.box) = PairOf(b) =>
                   /\ TaskSound(met', frie, mess, offl, hist, consent, s)
                   /\ s.step # "begin" =>
                         /\ s.op # "delete" /\ s.box \in Boxes
                         /\ PairOf(s.box) \notin met' => s.op \notin {"chat", "message"}
             /\ \A c \in Boxes : PairOf(c) = PairOf(b) =>
                   BoxSound(met', frie, mess, offl, hist, consent, tasks, c)
             /\ TaskSound(met', frie, mess, offl, hist, consent, t)
  <2>1. t.step # "begin"
    BY <1>2
  <2> QED BY <1>2, <1>3, <1>6, <2>1, FetchingAlone
<1>7. ASSUME PairOf(b) \notin torn' \cup crossed', PairOf(b) \notin met'
      PROVE  /\ frie[b] = 0 /\ t.i < t.n
             /\ \A k \in Nat : t.i <= k /\ k < t.n => Message(b, k) \in UnreadOf(offl, b)
  <2>1. Fetching(t)
    BY <1>2 DEF Fetching
  <2> QED BY <1>3, <1>6, <1>7, <2>1 DEF TaskSound, Counting
<1>8. ASSUME PairOf(b) \notin torn' \cup crossed', NEW c \in Boxes, PairOf(c) = PairOf(b)
      PROVE  BoxSound(met', frie, mess, offl', hist, consent, tasks', c)
  <2>1. BoxSound(met', frie, mess, offl, hist, consent, tasks, c)
    BY <1>6, <1>8
  <2>2. Requested(frie, mess, consent, tasks', c)
    <3>1. \A s \in tasks : Accepting(s) => s \in tasks'
      BY <1>2, <1>4 DEF Accepting
    <3> QED BY <2>1, <3>1 DEF BoxSound, Requested
  <2>3. CASE c # b
    <3>1. UnreadOf(offl', c) = UnreadOf(offl, c)
      BY <1>5, <2>3
    <3>2. \A s \in tasks : s.box = c => s \in tasks'
      BY <1>3, <1>4, <2>3
    <3>3. Filed(met', frie, offl, hist, tasks', c)
      BY <2>1, <3>2, FiledOn DEF BoxSound
    <3> QED BY <2>1, <2>2, <3>1, <3>3, SameBox DEF BoxSound
  <2>4. CASE c = b
    <3>1. ASSUME PairOf(b) \notin met', NEW o \in UnreadOf(offl', b)
          PROVE  \E s \in tasks' : Covers(s, b, o[3])
      <4>1. o \in UnreadOf(offl, b) /\ o # Message(b, t.i)
        BY <1>5, <3>1
      <4>2. o[3] \in Nat /\ o[3] # t.i
        BY <1>1, <1>3, <4>1, MessageIs
      <4>3. Counted(frie, offl, tasks, b) /\ frie[b] = 0
        BY <1>7, <1>8, <2>1, <2>4, <3>1 DEF BoxSound, Filed
      <4>4. PICK s \in tasks : Covers(s, b, o[3])
        BY <4>1, <4>2, <4>3 DEF Counted
      <4>5. s = t
        <5>1. s.op \in {"chat", "message"} /\ s.step # "begin" /\ PairOf(s.box) = PairOf(b)
          BY <4>4 DEF Covers, Fetching
        <5> QED BY <1>6, <1>8, <3>1, <5>1
      <4>6. t.i <= o[3] /\ o[3] < t.n
        BY <1>2, <4>4, <4>5 DEF Covers
      <4>7. t.i + 1 <= o[3] /\ t.i + 1 # t.n
        BY <1>3, <4>2, <4>6
      <4> QED BY <1>4, <4>6, <4>7 DEF Covers, Fetching
    <3>2. PairOf(b) \notin met' => Counted(frie, offl', tasks', b)
      BY <1>6, <1>8, <3>1 DEF Counted
    <3>3. PairOf(b) \notin met' => Dense(frie, offl', tasks', b)
      BY <1>7, <1>8 DEF Dense
    <3>4. Filed(met', frie, offl', hist, tasks', b)
      BY <1>6, <1>8, <3>2, <3>3 DEF Filed
    <3> QED BY <2>1, <2>2, <2>4, <3>4 DEF BoxSound
  <2> QED BY <2>3, <2>4
<1>9. ASSUME PairOf(b) \notin torn' \cup crossed', NEW s \in tasks',
             PairOf(s.box) = PairOf(b)
      PROVE  TaskSound(met', frie, mess, offl', hist, consent, s)
  <2>1. CASE s \in tasks \ {t} /\ s.step = "begin"
    BY <1>6, <1>9, <2>1, StillNotBegun
  <2>2. CASE s \in tasks \ {t} /\ s.step # "begin"
    <3>1. /\ TaskSound(met', frie, mess, offl, hist, consent, s)
          /\ s.op # "delete"
          /\ PairOf(s.box) \notin met' => s.op \notin {"chat", "message"}
      BY <1>6, <1>9, <2>2
    <3> QED BY <3>1 DEF TaskSound, Deleting, Counting, Fetching
  <2>3. CASE Gone(s)
    <3>1. Strangers(frie, mess, consent, s) /\ Deleting(met', frie, offl', hist, s)
      BY <2>3 DEF Strangers, Deleting, Accepting
    <3>2. CASE next = "own"
      BY <2>3, <3>1, <3>2 DEF TaskSound, Counting, Fetching
    <3>3. CASE next = "fetch" /\ t.i + 1 # t.n
      <4>1. ASSUME PairOf(b) \notin met', NEW k \in Nat, t.i + 1 <= k, k < t.n
            PROVE  Message(b, k) \in UnreadOf(offl', b)
        <5>1. t.i <= k /\ k # t.i
          BY <1>3, <4>1
        <5>2. Message(b, k) \in UnreadOf(offl, b)
          BY <1>7, <1>9, <4>1, <5>1
        <5>3. Message(b, k) # Message(b, t.i)
          BY <1>1, <1>3, <5>1, MessageIs
        <5> QED BY <1>5, <5>2, <5>3
      <4>2. PairOf(b) \notin met' => frie[b] = 0 /\ t.i + 1 < t.n
        BY <1>3, <1>7, <1>9, <3>3
      <4>3. Counting(met', frie, offl', s)
        BY <2>3, <3>3, <4>1, <4>2 DEF Counting
      <4> QED BY <3>1, <4>3 DEF TaskSound
    <3> QED BY <3>2, <3>3
  <2> QED BY <2>1, <2>2, <2>3, <1>4, <1>9
<1>10. \A c \in Boxes : PairOf(c) # PairOf(t.box) => UnreadOf(offl', c) = UnreadOf(offl, c)
  BY <1>3, <1>5
<1> QED BY <1>1, <1>2, <1>3, <1>8, <1>9, <1>10, CleanStep

\* A message filed as read is one between friends.
LEMMA CleanRead ==
    ASSUME MutualInv, ConstantsAssumption,
           CleanInv(frie, mess, offl, hist, consent, tasks, torn, crossed, met'),
           NEW t \in tasks, Step(t), MessageRead(t)
    PROVE  CleanInv(frie', mess', offl', hist', consent', tasks', torn', crossed', met')
<1> DEFINE b == t.box
<1>1. TypeOK
  BY DEF MutualInv
<1>2. /\ t.op = "message" /\ t.step = "read" /\ tasks' = tasks \ {t}
      /\ hist' = hist \cup {PairOf(b)}
      /\ frie' = frie /\ mess' = mess /\ offl' = offl /\ consent' = consent
  BY <1>1, MessageEffects DEF Done
<1>3. /\ t.box = b /\ b \in Boxes
      /\ \A c \in Boxes : PairOf(c) = PairOf(b) => c = b \/ Swap(c) = b
  <2>1. b \in Boxes
    BY <1>1, <1>2, Kinds DEF Begun
  <2> QED BY <2>1, TwoBoxes
<1> HIDE DEF b
<1>4. ASSUME PairOf(b) \notin torn' \cup crossed'
      PROVE  /\ Has(frie, b)
             /\ \A s \in tasks \ {t} : PairOf(s.box) = PairOf(b) =>
                   /\ TaskSound(met', frie, mess, offl, hist, consent, s)
                   /\ Begun(s) => s.op # "delete"
  <2>1. Has(frie, b)
    BY <1>2, <1>3, <1>4, CleanFacts
  <2>2. \A s \in tasks \ {t} : PairOf(s.box) = PairOf(b) =>
            /\ TaskSound(met', frie, mess, offl, hist, consent, s)
            /\ Begun(s) => ~Tears(s.op, t.op)
    BY <1>3, <1>4, CleanFacts
  <2>3. Tears("delete", t.op)
    BY <1>2 DEF Tears
  <2> QED BY <2>1, <2>2, <2>3
<1>5. ASSUME PairOf(b) \notin torn' \cup crossed', NEW c \in Boxes, PairOf(c) = PairOf(b)
      PROVE  BoxSound(met', frie, mess, offl, hist', consent, tasks', c)
  <2>1. BoxSound(met', frie, mess, offl, hist, consent, tasks, c)
    BY <1>3, <1>5, CleanFacts
  <2>2. \A s \in tasks : Relied(s) => s \in tasks'
    BY <1>2 DEF Relied, Needed, Accepting, Fetching
  <2>3. Requested(frie, mess, consent, tasks', c) /\ Filed(met', frie, offl, hist, tasks', c)
    BY <2>1, <2>2, ReliedOn DEF BoxSound
  <2>4. Has(frie, c) \/ Has(frie, Swap(c))
    BY <1>3, <1>4, <1>5
  <2>5. Filed(met', frie, offl, hist', tasks', c)
    BY <2>3, <2>4 DEF Filed
  <2> QED BY <2>1, <2>3, <2>5 DEF BoxSound
<1>6. ASSUME PairOf(b) \notin torn' \cup crossed', NEW s \in tasks',
             PairOf(s.box) = PairOf(b)
      PROVE  TaskSound(met', frie, mess, offl, hist', consent, s)
  <2>1. TaskSound(met', frie, mess, offl, hist, consent, s) /\ (s.step # "begin" => s.op # "delete")
    BY <1>2, <1>4, <1>6 DEF Begun
  <2> QED BY <2>1 DEF TaskSound, Deleting
<1>7. \A c \in Boxes : PairOf(c) # PairOf(t.box) => (PairOf(c) \in hist' <=> PairOf(c) \in hist)
  BY <1>2, <1>3
<1> QED BY <1>1, <1>2, <1>3, <1>5, <1>6, <1>7, CleanStep

\* A stored message is one between friends, at the index the counter shows, and
\* is about to be counted.
LEMMA CleanOffl ==
    ASSUME MutualInv, ConstantsAssumption,
           CleanInv(frie, mess, offl, hist, consent, tasks, torn, crossed, met'),
           NEW t \in tasks, Step(t), StoreOffl(t)
    PROVE  CleanInv(frie', mess', offl', hist', consent', tasks', torn', crossed', met')
<1> DEFINE b == t.box
           new == Message(b, t.n)
<1>1. TypeOK
  BY DEF MutualInv
<1>2. /\ t.op = "message" /\ t.step = "offl" /\ Goes(t, "incr", t.n)
      /\ offl' = offl \cup {new}
      /\ frie' = frie /\ mess' = mess /\ hist' = hist /\ consent' = consent
  BY <1>1, MessageEffects DEF Message
<1>3. t.box = b /\ b \in Boxes
  BY <1>1, <1>2, Kinds DEF Begun
<1>4. /\ UnreadOf(offl', b) = UnreadOf(offl, b) \cup {new}
      /\ \A c \in Boxes : c # b => UnreadOf(offl', c) = UnreadOf(offl, c)
  <2>1. <<new[1], new[2]>> = b
    BY <1>3 DEF Boxes, Message
  <2> HIDE DEF new
  <2> QED BY <1>2, <2>1 DEF UnreadOf
<1>5. new[3] = t.n
  BY <1>1, <1>3, MessageIs
<1> HIDE DEF b, new
<1>6. /\ \A s \in tasks' : \/ s \in tasks \ {t}
                           \/ /\ s.op = "message" /\ s.step = "incr" /\ s.box = b
                              /\ s.n = t.n
      /\ \E s \in tasks' : /\ s.op = "message" /\ s.step = "incr" /\ s.box = b
                           /\ s.n = t.n
      /\ tasks \ {t} \subseteq tasks'
  BY <1>1, <1>2, <1>3, GoesTo, TasksAfter DEF Moves
<1>7. ASSUME PairOf(b) \notin torn' \cup crossed'
      PROVE  /\ Has(frie, b)
             /\ PairOf(b) \notin met' => t.n = frie[b]
             /\ \A s \in tasks \ {t} : PairOf(s.box) = PairOf(b) =>
                   /\ TaskSound(met', frie, mess, offl, hist, consent, s)
                   /\ s.step # "begin" =>
                         /\ s.op # "delete"
                         /\ PairOf(s.box) \notin met' => s.op # "chat"
  <2>1. Has(frie, b) /\ TaskSound(met', frie, mess, offl, hist, consent, t)
    BY <1>2, <1>3, <1>7, CleanFacts
  <2>2. PairOf(b) \notin met' => t.n = frie[b]
    BY <1>2, <1>3, <2>1 DEF TaskSound, Counting
  <2>3. \A s \in tasks \ {t} : PairOf(s.box) = PairOf(b) =>
            /\ TaskSound(met', frie, mess, offl, hist, consent, s)
            /\ Begun(s) => /\ ~Tears(s.op, t.op)
                           /\ PairOf(b) \notin met' => ~Meets(s.op, t.op)
    BY <1>3, <1>7, CleanFacts
  <2>4. Tears("delete", t.op) /\ Meets("chat", t.op)
    BY <1>2 DEF Tears, Meets
  <2> QED BY <2>1, <2>2, <2>3, <2>4 DEF Begun
<1>8. ASSUME PairOf(b) \notin torn' \cup crossed', NEW c \in Boxes, PairOf(c) = PairOf(b)
      PROVE  BoxSound(met', frie, mess, offl', hist, consent, tasks', c)
  <2>1. BoxSound(met', frie, mess, offl, hist, consent, tasks, c)
    BY <1>3, <1>8, CleanFacts
  <2>2. \A s \in tasks : Relied(s) => s \in tasks'
    BY <1>2, <1>6 DEF Relied, Needed, Accepting, Fetching
  <2>3. Requested(frie, mess, consent, tasks', c) /\ Filed(met', frie, offl, hist, tasks', c)
    BY <2>1, <2>2, ReliedOn DEF BoxSound
  <2>4. CASE c # b
    <3>1. UnreadOf(offl', c) = UnreadOf(offl, c)
      BY <1>4, <2>4
    <3> QED BY <2>1, <2>3, <3>1, SameBox DEF BoxSound
  <2>5. CASE c = b
    <3>1. \E s \in tasks' : Covers(s, b, new[3])
      BY <1>5, <1>6 DEF Covers
    <3>2. PairOf(c) \notin met' => Counted(frie, offl', tasks', c)
      BY <2>3, <2>5, <3>1, <1>4, <1>7, <1>8 DEF Filed, Counted
    <3>3. PairOf(c) \notin met' => Dense(frie, offl', tasks', c)
      BY <2>3, <2>5, <1>4 DEF Filed, Dense
    <3>4. Filed(met', frie, offl', hist, tasks', c)
      BY <2>3, <3>2, <3>3 DEF Filed
    <3> QED BY <2>1, <2>3, <3>4 DEF BoxSound
  <2> QED BY <2>4, <2>5
<1>9. ASSUME PairOf(b) \notin torn' \cup crossed', NEW s \in tasks',
             PairOf(s.box) = PairOf(b)
      PROVE  TaskSound(met', frie, mess, offl', hist, consent, s)
  <2>1. CASE s \in tasks \ {t}
    <3>1. /\ TaskSound(met', frie, mess, offl, hist, consent, s)
          /\ s.step # "begin" => /\ s.op # "delete"
                                 /\ PairOf(s.box) \notin met' => s.op # "chat"
      BY <1>7, <1>9, <2>1
    <3>2. CASE s.step = "begin"
      BY <3>1, <3>2, StillNotBegun
    <3>3. CASE s.step # "begin"
      <4>1. s.box \in Boxes
        BY <1>1, <2>1, <3>3, Kinds DEF Begun
      <4>2. UnreadOf(offl, s.box) \subseteq UnreadOf(offl', s.box)
        BY <1>4, <4>1
      <4> QED BY <3>1, <3>3, <4>2 DEF TaskSound, Deleting, Counting, Fetching
    <3> QED BY <3>2, <3>3
  <2>2. CASE s.op = "message" /\ s.step = "incr" /\ s.box = b /\ s.n = t.n
    <3>1. Strangers(frie, mess, consent, s) /\ Deleting(met', frie, offl', hist, s)
      BY <2>2 DEF Strangers, Deleting, Accepting
    <3>2. Counting(met', frie, offl', s)
      BY <2>2, <1>4, <1>7, <1>9 DEF Counting, Fetching, new
    <3> QED BY <3>1, <3>2 DEF TaskSound
  <2> QED BY <2>1, <2>2, <1>6, <1>9
<1>10. \A c \in Boxes : PairOf(c) # PairOf(t.box) => UnreadOf(offl', c) = UnreadOf(offl, c)
  BY <1>3, <1>4
<1> QED BY <1>1, <1>2, <1>3, <1>8, <1>9, <1>10, CleanStep

\* Only one message of a box is between its count and the next: the counter
\* still shows its index when it is counted.
LEMMA CleanIncr ==
    ASSUME MutualInv, ConstantsAssumption,
           CleanInv(frie, mess, offl, hist, consent, tasks, torn, crossed, met'),
           NEW t \in tasks, Step(t), StoreIncr(t)
    PROVE  CleanInv(frie', mess', offl', hist', consent', tasks', torn', crossed', met')
<1> DEFINE b == t.box
<1>1. TypeOK
  BY DEF MutualInv
<1>2. /\ t.op = "message" /\ t.step = "incr" /\ tasks' = tasks \ {t}
      /\ frie' = [frie EXCEPT ![b] = t.n + 1]
      /\ mess' = mess /\ offl' = offl /\ hist' = hist /\ consent' = consent
  BY <1>1, MessageEffects DEF Done
<1>3. /\ t.box = b /\ b \in Boxes /\ t.n \in Nat
      /\ \A c \in Boxes : PairOf(c) = PairOf(b) <=> c = b \/ c = Swap(b)
      /\ \A c \in Boxes : Swap(c) \in Boxes
  <2>1. b \in Boxes /\ t.n \in Nat
    BY <1>1, <1>2, Kinds DEF Begun
  <2> QED BY <2>1, TwoBoxes
<1> HIDE DEF b
<1>4. /\ frie'[b] = t.n + 1 /\ Has(frie', b)
      /\ \A c \in Boxes : c # b => frie'[c] = frie[c]
  <2>1. t.n + 1 \in Nat
    BY <1>3
  <2> QED BY <1>1, <1>2, <1>3, <2>1, HasNumber DEF TypeOK, Has
<1>5. ASSUME NEW s \in tasks, s.op = "message", s.step \in {"offl", "incr"}, s.box = b
      PROVE  s = t
  <2>1. storeMtx = <<s.box[2], s.id>> /\ storeMtx = <<t.box[2], t.id>>
    BY <1>2, <1>5 DEF MutualInv, Locking
  <2>2. s.box[2] = t.box[2] /\ s.id = t.id
    BY <2>1
  <2> QED BY <1>2, <1>5, <2>2 DEF MutualInv, Locking
<1>6. ASSUME PairOf(b) \notin torn' \cup crossed'
      PROVE  /\ PairOf(b) \notin met' =>
                   t.n = frie[b] /\ Message(b, t.n) \in UnreadOf(offl, b)
             /\ \A c \in Boxes : Has(frie', c) <=> Has(frie, c)
             /\ \A s \in tasks \ {t} : PairOf(s.box) = PairOf(b) =>
                   /\ TaskSound(met', frie, mess, offl, hist, consent, s)
                   /\ s.step # "begin" =>
                         /\ s.op # "delete" /\ s.box \in Boxes
                         /\ PairOf(s.box) \notin met' => s.op # "chat"
  <2>1. Has(frie, b) /\ TaskSound(met', frie, mess, offl, hist, consent, t)
    BY <1>2, <1>3, <1>6, CleanFacts
  <2>2. PairOf(b) \notin met' => t.n = frie[b] /\ Message(b, t.n) \in UnreadOf(offl, b)
    BY <1>2, <1>3, <2>1 DEF TaskSound, Counting
  <2>3. \A c \in Boxes : Has(frie', c) <=> Has(frie, c)
    BY <1>4, <2>1 DEF Has
  <2>4. \A s \in tasks \ {t} : PairOf(s.box) = PairOf(b) =>
            /\ TaskSound(met', frie, mess, offl, hist, consent, s)
            /\ Begun(s) => /\ ~Tears(s.op, t.op)
                           /\ PairOf(b) \notin met' => ~Meets(s.op, t.op)
                           /\ s.box = b \/ s.box = Swap(b)
    BY <1>3, <1>6, CleanFacts
  <2>5. Tears("delete", t.op) /\ Meets("chat", t.op)
    BY <1>2 DEF Tears, Meets
  <2> QED BY <1>3, <2>2, <2>3, <2>4, <2>5 DEF Begun
<1>7. ASSUME PairOf(b) \notin torn' \cup crossed', NEW c \in Boxes, PairOf(c) = PairOf(b)
      PROVE  BoxSound(met', frie', mess, offl, hist, consent, tasks', c)
  <2>1. BoxSound(met', frie, mess, offl, hist, consent, tasks, c)
    BY <1>3, <1>7, CleanFacts
  <2>2. \A s \in tasks : Accepting(s) => s \in tasks'
    BY <1>2 DEF Accepting
  <2>3. /\ Has(frie', c) <=> Has(frie, c)
        /\ Has(frie', Swap(c)) <=> Has(frie, Swap(c))
    BY <1>3, <1>6, <1>7
  <2>4. Requested(frie', mess, consent, tasks', c)
    BY <2>1, <2>2, <2>3 DEF BoxSound, Requested
  <2>5. Agreed(frie', consent, c)
    BY <2>1, <2>3 DEF BoxSound, Agreed
  <2>6. CASE c # b
    <3>1. frie'[c] = frie[c]
      BY <1>4, <2>6
    <3>2. \A s \in tasks : s.box = c => s \in tasks'
      BY <1>2, <1>3, <2>6
    <3>3. Filed(met', frie, offl, hist, tasks', c)
      BY <2>1, <3>2, FiledOn DEF BoxSound
    <3>4. Filed(met', frie', offl, hist, tasks', c)
      BY <2>3, <3>1, <3>3 DEF Filed, Counted, Dense
    <3> QED BY <2>4, <2>5, <3>4 DEF BoxSound
  <2>7. CASE c = b
    <3>1. ASSUME PairOf(b) \notin met', NEW o \in UnreadOf(offl, b)
          PROVE  o[3] < t.n + 1 \/ \E s \in tasks' : Covers(s, b, o[3])
      <4>1. o[3] \in Nat
        BY <1>1, <1>3, MessageIs
      <4>2. o[3] < t.n \/ \E s \in tasks : Covers(s, b, o[3])
        BY <1>6, <1>7, <2>1, <2>7, <3>1 DEF BoxSound, Filed, Counted
      <4>3. ASSUME NEW s \in tasks, Covers(s, b, o[3])
            PROVE  o[3] = t.n \/ s \in tasks'
        <5>1. CASE s = t
          BY <1>2, <4>3, <5>1 DEF Covers, Fetching
        <5>2. CASE s # t
          BY <1>2, <5>2
        <5> QED BY <5>1, <5>2
      <4>4. o[3] < t.n \/ o[3] = t.n => o[3] < t.n + 1
        BY <1>3, <4>1
      <4> QED BY <4>2, <4>3, <4>4
    <3>2. PairOf(b) \notin met' => Counted(frie', offl, tasks', b)
      BY <1>4, <3>1 DEF Counted
    <3>3. ASSUME PairOf(b) \notin met' PROVE Dense(frie', offl, tasks', b)
      <4>1. Dense(frie, offl, tasks, b) /\ Has(frie, b)
        BY <1>4, <2>1, <2>3, <2>7, <3>3 DEF BoxSound, Filed
      <4>2. CASE \E s \in tasks : Clears(s, b)
        <5>1. \A s \in tasks : Clears(s, b) => s \in tasks'
          BY <1>2 DEF Clears
        <5> QED BY <4>2, <5>1 DEF Dense
      <4>3. CASE \A k \in Nat : k < frie[b] => Message(b, k) \in UnreadOf(offl, b)
        <5>1. ASSUME NEW k \in Nat, k < t.n + 1
              PROVE  Message(b, k) \in UnreadOf(offl, b)
          <6>1. k < t.n \/ k = t.n
            BY <1>3, <5>1
          <6> QED BY <1>6, <1>7, <3>3, <4>3, <6>1
        <5> QED BY <1>4, <5>1 DEF Dense
      <4> QED BY <4>1, <4>2, <4>3 DEF Dense
    <3>4. Filed(met', frie', offl, hist, tasks', b)
      BY <1>4, <3>2, <3>3 DEF Filed
    <3> QED BY <2>4, <2>5, <2>7, <3>4 DEF BoxSound
  <2> QED BY <2>6, <2>7
<1>8. ASSUME PairOf(b) \notin torn' \cup crossed', NEW s \in tasks',
             PairOf(s.box) = PairOf(b)
      PROVE  TaskSound(met', frie', mess, offl, hist, consent, s)
  <2>1. /\ s \in tasks \ {t}
        /\ TaskSound(met', frie, mess, offl, hist, consent, s)
        /\ s.step # "begin" => /\ s.op # "delete" /\ s.box \in Boxes
                               /\ PairOf(s.box) \notin met' => s.op # "chat"
    BY <1>2, <1>6, <1>8
  <2>2. CASE s.step = "begin"
    BY <2>1, <2>2, StillNotBegun
  <2>3. CASE s.step # "begin"
    <3>1. /\ s.op # "delete" /\ s.box \in Boxes /\ Swap(s.box) \in Boxes
          /\ PairOf(s.box) \notin met' => s.op # "chat"
      BY <2>1, <2>3, TwoBoxes
    <3>2. /\ Has(frie', s.box) <=> Has(frie, s.box)
          /\ Has(frie', Swap(s.box)) <=> Has(frie, Swap(s.box))
      BY <1>6, <1>8, <3>1
    <3>3. Strangers(frie', mess, consent, s)
      BY <2>1, <3>2 DEF TaskSound, Strangers
    <3>4. s.op = "message" /\ s.step \in {"offl", "incr"} => frie'[s.box] = frie[s.box]
      BY <1>4, <1>5, <2>1, <3>1
    <3>5. Counting(met', frie', offl, s)
      BY <2>1, <3>1, <3>2, <3>4 DEF TaskSound, Counting, Fetching
    <3> QED BY <3>1, <3>3, <3>5 DEF TaskSound, Deleting
  <2> QED BY <2>2, <2>3
<1>9. \A c \in Boxes : PairOf(c) # PairOf(t.box) => frie'[c] = frie[c]
  BY <1>3, <1>4
<1> QED BY <1>1, <1>2, <1>3, <1>7, <1>8, <1>9, CleanStep

\* What holds of pairs of which no CHAT met anything holds of fewer of them.
LEMMA FewerPairs ==
    ASSUME NEW F, NEW M, NEW O, NEW H, NEW C, NEW T, NEW P, NEW Q, NEW D, NEW E,
           D \subseteq E, CleanInv(F, M, O, H, C, T, P, Q, D)
    PROVE  CleanInv(F, M, O, H, C, T, P, Q, E)
<1>1. \A b : Filed(D, F, O, H, T, b) => Filed(E, F, O, H, T, b)
  BY DEF Filed
<1>2. \A s : /\ Deleting(D, F, O, H, s) => Deleting(E, F, O, H, s)
             /\ Counting(D, F, O, s) => Counting(E, F, O, s)
  BY DEF Deleting, Counting
<1> QED BY <1>1, <1>2 DEF CleanInv

\* Steps of tasks keep clean pairs sound.
LEMMA CleanTask ==
    ASSUME MutualInv, ConstantsAssumption,
           CleanInv(frie, mess, offl, hist, consent, tasks, torn, crossed, met),
           NEW t \in tasks, TaskStep(t)
    PROVE  CleanInv(frie', mess', offl', hist', consent', tasks', torn', crossed', met')
<1> DEFINE Goal == CleanInv(frie', mess', offl', hist', consent', tasks', torn', crossed', met')
<1>1. /\ Step(t)
      /\ CleanInv(frie, mess, offl, hist, consent, tasks, torn, crossed, met')
  <2>1. Step(t)
    BY TaskSteps DEF MutualInv
  <2>2. met \subseteq met'
    BY <2>1, Noted DEF Step
  <2> QED BY <2>1, <2>2, FewerPairs
<1>2. ASSUME AddIsAccount(t) \/ AddIsFriend(t) \/ AddLook(t) \/ VerifyFind(t) PROVE Goal
  BY <1>1, <1>2, CleanAsks
<1>3. ASSUME \/ DeleteCheck(t) \/ BlackCheck(t) \/ BlackWrite(t)
             \/ DeleteCount(t) /\ t.step = "count1"
             \/ MessageBlack(t) \/ StoreCount(t) \/ StoreStoi(t)
      PROVE  Goal
  BY <1>1, <1>3, CleanLooks
<1>4. ASSUME AddPush(t) PROVE Goal
  BY <1>1, <1>4, CleanPush
<1>5. ASSUME Lrem(t) PROVE Goal
  BY <1>1, <1>5, CleanLrem
<1>6. ASSUME GrantOwn(t) \/ GrantOther(t) PROVE Goal
  BY <1>1, <1>6, CleanGrants
<1>7. ASSUME DeleteHistory(t) PROVE Goal
  BY <1>1, <1>7, CleanHistory
<1>8. ASSUME DeleteCount(t), t.step = "count2" PROVE Goal
  BY <1>1, <1>8, CleanCount
<1>9. ASSUME DeleteRecords(t) PROVE Goal
  BY <1>1, <1>9, CleanRecords
<1>10. ASSUME ChatReset(t) PROVE Goal
  BY <1>1, <1>10, CleanReset
<1>11. ASSUME MessageRead(t) PROVE Goal
  BY <1>1, <1>11, CleanRead
<1>12. ASSUME StoreOffl(t) PROVE Goal
  BY <1>1, <1>12, CleanOffl
<1>13. ASSUME StoreIncr(t) PROVE Goal
  BY <1>1, <1>13, CleanIncr
<1>14. DeleteCount(t) => t.step = "count1" \/ t.step = "count2"
  BY DEF DeleteCount, At
<1>15. ASSUME \/ ChatCheck(t) \/ ChatTake(t) \/ ChatOwn(t) \/ ChatOwnRead(t)
              \/ ChatReply(t)
       PROVE  Goal
  BY <1>1, <1>15, CleanChat
<1>16. ASSUME ChatFetch(t) \/ ChatPush(t) PROVE Goal
  BY <1>1, <1>16, CleanFetch
<1>17. ASSUME ChatHdel(t) PROVE Goal
  BY <1>1, <1>17, CleanHdel
<1> HIDE DEF Goal
<1>18. Goal
  BY <1>2, <1>3, <1>4, <1>5, <1>6, <1>7, <1>8, <1>9, <1>10, <1>11, <1>12, <1>13, <1>14,
     <1>15, <1>16, <1>17 DEF TaskStep
<1> QED BY <1>18 DEF Goal

\* What clients do adds tasks that have found out nothing, and only more have
\* asked.
LEMMA CleanClient ==
    ASSUME MutualInv, NEW u \in Users, ClientStep(u),
           CleanInv(frie, mess, offl, hist, consent, tasks, torn, crossed, met)
    PROVE  CleanInv(frie', mess', offl', hist', consent', tasks', torn', crossed', met')
<1>1. /\ frie' = frie /\ mess' = mess /\ offl' = offl /\ hist' = hist
      /\ torn' = torn /\ crossed' = crossed /\ met' = met
      /\ consent \subseteq consent' /\ tasks \subseteq tasks'
      /\ \A s \in tasks' :
            \/ s \in tasks
            \/ s.step = "begin" /\ s.n = 0 /\ (s.op = "chat" => s.i = 0)
  BY ClientsOnlyAsk DEF MutualInv, redis, history
<1>2. ASSUME NEW b \in Boxes, PairOf(b) \notin torn \cup crossed
      PROVE  BoxSound(met', frie, mess, offl, hist, consent', tasks', b)
  <2>1. BoxSound(met', frie, mess, offl, hist, consent, tasks, b)
    BY <1>1, <1>2 DEF CleanInv, BoxSound
  <2>2. Requested(frie, mess, consent', tasks', b)
    BY <1>1, <2>1 DEF BoxSound, Requested
  <2>3. Agreed(frie, consent', b)
    BY <1>1, <2>1 DEF BoxSound, Agreed
  <2>4. Filed(met', frie, offl, hist, tasks', b)
    BY <1>1, <2>1, FiledOn DEF BoxSound
  <2> QED BY <2>2, <2>3, <2>4 DEF BoxSound
<1>3. ASSUME NEW s \in tasks', PairOf(s.box) \notin torn \cup crossed
      PROVE  TaskSound(met', frie, mess, offl, hist, consent', s)
  <2>1. CASE s \in tasks
    <3>1. TaskSound(met', frie, mess, offl, hist, consent, s)
      BY <1>1, <1>3, <2>1 DEF CleanInv, TaskSound
    <3> QED BY <1>1, <3>1 DEF TaskSound, Strangers
  <2>2. CASE s.step = "begin" /\ s.n = 0 /\ (s.op = "chat" => s.i = 0)
    BY <2>2, NotBegun
  <2> QED BY <1>1, <2>1, <2>2
<1> QED BY <1>1, <1>2, <1>3 DEF CleanInv, BoxSound, TaskSound

\* A pair without tasks survives a restart as it is.
LEMMA CleanRestart ==
    ASSUME Restart, CleanInv(frie, mess, offl, hist, consent, tasks, torn, crossed, met)
    PROVE  CleanInv(frie', mess', offl', hist', consent', tasks', torn', crossed', met')
<1>1. /\ frie' = frie /\ mess' = mess /\ offl' = offl /\ hist' = hist
      /\ consent' = consent /\ crossed' = crossed /\ met' = met /\ tasks' = {}
      /\ torn' = torn \cup {PairOf(t.box) : t \in tasks}
  BY DEF Restart, redis
<1>2. ASSUME NEW b \in Boxes, PairOf(b) \notin torn' \cup crossed
      PROVE  BoxSound(met', frie, mess, offl, hist, consent, tasks', b)
  <2>1. BoxSound(met', frie, mess, offl, hist, consent, tasks, b)
    BY <1>1, <1>2 DEF CleanInv, BoxSound
  <2>2. \A t \in tasks : t.box # b
    BY <1>1, <1>2
  <2>3. Requested(frie, mess, consent, tasks', b) /\ Filed(met', frie, offl, hist, tasks', b)
    BY <2>1, <2>2, ReliedOn DEF BoxSound
  <2> QED BY <2>1, <2>3 DEF BoxSound
<1> QED BY <1>1, <1>2 DEF CleanInv, BoxSound

----------------------------------------------------------------------------
(***************************************************************************)
(* Requests, agreement and what a DELFRIEND leaves.                        *)
(***************************************************************************)
RegistryInv ==
    /\ MutualInv
    /\ CleanInv(frie, mess, offl, hist, consent, tasks, torn, crossed, met)

\* The invariant holds at the start: friends agreed before.
LEMMA CleanInit ==
    ASSUME ConstantsAssumption, Init PROVE RegistryInv
<1>1. MutualInv
  BY MutualInit
<1>2. PICK friends \in SUBSET Pairs :
         /\ frie = [b \in Boxes |-> IF PairOf(b) \in friends THEN 0 ELSE None]
         /\ consent = {b \in Boxes : PairOf(b) \in friends}
  BY DEF Init
<1>3. mess = {} /\ offl = {} /\ hist = {} /\ tasks = {}
  BY DEF Init
<1>4. ASSUME NEW b \in Boxes
      PROVE  Agreed(frie, consent, b) /\ (Has(frie, b) => frie[b] = 0)
  BY <1>2, TwoBoxes DEF Agreed, Has
<1>5. ASSUME NEW b \in Boxes PROVE Filed(met, frie, offl, hist, tasks, b)
  BY <1>3, <1>4 DEF Filed, Counted, Dense, UnreadOf
<1> QED BY <1>1, <1>3, <1>4, <1>5 DEF RegistryInv, CleanInv, Requested

\* Every step keeps it.
LEMMA RegistryStep ==
    ASSUME RegistryInv, ConstantsAssumption, [Next]_vars PROVE RegistryInv'
<1>1. MutualInv'
  BY MutualStep DEF RegistryInv
<1> DEFINE Clean == CleanInv(frie', mess', offl', hist', consent', tasks', torn', crossed', met')
<1>2. ASSUME UNCHANGED vars PROVE Clean
  BY <1>2 DEF vars, RegistryInv
<1>3. ASSUME NEW u \in Users, ClientStep(u) PROVE Clean
  BY <1>3, CleanClient DEF RegistryInv
<1>4. ASSUME NEW t \in tasks, TaskStep(t) PROVE Clean
  BY <1>4, CleanTask DEF RegistryInv
<1>5. ASSUME Restart PROVE Clean
  BY <1>5, CleanRestart DEF RegistryInv
<1> HIDE DEF Clean
<1>6. Clean
  BY <1>2, <1>3, <1>4, <1>5 DEF Next
<1>7. Clean => CleanInv(frie, mess, offl, hist, consent, tasks, torn, crossed, met)'
  BY DEF Clean
<1> QED BY <1>1, <1>6, <1>7 DEF RegistryInv

\* In every reachable state the invariant holds.
LEMMA Registered == Spec => []RegistryInv
<1>1. Init => RegistryInv
  BY CleanInit, ConstantsAssumption
<1>2. RegistryInv /\ [Next]_vars => RegistryInv'
  BY RegistryStep, ConstantsAssumption
<1> QED BY <1>1, <1>2, PTL DEF Spec

\* What the invariant says of a pair at rest.
LEMMA AtRest ==
    ASSUME RegistryInv, NEW b \in Boxes, Undisturbed(b)
    PROVE  /\ Has(frie, b) <=> Has(frie, Swap(b))
           /\ PairOf(b) \notin crossed =>
                 BoxSound(met, frie, mess, offl, hist, consent, {}, b)
<1>1. PairOf(b) \notin torn /\ \A t \in tasks : PairOf(t.box) # PairOf(b)
  BY DEF Undisturbed, Settled
<1>2. Has(frie, b) <=> Has(frie, Swap(b))
  <2>1. Mutual(frie, tasks, b)
    BY <1>1 DEF RegistryInv, MutualInv, WholeInv
  <2> QED BY <1>1, <2>1 DEF Mutual
<1>3. ASSUME PairOf(b) \notin crossed
      PROVE  BoxSound(met, frie, mess, offl, hist, consent, {}, b)
  <2>1. BoxSound(met, frie, mess, offl, hist, consent, tasks, b)
    BY <1>1, <1>3 DEF RegistryInv, CleanInv, BoxSound
  <2>2. \A t \in tasks : t.box # b
    BY <1>1
  <2> QED BY <2>1, <2>2, ReliedOn DEF BoxSound
<1> QED BY <1>2, <1>3

\* Between friends no request is pending that could later undo a DELFRIEND:
\* in a pair at rest, where nothing was torn and no two requests or answers
\* overlapped, the request that made the friendship is gone from both lists,
\* however chats and messages overlapped.
THEOREM NothingPending == Spec => []NoRequestBetweenFriends
<1>1. RegistryInv => NoRequestBetweenFriends
  <2> SUFFICES ASSUME RegistryInv, NEW b \in Boxes, Undisturbed(b),
                      PairOf(b) \notin crossed
               PROVE  ~(IsFriend(b) /\ b \in mess)
    BY DEF NoRequestBetweenFriends
  <2>1. Requested(frie, mess, consent, {}, b)
    BY AtRest DEF BoxSound
  <2> QED BY <2>1 DEF Requested, IsFriend, Has
<1> QED BY <1>1, Registered, PTL

\* Nobody becomes a friend who has not asked or accepted: in such a pair a
\* record means that both have, since either last deleted the other.
THEOREM Agreement == Spec => []FriendsAgreed
<1>1. RegistryInv => FriendsAgreed
  <2> SUFFICES ASSUME RegistryInv, NEW b \in Boxes, Undisturbed(b),
                      PairOf(b) \notin crossed, IsFriend(b)
               PROVE  b \in consent /\ Swap(b) \in consent
    BY DEF FriendsAgreed
  <2>1. Agreed(frie, consent, b)
    BY AtRest DEF BoxSound
  <2> QED BY <2>1 DEF Agreed, IsFriend, Has
<1> QED BY <1>1, Registered, PTL

\* DELFRIEND leaves nothing behind: in such a pair, if besides no CHAT of the
\* two overlapped a message or a CHAT, who is no friend has no unread message
\* of the other, and the two have no history.
THEOREM NothingLeftBehind == Spec => []DeletedLeavesNothing
<1>1. RegistryInv => DeletedLeavesNothing
  <2> SUFFICES ASSUME RegistryInv, NEW b \in Boxes, Undisturbed(b),
                      PairOf(b) \notin crossed \cup met, ~IsFriend(b)
               PROVE  Unread(b) = {} /\ PairOf(b) \notin hist
    BY DEF DeletedLeavesNothing
  <2>1. ~Has(frie, b) /\ ~Has(frie, Swap(b))
    BY AtRest DEF IsFriend, Has
  <2>2. Filed(met, frie, offl, hist, {}, b)
    BY AtRest DEF BoxSound
  <2>3. UnreadOf(offl, b) = {}
    BY <2>1, <2>2 DEF Filed, Counted
  <2> QED BY <2>1, <2>2, <2>3, UnreadIs DEF Filed
<1> QED BY <1>1, Registered, PTL
==============================================================================
