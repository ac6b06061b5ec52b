------------------------------- MODULE Buffer -------------------------------
(***************************************************************************)
(* mulib::net::Buffer as operators on its value: the vector buffer_ (here  *)
(* a sequence, so buffer_[i] is store[i + 1]) with readerIndex_ and        *)
(* writerIndex_.  The readable bytes lie between the two indices.          *)
(***************************************************************************)
EXTENDS Naturals, Sequences

CONSTANTS
    kCheapPrepend,   \* bytes kept free at the front (8)
    kInitialSize,    \* writable bytes of a new buffer (1024)
    Bytes            \* the values of a char; 0 is what resize fills in

ASSUME BufferAssumption ==
    /\ kCheapPrepend \in Nat
    /\ kInitialSize \in Nat
    /\ 0 \in Bytes

IsBuffer(b) ==
    /\ b \in [store : Seq(Bytes), readerIndex_ : Nat, writerIndex_ : Nat]
    /\ kCheapPrepend <= b.readerIndex_
    /\ b.readerIndex_ <= b.writerIndex_
    /\ b.writerIndex_ <= Len(b.store)

NewBuffer ==
    [store |-> [i \in 1 .. kCheapPrepend + kInitialSize |-> 0],
     readerIndex_ |-> kCheapPrepend, writerIndex_ |-> kCheapPrepend]

readableBytes(b) == b.writerIndex_ - b.readerIndex_
writableBytes(b) == Len(b.store) - b.writerIndex_
prependableBytes(b) == b.readerIndex_

Content(b) == SubSeq(b.store, b.readerIndex_ + 1, b.writerIndex_)

\* std::copy of the bytes s to the index at.
Copied(store, s, at) ==
    SubSeq(store, 1, at) \o s \o SubSeq(store, at + Len(s) + 1, Len(store))

Resized(store, n) == store \o [i \in 1 .. n - Len(store) |-> 0]

retrieve(b, len) == [b EXCEPT !.readerIndex_ = @ + len]

MustGrow(b, len) ==
    writableBytes(b) + prependableBytes(b) < len + kCheapPrepend

\* Mutant: the indices move, the bytes do not.
makeSpaceNoCopy(b, len) ==
    IF MustGrow(b, len)
    THEN [b EXCEPT !.store = Resized(b.store, b.writerIndex_ + len)]
    ELSE [b EXCEPT !.readerIndex_ = kCheapPrepend,
                   !.writerIndex_ = kCheapPrepend + readableBytes(b)]

\* Grow the vector, or move the readable bytes to the front.
makeSpace(b, len) ==
    IF MustGrow(b, len)
    THEN [b EXCEPT !.store = Resized(b.store, b.writerIndex_ + len)]
    ELSE [store |-> Copied(b.store, Content(b), kCheapPrepend),
          readerIndex_ |-> kCheapPrepend,
          writerIndex_ |-> kCheapPrepend + readableBytes(b)]

ensureWritableBytes(b, len) ==
    IF writableBytes(b) < len THEN makeSpace(b, len) ELSE b

\* The bytes s are copied to the writer's index, which must have the room.
Written(b, s) ==
    [b EXCEPT !.store = Copied(b.store, s, b.writerIndex_),
              !.writerIndex_ = @ + Len(s)]

append(b, s) == Written(ensureWritableBytes(b, Len(s)), s)

\* readv of the bytes s: first into the writable space, then into extrabuf,
\* which is appended.
readFd(b, s) ==
    LET writable == writableBytes(b) IN
    IF Len(s) <= writable
    THEN Written(b, s)
    ELSE append(Written(b, SubSeq(s, 1, writable)),
                SubSeq(s, writable + 1, Len(s)))
============================================================================
