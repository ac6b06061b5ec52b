------------------------------- MODULE Stream -------------------------------
(***************************************************************************)
(* One direction of an open connection: encodeMessage frames messages,     *)
(* sendInLoop and handleWrite push the bytes through outputBuffer_ into    *)
(* the socket, handleRead takes what has arrived through inputBuffer_ and  *)
(* MessageSplitter cuts it into messages again.  The socket takes and      *)
(* gives any number of bytes at a time.                                    *)
(*                                                                         *)
(* A byte of a header and one of a message look alike; a header is a       *)
(* number of HeaderSize digits, most significant first, negative in the    *)
(* upper half of its range (int32_t).                                      *)
(***************************************************************************)
EXTENDS Buffer, Integers

CONSTANTS
    Base,         \* Bytes is 0 .. Base - 1 (256)
    HeaderSize,   \* sizeof(int32_t) (4)
    ExtraSize,    \* sizeof(extrabuf) in readFd (65535)
    Room,         \* bytes that fit between the two ends of the socket
    Messages,     \* bound: what is sent, sequences of bytes
    MaxSent       \* bound: how many messages are sent

ASSUME StreamAssumption ==
    /\ Base \in Nat /\ Base > 1 /\ Bytes = 0 .. Base - 1
    /\ HeaderSize \in Nat \ {0}
    /\ ExtraSize \in Nat \ {0}
    /\ Room \in Nat \ {0}
    /\ Messages \subseteq Seq(Bytes)
    /\ MaxSent \in Nat

VARIABLES
    sent,           \* history: messages given to send
    outputBuffer_,  \* TcpConnection::outputBuffer_ of the sending end
    writing,        \* its channel waits for POLLOUT
    wire,           \* bytes in the socket
    inputBuffer_,   \* TcpConnection::inputBuffer_ of the receiving end
    buffer_,        \* MessageSplitter::buffer_ of the receiving end
    received        \* messages that nextMessage has returned

streamVars == <<sent, outputBuffer_, writing, wire, inputBuffer_, buffer_, received>>

----------------------------------------------------------------------------
Power[i \in Nat] == IF i = 0 THEN 1 ELSE Base * Power[i - 1]

\* htonl
Header(len) == [i \in 1 .. HeaderSize |-> (len \div Power[HeaderSize - i]) % Base]

\* ntohl of the first HeaderSize bytes of s, as a signed number
Length(s) ==
    LET value[i \in 0 .. HeaderSize] ==
            IF i = 0 THEN 0 ELSE Base * value[i - 1] + s[i]
        n == value[HeaderSize]
    IN  IF 2 * n < Power[HeaderSize] THEN n ELSE n - Power[HeaderSize]

\* A message is shorter than 2 GB: its length fits into the header.
ASSUME LengthsFit == \A m \in Messages : 2 * Len(m) < Power[HeaderSize]

encodeMessage(m) == Header(Len(m)) \o m

Drop(s, n) == SubSeq(s, n + 1, Len(s))

\* The bytes s begin with a whole message.
HasMessage(s) ==
    /\ Len(s) >= HeaderSize
    /\ Length(s) >= 0
    /\ Length(s) <= Len(s) - HeaderSize

\* The loop of MessageSplitter::append on the bytes s: the positions at which
\* it finds messages, up to the first at which it waits for more.
Cuts(s) ==
    LET cuts[p \in 0 .. Len(s)] ==
            IF HasMessage(Drop(s, p))
            THEN <<p>> \o cuts[p + HeaderSize + Length(Drop(s, p))]
            ELSE <<p>>
    IN  cuts[0]

Pieces(s, cuts) ==
    [i \in 1 .. Len(cuts) - 1 |-> SubSeq(s, cuts[i] + HeaderSize + 1, cuts[i + 1])]

----------------------------------------------------------------------------
StreamInit ==
    /\ sent = <<>>
    /\ outputBuffer_ = NewBuffer
    /\ writing = FALSE
    /\ wire = <<>>
    /\ inputBuffer_ = NewBuffer
    /\ buffer_ = <<>>
    /\ received = <<>>

\* Mutant: new bytes are written although older ones are queued.
sendInLoopOvertakes(m, n) ==
    LET data == encodeMessage(m) IN
    /\ n \in 0 .. Len(data)
    /\ Len(wire) + n <= Room
    /\ sent' = Append(sent, m)
    /\ wire' = wire \o SubSeq(data, 1, n)
    /\ outputBuffer_' = IF n = Len(data) THEN outputBuffer_
                        ELSE append(outputBuffer_, Drop(data, n))
    /\ writing' = (writing \/ n < Len(data))
    /\ UNCHANGED <<inputBuffer_, buffer_, received>>

\* Mutant: nobody waits for POLLOUT.
sendInLoopNoEnable(m, n) ==
    LET data == encodeMessage(m) IN
    /\ n \in 0 .. Len(data)
    /\ Len(wire) + n <= Room
    /\ writing \/ readableBytes(outputBuffer_) > 0 => n = 0
    /\ sent' = Append(sent, m)
    /\ wire' = wire \o SubSeq(data, 1, n)
    /\ outputBuffer_' = IF n = Len(data) THEN outputBuffer_
                        ELSE append(outputBuffer_, Drop(data, n))
    /\ UNCHANGED <<writing, inputBuffer_, buffer_, received>>

\* sendInLoop writes n bytes at once if nothing is queued, and queues the rest.
sendInLoop(m, n) ==
    LET data == encodeMessage(m) IN
    /\ n \in 0 .. Len(data)
    /\ Len(wire) + n <= Room
    /\ writing \/ readableBytes(outputBuffer_) > 0 => n = 0
    /\ sent' = Append(sent, m)
    /\ wire' = wire \o SubSeq(data, 1, n)
    /\ outputBuffer_' = IF n = Len(data) THEN outputBuffer_
                        ELSE append(outputBuffer_, Drop(data, n))
    /\ writing' = (writing \/ n < Len(data))
    /\ UNCHANGED <<inputBuffer_, buffer_, received>>

handleWrite(n) ==
    /\ writing
    /\ n \in 1 .. readableBytes(outputBuffer_)
    /\ Len(wire) + n <= Room
    /\ wire' = wire \o SubSeq(Content(outputBuffer_), 1, n)
    /\ outputBuffer_' = retrieve(outputBuffer_, n)
    /\ writing' = (n < readableBytes(outputBuffer_))
    /\ UNCHANGED <<sent, inputBuffer_, buffer_, received>>

\* MessageSplitter::append, then nextMessage until there is none.
Split(bytes) ==
    \E b \in {bytes} : \E cuts \in {Cuts(b)} :
        /\ buffer_' = Drop(b, cuts[Len(cuts)])
        /\ received' = received \o Pieces(b, cuts)

\* handleRead: readFd, then the message callback of server.cc (or client.cc),
\* which empties the buffer into the splitter.
handleRead(n) ==
    /\ n \in 1 .. Len(wire)
    /\ n <= writableBytes(inputBuffer_) + ExtraSize
    /\ wire' = Drop(wire, n)
    /\ \E filled \in {readFd(inputBuffer_, SubSeq(wire, 1, n))} :
          /\ inputBuffer_' = retrieve(filled, readableBytes(filled))
          /\ Split(buffer_ \o Content(filled))
    /\ UNCHANGED <<sent, outputBuffer_, writing>>

StreamNext ==
    \/ /\ Len(sent) < MaxSent
       /\ \E m \in Messages : \E n \in 0 .. Len(m) + HeaderSize :
             sendInLoop(m, n)
    \/ \E n \in 1 .. Room : handleWrite(n)
    \/ \E n \in 1 .. Room : handleRead(n)

\* The two IO loops serve the events that level-triggered epoll reports.
StreamFairness ==
    /\ WF_streamVars(\E n \in 1 .. Room : handleWrite(n))
    /\ WF_streamVars(\E n \in 1 .. Room : handleRead(n))

StreamSpec == StreamInit /\ [][StreamNext]_streamVars
StreamFairSpec == StreamSpec /\ StreamFairness

----------------------------------------------------------------------------
\* The messages come out as they went in, in order, however the bytes were cut
\* up by the two sockets, the two buffers and the splitter's rest.
ReceivedIsPrefixOfSent ==
    /\ Len(received) <= Len(sent)
    /\ \A i \in 1 .. Len(received) : received[i] = sent[i]

\* Somebody waits to write as long as something is queued, and nothing
\* overtakes it: what has not come out yet lies, in order, in the splitter,
\* the socket and the output buffer.
RestInFlight ==
    LET flight[i \in Nat] ==
            IF i >= Len(sent) THEN <<>>
            ELSE encodeMessage(sent[i + 1]) \o flight[i + 1]
    IN  /\ readableBytes(outputBuffer_) > 0 => writing
        /\ flight[Len(received)] = buffer_ \o wire \o Content(outputBuffer_)

\* Every message arrives: no byte is left waiting for an event that nobody
\* has asked for.
AllArrive == \A n \in 1 .. MaxSent : Len(sent) >= n ~> Len(received) >= n
============================================================================
