--------------------------- MODULE MessageReader ---------------------------
(***************************************************************************)
(* Frames on a connection: write_bytes and S2CMessageReaderImpl of         *)
(* src/src/network/message_rw.rs, and the way GroupServer::drain_out fills *)
(* its buffer.  A frame is its length and its bytes.  Bytes are members of *)
(* a small set; the length, four bytes of the stream, is one element of    *)
(* it.  Frames are written to a connection and read from it until it is    *)
(* cut, which can be anywhere in what has been written.                    *)
(***************************************************************************)
EXTENDS Integers, Sequences, SequencesExt

CONSTANTS
    U32,             \* the number of values of a u32
    MaxMessageSize,  \* S2CMessageReaderImpl.max_message_size
    InitialBuffer,   \* the size at which buf begins
    Bytes,           \* the values of a byte; 0 is one of them
    MaxLength,       \* bound: the encoded length of a message
    MaxFrames        \* bound: the messages on a connection

ASSUME MessageReaderAssumption ==
    /\ {MaxMessageSize, InitialBuffer, MaxLength, MaxFrames} \subseteq Nat
    /\ U32 \in Nat /\ MaxMessageSize < U32
    /\ 0 \in Bytes /\ Bytes \subseteq Nat

VARIABLES
    frames,   \* what has been written: messages, each in one of two ways
    ends,     \* history: where on the connection each of them ends
    stream,   \* what the connection carries, from its beginning
    cut,      \* the connection has come to its end
    pos,      \* how much of it has been read
    buf,      \* S2CMessageReaderImpl.buf
    results   \* what read_next_message has returned

vars == <<frames, ends, stream, cut, pos, buf, results>>

----------------------------------------------------------------------------
(* Encoding and decoding (external): the first byte of a message is the tag *)
(* of its first field, which is never 0; an empty message has no bytes.     *)

IsMessage(bytes) == bytes = <<>> \/ Head(bytes) # 0

Messages == {bytes \in BoundedSeq(Bytes, MaxLength) : IsMessage(bytes)}

Ok(bytes) == [result |-> "Ok", bytes |-> bytes]

Err(kind) == [result |-> kind, bytes |-> <<>>]

Decode(bytes) == IF IsMessage(bytes) THEN Ok(bytes) ELSE Err("InvalidProtobuf")

----------------------------------------------------------------------------
(* Writing *)

Zeros(n) == [i \in 1..n |-> 0]

\* The buffer is cleared, not filled.
ResponseBytesClean(message) == message

\* drain_out resizes its empty buffer to the length of the message, with zeros,
\* and the message is encoded behind them.
ResponseBytes(message) == Zeros(Len(message)) \o message

Payload(frame) ==
    IF frame.response THEN ResponseBytes(frame.message) ELSE frame.message

\* write_bytes: the length is cut to 32 bits, the bytes are not.
Frame(frame) == <<Len(Payload(frame)) % U32>> \o Payload(frame)

Init ==
    /\ frames = <<>> /\ ends = <<>>
    /\ stream = <<>> /\ cut = FALSE
    /\ pos = 0
    /\ buf = Zeros(InitialBuffer)
    /\ results = <<>>

Write(frame) ==
    /\ ~cut /\ Len(frames) < MaxFrames
    /\ frames' = Append(frames, frame)
    /\ stream' = stream \o Frame(frame)
    /\ ends' = Append(ends, Len(stream) + Len(Frame(frame)))
    /\ UNCHANGED <<cut, pos, buf, results>>

\* What is still in a buffer or under way is lost, what has been read is not.
Cut ==
    /\ ~cut
    /\ cut' = TRUE
    /\ \E end \in pos..Len(stream) : stream' = SubSeq(stream, 1, end)
    /\ UNCHANGED <<frames, ends, pos, buf, results>>

----------------------------------------------------------------------------
(* read_next_message.  Where the stream ends there is only Io, for ever.    *)

\* A length has been read.
Size == stream[pos + 1]

HasSize == pos < Len(stream)

\* What there is behind it.
Rest == Len(stream) - pos - 1

Returns(result) == results' = Append(results, result)

Advance(n) == pos' = pos + 1 + (IF n <= Rest THEN n ELSE Rest)

\* One byte of the length is taken for one of the message.
ReadTooLargeShort ==
    /\ HasSize /\ Size > MaxMessageSize
    /\ Size <= Rest \/ cut
    /\ Advance(Size - 1)
    /\ Returns(Err("MessageTooLarge"))
    /\ UNCHANGED <<frames, ends, stream, cut, buf>>

\* The message is skipped, as far as it goes.
ReadTooLarge ==
    /\ HasSize /\ Size > MaxMessageSize
    /\ Size <= Rest \/ cut
    /\ Advance(Size)
    /\ Returns(Err("MessageTooLarge"))
    /\ UNCHANGED <<frames, ends, stream, cut, buf>>

\* The buffer has grown to what is needed, and never shrinks.
Grown == IF Len(buf) < Size THEN buf \o Zeros(Size - Len(buf)) ELSE buf

\* What was read takes the place of what was at the beginning of the buffer.
Fill(read) == buf' = read \o SubSeq(Grown, Len(read) + 1, Len(Grown))

\* The message in the buffer, without what an earlier one has left there.
Filled(filled) == SubSeq(filled, 1, Size)

ReadMessage ==
    /\ HasSize /\ Size <= MaxMessageSize
    /\ Size <= Rest
    /\ Fill(SubSeq(stream, pos + 2, pos + 1 + Size))
    /\ Returns(Decode(Filled(buf')))
    /\ Advance(Size)
    /\ UNCHANGED <<frames, ends, stream, cut>>

\* The stream ends within a message.
ReadCut ==
    /\ HasSize /\ Size <= MaxMessageSize
    /\ cut /\ Size > Rest
    /\ Fill(SubSeq(stream, pos + 2, Len(stream)))
    /\ Returns(Err("Io"))
    /\ Advance(Size)
    /\ UNCHANGED <<frames, ends, stream, cut>>

Next ==
    \/ \E frame \in [message : Messages, response : BOOLEAN] : Write(frame)
    \/ Cut \/ ReadTooLarge \/ ReadMessage \/ ReadCut

Spec == Init /\ [][Next]_vars

----------------------------------------------------------------------------
(* Properties *)

\* What reading a frame should give.
Expected(frame) ==
    IF Len(Payload(frame)) > MaxMessageSize
      THEN Err("MessageTooLarge")
      ELSE Decode(Payload(frame))

Fits(i) == \A j \in 1..i : Len(Payload(frames[j])) < U32

\* The connection carries this frame to its end.
Whole(i) == ends[i] <= Len(stream)

\* The reader stays in step with the writer: the n-th result is that of the n-th
\* frame, whatever the frames before it have left in the buffer and however many
\* were too large, up to the first frame so long that its length does not fit; and
\* a frame that is cut off is never taken for a message.
InStep ==
    \A i \in DOMAIN results \cap DOMAIN frames : Fits(i) =>
        IF Whole(i) THEN results[i] = Expected(frames[i]) ELSE results[i].result # "Ok"

\* A response that drain_out has encoded never reaches the client as a message,
\* unless it is empty: the zeros in front of it are no tag.
ResponsesGarbled ==
    \A i \in DOMAIN results \cap DOMAIN frames :
        (Whole(i) /\ Fits(i) /\ frames[i].response /\ frames[i].message # <<>>)
            => results[i].result # "Ok"
============================================================================
