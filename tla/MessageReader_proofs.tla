------------------------ MODULE MessageReader_proofs ------------------------
(***************************************************************************)
(* What MessageReader does, proved for every size of message and buffer    *)
(* and for every number of frames.                                         *)
(***************************************************************************)
EXTENDS MessageReader, SequenceTheorems, TLAPS

----------------------------------------------------------------------------
(* The inductive invariant *)

Written == [message : Messages, response : BOOLEAN]

Results ==
    [result : {"Ok", "Io", "MessageTooLarge", "InvalidProtobuf"}, bytes : Seq(Nat)]

\* Where frame i ends, and so where the next one begins.
End(i) == IF i = 0 THEN 0 ELSE ends[i]

\* How far a reader comes that reads i frames: to the end of the last one, or to
\* that of the stream.
Reach(i) == IF End(i) <= Len(stream) THEN End(i) ELSE Len(stream)

Types ==
    /\ frames \in Seq(Written) /\ ends \in Seq(Nat) /\ Len(ends) = Len(frames)
    /\ stream \in Seq(Nat) /\ cut \in BOOLEAN
    /\ pos \in 0..Len(stream)
    /\ buf \in Seq(Nat)
    /\ results \in Seq(Results)

\* Frame after frame, and nothing behind them.
Layout ==
    /\ \A i \in 1..Len(frames) :
           /\ ends[i] = End(i - 1) + 1 + Len(Payload(frames[i]))
           /\ ends[i] <= End(Len(frames))
    /\ Len(stream) <= End(Len(frames))
    /\ ~cut => Len(stream) = End(Len(frames))

\* What the stream still carries of a frame is what was written.
Content ==
    \A i \in 1..Len(frames) : \A k \in 1..Len(Frame(frames[i])) :
        End(i - 1) + k <= Len(stream) => stream[End(i - 1) + k] = Frame(frames[i])[k]

\* The reader stands between two frames, behind those it has a result for, or a
\* length did not fit.
Between ==
    /\ (Len(results) <= Len(frames) /\ Fits(Len(results))) => pos = Reach(Len(results))
    /\ Len(results) > Len(frames) => ~Fits(Len(frames))
    /\ \A i \in 1..Len(results) : (i <= Len(frames) /\ Fits(i)) => Reach(i) <= pos

ReaderInv == Types /\ Layout /\ Content /\ Between /\ InStep

----------------------------------------------------------------------------
(* The bytes of a frame *)

\* The zeros that buf and drain_out's buffer are filled with are bytes.
LEMMA ZeroBytes ==
    ASSUME NEW n \in Nat
    PROVE  /\ Zeros(n) \in Seq(Nat) /\ Len(Zeros(n)) = n
           /\ \A i \in 1..n : Zeros(n)[i] = 0
  BY DEF Zeros

\* Encoded messages are bytes, and the first one is a tag.
LEMMA MessageBytes ==
    ASSUME NEW message \in Messages
    PROVE  message \in Seq(Nat) /\ IsMessage(message)
  <1>1. PICK m \in 0..MaxLength : message \in [1..m -> Bytes]
    BY DEF Messages, BoundedSeq, SeqOf
  <1>2. MaxLength \in Nat
    BY MessageReaderAssumption
  <1>3. m \in Nat
    BY <1>2
  <1>4. message \in [1..m -> Nat]
    BY <1>1, MessageReaderAssumption
  <1>5. message \in Seq(Nat)
    BY <1>3, <1>4
  <1> QED BY <1>5 DEF Messages

\* What is handed to write_bytes is bytes, with zeros in front or without.
LEMMA PayloadBytes ==
    ASSUME NEW frame \in Written
    PROVE  Payload(frame) \in Seq(Nat)
  <1>1. frame.message \in Seq(Nat)
    BY MessageBytes DEF Written
  <1>2. Len(frame.message) \in Nat
    BY <1>1, LenProperties
  <1>3. Zeros(Len(frame.message)) \in Seq(Nat)
    BY <1>2, ZeroBytes
  <1>4. Zeros(Len(frame.message)) \o frame.message \in Seq(Nat)
    BY <1>1, <1>3, ConcatProperties
  <1> QED BY <1>1, <1>4 DEF Payload, ResponseBytes

\* write_bytes: the length and then the bytes.
LEMMA FrameBytes ==
    ASSUME NEW frame \in Written
    PROVE  /\ Frame(frame) \in Seq(Nat)
           /\ Len(Frame(frame)) = 1 + Len(Payload(frame))
           /\ Frame(frame)[1] = Len(Payload(frame)) % U32
           /\ \A k \in 1..Len(Payload(frame)) : Frame(frame)[k + 1] = Payload(frame)[k]
  <1>1. PICK payload \in Seq(Nat) : payload = Payload(frame)
    BY PayloadBytes
  <1>2. Len(payload) \in Nat /\ Len(payload) % U32 \in Nat
    BY MessageReaderAssumption
  <1>3. PICK size \in Nat : size = Len(payload) % U32
    BY <1>2
  <1>4. /\ <<size>> \in Seq(Nat) /\ Len(<<size>>) = 1 /\ <<size>>[1] = size
    BY <1>3
  <1>5. /\ <<size>> \o payload \in Seq(Nat)
        /\ Len(<<size>> \o payload) = 1 + Len(payload)
        /\ \A i \in 1..(1 + Len(payload)) :
               (<<size>> \o payload)[i] = IF i <= 1 THEN <<size>>[i] ELSE payload[i - 1]
    BY <1>1, <1>4, ConcatProperties
  <1>6. /\ (<<size>> \o payload)[1] = size
        /\ \A k \in 1..Len(payload) : (<<size>> \o payload)[k + 1] = payload[k]
    BY <1>2, <1>4, <1>5
  <1> QED BY <1>1, <1>3, <1>5, <1>6 DEF Frame

\* A length that fits into 32 bits is not changed by cutting it to them.
LEMMA SmallRemainder ==
    ASSUME NEW m \in Nat, NEW n \in Nat, m < n
    PROVE  m % n = m
  BY SMTT(30)

\* Where the stream holds a frame, the bytes behind its length are its payload.
LEMMA BytesOfFrame ==
    ASSUME NEW s \in Seq(Nat), NEW p \in Nat, NEW bytes \in Seq(Nat), NEW payload \in Seq(Nat),
           Len(bytes) = 1 + Len(payload),
           \A k \in 1..Len(payload) : bytes[k + 1] = payload[k],
           \A k \in 1..Len(bytes) : p + k <= Len(s) => s[p + k] = bytes[k],
           p + 1 + Len(payload) <= Len(s)
    PROVE  SubSeq(s, p + 2, p + 1 + Len(payload)) = payload
  <1>1. PICK n \in Nat : n = Len(payload)
    OBVIOUS
  <1>2. PICK first \in Nat : first = p + 2
    OBVIOUS
  <1>3. PICK last \in Nat : last = p + 1 + n
    OBVIOUS
  <1>4. \A j \in first..last : s[j] \in Nat
    <2>1. Len(s) \in Nat /\ first >= 1 /\ last <= Len(s)
      BY <1>1, <1>2, <1>3
    <2> QED BY <2>1, ElementOfSeq
  <1>5. /\ SubSeq(s, first, last) \in Seq(Nat)
        /\ Len(SubSeq(s, first, last)) = IF first <= last THEN last - first + 1 ELSE 0
        /\ \A j \in 1..last - first + 1 : SubSeq(s, first, last)[j] = s[first + j - 1]
    BY <1>4, SubSeqProperties
  <1>6. Len(SubSeq(s, first, last)) = n
    BY <1>2, <1>3, <1>5
  <1>7. ASSUME NEW j \in 1..n
        PROVE  SubSeq(s, first, last)[j] = payload[j]
    <2>1. j \in 1..last - first + 1 /\ first + j - 1 = p + (j + 1)
      BY <1>2, <1>3
    <2>2. SubSeq(s, first, last)[j] = s[p + (j + 1)]
      BY <1>5, <2>1
    <2>3. j + 1 \in 1..Len(bytes) /\ p + (j + 1) <= Len(s)
      BY <1>1
    <2>4. s[p + (j + 1)] = bytes[j + 1]
      BY <2>3
    <2> QED BY <1>1, <2>2, <2>4
  <1>8. SubSeq(s, first, last) = payload
    BY <1>1, <1>5, <1>6, <1>7, SeqEqual
  <1> QED BY <1>1, <1>2, <1>3, <1>8

\* What decoding gives is a message or an error.
LEMMA DecodeResult ==
    ASSUME NEW bytes \in Seq(Nat)
    PROVE  Decode(bytes) \in Results
  <1>1. Ok(bytes) \in Results
    BY DEF Ok, Results
  <1>2. Err("InvalidProtobuf") \in Results
    BY EmptySeq DEF Err, Results
  <1> QED BY <1>1, <1>2 DEF Decode

\* What read_exact puts at the beginning of buf is what decode finds there.
LEMMA FilledIsRead ==
    ASSUME NEW read \in Seq(Nat), NEW rest \in Seq(Nat)
    PROVE  SubSeq(read \o rest, 1, Len(read)) = read
  <1>1. /\ read \o rest \in Seq(Nat)
        /\ Len(read) \in Nat /\ Len(rest) \in Nat
        /\ Len(read \o rest) = Len(read) + Len(rest)
        /\ \A i \in 1..Len(read) + Len(rest) : (read \o rest)[i] =
               IF i <= Len(read) THEN read[i] ELSE rest[i - Len(read)]
    BY ConcatProperties
  <1>2. \A i \in 1..Len(read) : (read \o rest)[i] = read[i]
    BY <1>1
  <1>3. PICK all \in Seq(Nat) : all = read \o rest
    BY <1>1
  <1>4. /\ SubSeq(all, 1, Len(read)) \in Seq(Nat)
        /\ Len(SubSeq(all, 1, Len(read))) = Len(read)
        /\ \A i \in 1..Len(read) : SubSeq(all, 1, Len(read))[i] = all[i]
    BY <1>1, <1>3
  <1>5. \A i \in 1..Len(SubSeq(all, 1, Len(read))) : SubSeq(all, 1, Len(read))[i] = read[i]
    BY <1>2, <1>3, <1>4
  <1>6. SubSeq(all, 1, Len(read)) = read
    BY <1>4, <1>5, SeqEqual
  <1> QED BY <1>3, <1>6

----------------------------------------------------------------------------
(* Reading *)

\* The length that is read is a number, with the rest of the stream behind it.
LEMMA SizeAndRest ==
    ASSUME Types, HasSize
    PROVE  /\ Size \in Nat /\ Rest \in Nat
           /\ pos \in Nat /\ Len(stream) = pos + 1 + Rest
  <1>1. stream \in Seq(Nat) /\ Len(stream) \in Nat /\ pos \in 0..Len(stream) /\ pos < Len(stream)
    BY DEF Types, HasSize
  <1>2. pos + 1 \in 1..Len(stream)
    BY <1>1
  <1>3. stream[pos + 1] \in Nat
    BY <1>1, <1>2, ElementOfSeq
  <1> QED BY <1>1, <1>3 DEF Size, Rest

\* The next frame to be read, when all lengths up to its own fit: its length is
\* what is read first, and it is whole if there is that much behind it.
LEMMA NextFrame ==
    ASSUME ReaderInv, HasSize,
           NEW i \in 1..Len(frames), i = Len(results) + 1, Fits(i)
    PROVE  /\ pos = End(i - 1)
           /\ Size = Len(Payload(frames[i]))
           /\ ends[i] = pos + 1 + Size
           /\ Whole(i) <=> Size <= Rest
           /\ Whole(i) => SubSeq(stream, pos + 2, pos + 1 + Size) = Payload(frames[i])
  <1>1. /\ frames \in Seq(Written) /\ stream \in Seq(Nat) /\ ends \in Seq(Nat)
        /\ Len(frames) \in Nat /\ Len(stream) \in Nat /\ Len(results) \in Nat
        /\ Len(ends) = Len(frames) /\ i \in Nat
    BY DEF ReaderInv, Types
  <1>2. PICK frame \in Written : frame = frames[i]
    BY <1>1
  <1>3. PICK payload \in Seq(Nat) : payload = Payload(frame)
    BY PayloadBytes
  <1>4. PICK bytes \in Seq(Nat) :
            /\ bytes = Frame(frame) /\ Len(bytes) = 1 + Len(payload)
            /\ bytes[1] = Len(payload) % U32
            /\ \A k \in 1..Len(payload) : bytes[k + 1] = payload[k]
    BY <1>3, FrameBytes
  <1>5. Len(payload) \in Nat /\ Len(payload) < U32 /\ U32 \in Nat
    BY <1>1, <1>2, <1>3, MessageReaderAssumption DEF Fits
  <1>6. Len(payload) % U32 = Len(payload)
    BY <1>5, SmallRemainder
  <1>7. pos = Reach(i - 1)
    <2>1. Len(results) <= Len(frames) /\ Len(results) = i - 1
      BY <1>1
    <2>2. Fits(i - 1)
      BY <1>1 DEF Fits
    <2> QED BY <2>1, <2>2 DEF ReaderInv, Between
  <1>8. End(i - 1) \in Nat
    BY <1>1 DEF End
  <1>9. pos = End(i - 1) /\ pos \in Nat /\ pos < Len(stream)
    BY <1>1, <1>7, <1>8 DEF Reach, HasSize
  <1>10. \A k \in 1..Len(bytes) : pos + k <= Len(stream) => stream[pos + k] = bytes[k]
    BY <1>2, <1>4, <1>9 DEF ReaderInv, Content
  <1>11. Size = Len(payload)
    <2>1. 1 \in 1..Len(bytes) /\ pos + 1 <= Len(stream)
      BY <1>1, <1>4, <1>5, <1>9
    <2>2. stream[pos + 1] = bytes[1]
      BY <1>10, <2>1
    <2> QED BY <1>4, <1>6, <2>2 DEF Size
  <1>12. ends[i] = pos + 1 + Size
    BY <1>2, <1>3, <1>9, <1>11 DEF ReaderInv, Layout
  <1>13. Whole(i) <=> Size <= Rest
    <2>1. PICK size \in Nat : size = Size
      BY <1>5, <1>11
    <2>2. PICK all \in Nat : all = Len(stream)
      BY <1>1
    <2>3. PICK p \in Nat : p = pos
      BY <1>9
    <2>4. p + 1 + size <= all <=> size <= all - p - 1
      OBVIOUS
    <2> QED BY <1>12, <2>1, <2>2, <2>3, <2>4 DEF Whole, Rest
  <1>14. ASSUME Whole(i)
         PROVE  SubSeq(stream, pos + 2, pos + 1 + Size) = payload
    <2>1. pos + 1 + Len(payload) <= Len(stream)
      BY <1>11, <1>12, <1>14 DEF Whole
    <2>2. pos \in Nat /\ stream \in Seq(Nat)
      BY <1>1, <1>9
    <2>3. SubSeq(stream, pos + 2, pos + 1 + Len(payload)) = payload
      BY <1>4, <1>10, <2>1, <2>2, BytesOfFrame, Zenon
    <2> QED BY <1>11, <2>3
  <1> QED BY <1>2, <1>3, <1>9, <1>11, <1>12, <1>13, <1>14

\* Where there is more to read than frames were written, a length did not fit.
LEMMA NoFrame ==
    ASSUME ReaderInv, HasSize, Len(results) >= Len(frames)
    PROVE  ~Fits(Len(frames))
  <1>1. /\ Len(results) \in Nat /\ Len(frames) \in Nat /\ Len(stream) \in Nat
        /\ ends \in Seq(Nat) /\ Len(ends) = Len(frames)
    BY DEF ReaderInv, Types
  <1>2. End(Len(frames)) \in Nat
    BY <1>1 DEF End
  <1>3. Reach(Len(frames)) >= Len(stream)
    BY <1>1, <1>2 DEF ReaderInv, Layout, Reach
  <1>4. pos < Len(stream) /\ pos \in Nat
    BY <1>1 DEF HasSize, ReaderInv, Types
  <1>5. CASE Len(results) > Len(frames)
    BY <1>5 DEF ReaderInv, Between
  <1>6. CASE Len(results) = Len(frames)
    <2>1. Reach(Len(frames)) \in Nat
      BY <1>1, <1>2 DEF Reach
    <2> QED BY <1>1, <1>3, <1>4, <1>6, <2>1 DEF ReaderInv, Between
  <1> QED BY <1>1, <1>5, <1>6

\* A read that consumes a length and what it announces, as far as that goes, and
\* whose result is right for the frame that was next.
LEMMA ReaderRead ==
    ASSUME ReaderInv, HasSize, UNCHANGED <<frames, ends, stream, cut>>,
           NEW result \in Results, Returns(result), Advance(Size), buf' \in Seq(Nat),
           \A i \in 1..Len(frames) : (i = Len(results) + 1 /\ Fits(i)) =>
               IF Whole(i) THEN result = Expected(frames[i]) ELSE result.result # "Ok"
    PROVE  ReaderInv'
  <1>1. /\ Len(frames) \in Nat /\ Len(stream) \in Nat /\ Len(results) \in Nat
        /\ frames \in Seq(Written) /\ ends \in Seq(Nat) /\ Len(ends) = Len(frames)
        /\ results \in Seq(Results) /\ Types
    BY DEF ReaderInv, Types
  <1>2. /\ results' \in Seq(Results) /\ Len(results') = Len(results) + 1
        /\ \A i \in 1..Len(results) : results'[i] = results[i]
        /\ results'[Len(results) + 1] = result
    BY <1>1, AppendProperties DEF Returns
  <1>3. /\ Size \in Nat /\ Rest \in Nat /\ pos \in Nat /\ Len(stream) = pos + 1 + Rest
    BY <1>1, SizeAndRest
  <1>4. pos' = pos + 1 + (IF Size <= Rest THEN Size ELSE Rest)
    BY DEF Advance
  <1>5. pos' \in 0..Len(stream) /\ pos <= pos'
    BY <1>3, <1>4
  <1>6. Types'
    BY <1>2, <1>5 DEF ReaderInv, Types
  <1>7. Layout' /\ Content'
    BY DEF ReaderInv, Layout, Content, End
  <1>8. /\ \A i : Fits(i)' <=> Fits(i)
        /\ \A i : Reach(i)' = Reach(i)
        /\ \A i : Whole(i)' <=> Whole(i)
    BY DEF Fits, Reach, Whole, End
  <1>9. ASSUME NEW i \in 1..Len(frames), i = Len(results) + 1, Fits(i)
        PROVE  pos' = Reach(i)
    <2>1. ends[i] = pos + 1 + Size
      BY <1>9, NextFrame
    <2>2. End(i) = ends[i]
      BY <1>1 DEF End
    <2> QED BY <1>3, <1>4, <2>1, <2>2 DEF Reach
  <1>10. Between'
    <2>1. ASSUME Len(results') <= Len(frames'), Fits(Len(results))'
          PROVE  pos' = Reach(Len(results))'
      <3>1. PICK i \in Nat : i = Len(results')
        BY <1>1, <1>2
      <3>2. i \in 1..Len(frames) /\ i = Len(results) + 1
        BY <1>1, <1>2, <2>1, <3>1
      <3>3. Fits(i)
        BY <1>8, <2>1, <3>1 DEF Fits
      <3>4. pos' = Reach(i)
        BY <1>9, <3>2, <3>3
      <3> QED BY <3>1, <3>4 DEF Reach, End
    <2>2. ASSUME Len(results') > Len(frames')
          PROVE  ~Fits(Len(frames))'
      <3>1. Len(results) >= Len(frames)
        BY <1>1, <1>2, <2>2
      <3>2. ~Fits(Len(frames))
        BY <3>1, NoFrame
      <3> QED BY <3>2 DEF Fits
    <2>3. ASSUME NEW i \in 1..Len(results'), i <= Len(frames), Fits(i)
          PROVE  Reach(i) <= pos'
      <3>1. CASE i <= Len(results)
        <4>1. Reach(i) <= pos
          BY <1>1, <1>2, <2>3, <3>1 DEF ReaderInv, Between
        <4>2. Reach(i) \in Nat
          BY <1>1, <2>3 DEF Reach, End
        <4> QED BY <1>3, <1>4, <4>1, <4>2
      <3>2. CASE i = Len(results) + 1
        <4>1. pos' = Reach(i)
          BY <1>1, <1>2, <1>9, <2>3, <3>2
        <4> QED BY <1>5, <4>1
      <3> QED BY <1>1, <1>2, <3>1, <3>2
    <2>4. \A i \in 1..Len(results') : (i <= Len(frames') /\ Fits(i)') => Reach(i)' <= pos'
      BY <1>8, <2>3
    <2> QED BY <2>1, <2>2, <2>4 DEF Between
  <1>11. InStep'
    <2>1. SUFFICES ASSUME NEW i \in DOMAIN results' \cap DOMAIN frames, Fits(i)
                   PROVE  IF Whole(i) THEN results'[i] = Expected(frames[i])
                                      ELSE results'[i].result # "Ok"
      BY <1>8 DEF InStep
    <2>2. i \in 1..Len(results') /\ i \in 1..Len(frames)
      BY <1>1, <1>2, <2>1
    <2>3. CASE i <= Len(results)
      <3>1. i \in DOMAIN results \cap DOMAIN frames /\ results'[i] = results[i]
        BY <1>1, <1>2, <2>2, <2>3
      <3> QED BY <2>1, <3>1 DEF ReaderInv, InStep
    <2>4. CASE i = Len(results) + 1
      BY <1>2, <2>1, <2>2, <2>4
    <2> QED BY <1>1, <1>2, <2>2, <2>3, <2>4
  <1> QED BY <1>6, <1>7, <1>10, <1>11 DEF ReaderInv

\* read_exact leaves bytes in buf, and first those that it read.
LEMMA Filling ==
    ASSUME Types, HasSize, NEW read \in Seq(Nat), Fill(read)
    PROVE  buf' \in Seq(Nat) /\ SubSeq(buf', 1, Len(read)) = read
  <1>1. PICK old \in Seq(Nat), size \in Nat : old = buf /\ size = Size
    BY SizeAndRest DEF Types
  <1>2. PICK grown \in Seq(Nat) : grown = Grown
    <2>1. CASE Len(old) < size
      <3>1. PICK more \in Nat : more = size - Len(old)
        BY <2>1
      <3>2. Zeros(more) \in Seq(Nat)
        BY ZeroBytes
      <3>3. old \o Zeros(more) \in Seq(Nat)
        BY <3>2, ConcatProperties
      <3> QED BY <1>1, <2>1, <3>1, <3>3 DEF Grown
    <2>2. CASE ~(Len(old) < size)
      BY <1>1, <2>2 DEF Grown
    <2> QED BY <2>1, <2>2
  <1>3. PICK rest \in Seq(Nat) : rest = SubSeq(grown, Len(read) + 1, Len(grown))
    <2>1. \A j \in Len(read) + 1 .. Len(grown) : grown[j] \in Nat
      OBVIOUS
    <2>2. Len(read) + 1 \in Int /\ Len(grown) \in Int
      OBVIOUS
    <2> QED BY <2>1, <2>2, SubSeqProperties
  <1>4. buf' = read \o rest
    BY <1>2, <1>3 DEF Fill
  <1>5. read \o rest \in Seq(Nat)
    BY ConcatProperties
  <1> QED BY <1>4, <1>5, FilledIsRead

\* A message that is too large is skipped to its end.
LEMMA ReaderTooLarge ==
    ASSUME ReaderInv, ReadTooLarge
    PROVE  ReaderInv'
  <1>1. HasSize /\ Size > MaxMessageSize
    BY DEF ReadTooLarge
  <1>2. Err("MessageTooLarge") \in Results /\ Err("MessageTooLarge").result # "Ok"
    BY EmptySeq DEF Err, Results
  <1>3. ASSUME NEW i \in 1..Len(frames), i = Len(results) + 1, Fits(i)
        PROVE  Err("MessageTooLarge") = Expected(frames[i])
    <2>1. Size = Len(Payload(frames[i]))
      BY <1>1, <1>3, NextFrame
    <2> QED BY <1>1, <2>1 DEF Expected
  <1>4. buf' \in Seq(Nat)
    BY DEF ReadTooLarge, ReaderInv, Types
  <1>5. /\ UNCHANGED <<frames, ends, stream, cut>>
        /\ Advance(Size) /\ Returns(Err("MessageTooLarge"))
    BY DEF ReadTooLarge
  <1> QED BY <1>1, <1>2, <1>3, <1>4, <1>5, ReaderRead

\* A message that is read is the payload of its frame.
LEMMA ReaderMessage ==
    ASSUME ReaderInv, ReadMessage
    PROVE  ReaderInv'
  <1>1. /\ HasSize /\ Size <= MaxMessageSize /\ Size <= Rest
        /\ UNCHANGED <<frames, ends, stream, cut>>
        /\ Advance(Size) /\ Returns(Decode(Filled(buf')))
    BY DEF ReadMessage
  <1>2. /\ Size \in Nat /\ Rest \in Nat /\ pos \in Nat /\ Len(stream) = pos + 1 + Rest
        /\ stream \in Seq(Nat)
    BY <1>1, SizeAndRest DEF ReaderInv, Types
  <1>3. PICK read \in Seq(Nat) :
            read = SubSeq(stream, pos + 2, pos + 1 + Size) /\ Len(read) = Size
    <2>1. PICK first \in Nat : first = pos + 2
      BY <1>2
    <2>2. PICK last \in Nat : last = pos + 1 + Size
      BY <1>2
    <2>3. last <= Len(stream) /\ first >= 1 /\ Len(stream) \in Nat
      BY <1>1, <1>2, <2>1, <2>2
    <2>4. \A j \in first..last : stream[j] \in Nat
      BY <1>2, <2>3, ElementOfSeq
    <2>5. /\ SubSeq(stream, first, last) \in Seq(Nat)
          /\ Len(SubSeq(stream, first, last)) = IF first <= last THEN last - first + 1 ELSE 0
      BY <2>4, SubSeqProperties
    <2>6. (IF first <= last THEN last - first + 1 ELSE 0) = Size
      BY <1>2, <2>1, <2>2
    <2> QED BY <2>1, <2>2, <2>5, <2>6
  <1>4. buf' \in Seq(Nat) /\ Filled(buf') = read
    <2>1. Fill(read)
      BY <1>3 DEF ReadMessage
    <2>2. buf' \in Seq(Nat) /\ SubSeq(buf', 1, Len(read)) = read
      BY <1>1, <2>1, Filling DEF ReaderInv
    <2> QED BY <1>3, <2>2 DEF Filled
  <1>5. Decode(read) \in Results
    BY DecodeResult
  <1>6. ASSUME NEW i \in 1..Len(frames), i = Len(results) + 1, Fits(i)
        PROVE  Whole(i) /\ Decode(read) = Expected(frames[i])
    <2>1. Size = Len(Payload(frames[i])) /\ Whole(i) /\ read = Payload(frames[i])
      BY <1>1, <1>3, <1>6, NextFrame
    <2>2. ~(Size > MaxMessageSize)
      BY <1>1, <1>2, MessageReaderAssumption
    <2> QED BY <2>1, <2>2 DEF Expected
  <1> QED BY <1>1, <1>4, <1>5, <1>6, ReaderRead

\* A message that is cut off is an error.
LEMMA ReaderCut ==
    ASSUME ReaderInv, ReadCut
    PROVE  ReaderInv'
  <1>1. /\ HasSize /\ Size > Rest
        /\ UNCHANGED <<frames, ends, stream, cut>>
        /\ Advance(Size) /\ Returns(Err("Io"))
    BY DEF ReadCut
  <1>2. /\ Size \in Nat /\ Rest \in Nat /\ pos \in Nat /\ Len(stream) \in Nat
        /\ stream \in Seq(Nat)
    BY <1>1, SizeAndRest DEF ReaderInv, Types
  <1>3. PICK read \in Seq(Nat) : read = SubSeq(stream, pos + 2, Len(stream))
    <2>1. \A j \in pos + 2 .. Len(stream) : stream[j] \in Nat
      BY <1>2, ElementOfSeq
    <2>2. pos + 2 \in Int /\ Len(stream) \in Int
      BY <1>2
    <2> QED BY <2>1, <2>2, SubSeqProperties
  <1>4. buf' \in Seq(Nat)
    BY <1>1, <1>3, Filling DEF ReaderInv, ReadCut
  <1>5. Err("Io") \in Results /\ Err("Io").result # "Ok"
    BY EmptySeq DEF Err, Results
  <1>6. ASSUME NEW i \in 1..Len(frames), i = Len(results) + 1, Fits(i)
        PROVE  ~Whole(i)
    <2>1. Whole(i) <=> Size <= Rest
      BY <1>1, <1>6, NextFrame
    <2> QED BY <1>1, <1>2, <2>1
  <1> QED BY <1>1, <1>4, <1>5, <1>6, ReaderRead

----------------------------------------------------------------------------
(* Writing and cutting *)

\* A frame is put behind those that are there, and changes none of them.
LEMMA ReaderWrite ==
    ASSUME ReaderInv, NEW frame \in Written, Write(frame)
    PROVE  ReaderInv'
  <1>1. /\ Len(frames) \in Nat /\ Len(stream) \in Nat /\ Len(results) \in Nat
        /\ frames \in Seq(Written) /\ ends \in Seq(Nat) /\ Len(ends) = Len(frames)
        /\ stream \in Seq(Nat) /\ pos \in 0..Len(stream) /\ buf \in Seq(Nat)
        /\ results \in Seq(Results) /\ cut \in BOOLEAN
    BY DEF ReaderInv, Types
  <1>2. PICK n \in Nat : n = Len(frames)
    BY <1>1
  <1>3. PICK all \in Nat : all = Len(stream)
    BY <1>1
  <1>4. PICK bytes \in Seq(Nat) :
            /\ bytes = Frame(frame) /\ Len(bytes) = 1 + Len(Payload(frame))
    BY FrameBytes
  <1>5. PICK size \in Nat : size = Len(Payload(frame)) /\ Len(bytes) = 1 + size
    BY <1>4, PayloadBytes
  <1>6. /\ frames' \in Seq(Written) /\ Len(frames') = n + 1
        /\ \A i \in 1..n : frames'[i] = frames[i]
        /\ frames'[n + 1] = frame
    BY <1>1, <1>2, AppendProperties DEF Write
  <1>7. /\ ends' \in Seq(Nat) /\ Len(ends') = n + 1
        /\ \A i \in 1..n : ends'[i] = ends[i]
        /\ ends'[n + 1] = all + 1 + size
    <2>1. ends' = Append(ends, all + (1 + size))
      BY <1>3, <1>4, <1>5 DEF Write
    <2>2. PICK end \in Nat : end = all + (1 + size) /\ end = all + 1 + size
      OBVIOUS
    <2>3. ends \in Seq(Nat) /\ Len(ends) = n /\ ends' = Append(ends, end)
      BY <1>1, <1>2, <2>1, <2>2
    <2> QED BY <2>2, <2>3, AppendProperties
  <1>8. /\ stream' \in Seq(Nat) /\ Len(stream') = all + 1 + size
        /\ \A k \in 1..all : stream'[k] = stream[k]
        /\ \A k \in 1..1 + size : stream'[all + k] = bytes[k]
    <2>1. stream' = stream \o bytes
      BY <1>4 DEF Write
    <2>2. /\ stream \o bytes \in Seq(Nat)
          /\ Len(stream \o bytes) = Len(stream) + Len(bytes)
          /\ \A k \in 1..Len(stream) + Len(bytes) : (stream \o bytes)[k] =
                 IF k <= Len(stream) THEN stream[k] ELSE bytes[k - Len(stream)]
      BY <1>1, ConcatProperties
    <2>3. \A k \in 1..all + (1 + size) : stream'[k] =
                 IF k <= all THEN stream[k] ELSE bytes[k - all]
      BY <1>3, <1>5, <2>1, <2>2
    <2>4. \A k \in 1..1 + size :
              all + k \in 1..all + (1 + size) /\ ~(all + k <= all) /\ (all + k) - all = k
      OBVIOUS
    <2>5. \A k \in 1..all : k \in 1..all + (1 + size)
      OBVIOUS
    <2>6. Len(stream') = all + 1 + size
      BY <1>3, <1>5, <2>1, <2>2
    <2>7. \A k \in 1..1 + size : stream'[all + k] = bytes[k]
      BY <2>3, <2>4
    <2> QED BY <2>1, <2>2, <2>3, <2>5, <2>6, <2>7
  <1>9. UNCHANGED <<cut, pos, buf, results>> /\ cut = FALSE
    BY <1>1 DEF Write
  <1>10. all = End(n)
    BY <1>2, <1>3, <1>9 DEF ReaderInv, Layout
  <1>11. /\ \A i \in 0..n : End(i) \in Nat /\ End(i) <= all /\ End(i)' = End(i)
         /\ End(n + 1)' = all + 1 + size
    <2>1. ASSUME NEW i \in 1..n
          PROVE  End(i) \in Nat /\ End(i) <= all /\ End(i)' = End(i)
      <3>1. ends[i] \in Nat
        <4>1. i \in 1..Len(ends) /\ ends \in Seq(Nat)
          BY <1>1, <1>2
        <4> QED BY <4>1, ElementOfSeq
      <3>2. ends[i] <= all
        BY <1>2, <1>10 DEF ReaderInv, Layout
      <3>3. i # 0 /\ ends'[i] = ends[i]
        BY <1>7
      <3> QED BY <3>1, <3>2, <3>3 DEF End
    <2>2. End(0) \in Nat /\ End(0) <= all /\ End(0)' = End(0)
      BY DEF End
    <2>3. End(n + 1)' = all + 1 + size
      BY <1>7 DEF End
    <2> QED BY <2>1, <2>2, <2>3
  <1>12. /\ \A i \in 0..n : Fits(i)' <=> Fits(i)
         /\ Fits(n + 1)' => Fits(n)
    BY <1>6 DEF Fits
  <1>13. \A i \in 0..n : Reach(i) = End(i) /\ Reach(i)' = End(i)
    BY <1>3, <1>8, <1>11 DEF Reach
  <1>14. Types'
    BY <1>1, <1>3, <1>6, <1>7, <1>8, <1>9 DEF Types
  <1>15. Layout'
    <2>1. ASSUME NEW i \in 1..n + 1
          PROVE  /\ ends'[i] = End(i - 1)' + 1 + Len(Payload(frames'[i]))
                 /\ ends'[i] <= End(n + 1)'
      <3>1. CASE i \in 1..n
        <4>1. ends[i] = End(i - 1) + 1 + Len(Payload(frames[i])) /\ ends[i] <= all
          BY <1>2, <1>10, <3>1 DEF ReaderInv, Layout
        <4>2. i - 1 \in 0..n /\ ends[i] \in Nat
          BY <1>1, <1>2, <3>1
        <4> QED BY <1>6, <1>7, <1>11, <3>1, <4>1, <4>2
      <3>2. CASE i = n + 1
        BY <1>5, <1>6, <1>7, <1>10, <1>11, <3>2
      <3> QED BY <3>1, <3>2
    <2>2. Len(stream') = End(n + 1)'
      BY <1>8, <1>11
    <2> QED BY <1>6, <1>8, <1>11, <2>1, <2>2 DEF Layout
  <1>16. Content'
    <2>1. SUFFICES ASSUME NEW i \in 1..n + 1, NEW k \in 1..Len(Frame(frames'[i])),
                          End(i - 1)' + k <= Len(stream')
                   PROVE  stream'[End(i - 1)' + k] = Frame(frames'[i])[k]
      BY <1>6 DEF Content
    <2>2. CASE i \in 1..n
      <3>1. i - 1 \in 0..n /\ frames'[i] = frames[i] /\ frames[i] \in Written
        BY <1>1, <1>2, <1>6, <2>2
      <3>2. End(i - 1)' = End(i - 1) /\ End(i - 1) \in Nat
        BY <1>11, <3>1
      <3>3. Len(Frame(frames[i])) = 1 + Len(Payload(frames[i])) /\ Len(Payload(frames[i])) \in Nat
        BY <3>1, FrameBytes, PayloadBytes
      <3>4. End(i) = End(i - 1) + 1 + Len(Payload(frames[i])) /\ End(i) <= all
        BY <1>2, <1>11, <2>2 DEF ReaderInv, Layout, End
      <3>5. k \in 1..1 + Len(Payload(frames[i]))
        BY <3>1, <3>3
      <3>6. End(i - 1) + k \in 1..all
        BY <3>2, <3>3, <3>4, <3>5
      <3>7. stream[End(i - 1) + k] = Frame(frames[i])[k]
        <4>1. k \in 1..Len(Frame(frames[i])) /\ End(i - 1) + k <= Len(stream)
          BY <1>3, <3>3, <3>5, <3>6
        <4> QED BY <1>2, <2>2, <4>1 DEF ReaderInv, Content
      <3> QED BY <1>8, <3>1, <3>2, <3>6, <3>7
    <2>3. CASE i = n + 1
      <3>1. frames'[i] = frame /\ i - 1 = n
        BY <1>6, <2>3
      <3>2. End(i - 1)' = all
        BY <1>10, <1>11, <3>1
      <3>3. k \in 1..1 + size
        BY <1>4, <1>5, <3>1
      <3> QED BY <1>4, <1>8, <3>1, <3>2, <3>3
    <2> QED BY <2>2, <2>3
  <1>17. Between'
    <2>1. ASSUME Len(results') <= Len(frames'), Fits(Len(results))'
          PROVE  pos' = Reach(Len(results))'
      <3>1. PICK r \in Nat : r = Len(results)
        BY <1>1
      <3>2. r <= n + 1 /\ Fits(r)'
        BY <1>6, <1>9, <2>1, <3>1 DEF Fits
      <3>3. r # n + 1
        <4>1. r = n + 1 => ~Fits(n)
          BY <1>2, <3>1 DEF ReaderInv, Between
        <4> QED BY <1>12, <3>2, <4>1
      <3>4. r \in 0..n
        BY <3>2, <3>3
      <3>5. pos = Reach(r)
        BY <1>2, <1>12, <3>1, <3>2, <3>4 DEF ReaderInv, Between
      <3>6. Reach(r)' = Reach(r)
        BY <1>13, <3>4
      <3> QED BY <1>9, <3>1, <3>5, <3>6
    <2>2. ASSUME Len(results') > Len(frames')
          PROVE  ~Fits(Len(frames))'
      <3>1. Len(results) > n + 1
        BY <1>6, <1>9, <2>2
      <3>2. ~Fits(n)
        BY <1>1, <1>2, <3>1 DEF ReaderInv, Between
      <3>3. ~Fits(n + 1)'
        BY <1>12, <3>2
      <3> QED BY <1>6, <3>3
    <2>3. ASSUME NEW i \in 1..Len(results'), i <= Len(frames'), Fits(i)'
          PROVE  Reach(i)' <= pos'
      <3>1. i \in 1..Len(results) /\ i <= n + 1
        BY <1>6, <1>9, <2>3
      <3>2. i # n + 1
        <4>1. i = n + 1 => ~Fits(n)
          BY <1>1, <1>2, <3>1 DEF ReaderInv, Between
        <4> QED BY <1>12, <2>3, <4>1
      <3>3. i \in 0..n
        BY <3>1, <3>2
      <3>4. Reach(i) <= pos
        BY <1>2, <1>12, <2>3, <3>1, <3>3 DEF ReaderInv, Between
      <3> QED BY <1>9, <1>13, <3>3, <3>4
    <2> QED BY <2>1, <2>2, <2>3 DEF Between
  <1>18. InStep'
    <2>1. SUFFICES ASSUME NEW i \in DOMAIN results \cap DOMAIN frames', Fits(i)'
                   PROVE  IF Whole(i)' THEN results[i] = Expected(frames'[i])
                                       ELSE results[i].result # "Ok"
      BY <1>9 DEF InStep
    <2>2. i \in 1..Len(results) /\ i \in 1..n + 1
      BY <1>1, <1>6, <2>1
    <2>3. i # n + 1
      <3>1. i = n + 1 => ~Fits(n)
        BY <1>1, <1>2, <2>2 DEF ReaderInv, Between
      <3> QED BY <1>12, <2>1, <3>1
    <2>4. i \in 1..n /\ i \in 0..n
      BY <2>2, <2>3
    <2>5. Fits(i)
      BY <1>12, <2>1, <2>4
    <2>6. Whole(i)
      BY <1>3, <1>11, <2>4 DEF Whole, End
    <2>7. Whole(i)'
      <3>1. ends[i] <= all /\ ends[i] \in Nat /\ ends'[i] = ends[i]
        BY <1>1, <1>2, <1>3, <1>7, <2>4, <2>6, ElementOfSeq DEF Whole
      <3> QED BY <1>8, <3>1 DEF Whole
    <2>8. results[i] = Expected(frames[i])
      <3>1. i \in DOMAIN results \cap DOMAIN frames
        BY <1>1, <1>2, <2>2, <2>4
      <3> QED BY <2>5, <2>6, <3>1 DEF ReaderInv, InStep
    <2> QED BY <1>6, <2>4, <2>7, <2>8
  <1> QED BY <1>14, <1>15, <1>16, <1>17, <1>18 DEF ReaderInv

\* What has been read is not cut off, and what is left of a frame is as it was.
LEMMA ReaderConnectionCut ==
    ASSUME ReaderInv, Cut
    PROVE  ReaderInv'
  <1>1. /\ Len(frames) \in Nat /\ Len(stream) \in Nat /\ Len(results) \in Nat
        /\ frames \in Seq(Written) /\ ends \in Seq(Nat) /\ Len(ends) = Len(frames)
        /\ stream \in Seq(Nat) /\ pos \in 0..Len(stream) /\ buf \in Seq(Nat)
        /\ results \in Seq(Results)
    BY DEF ReaderInv, Types
  <1>2. PICK end \in pos..Len(stream) : stream' = SubSeq(stream, 1, end)
    BY DEF Cut
  <1>3. end \in Nat /\ pos \in Nat /\ pos <= end /\ end <= Len(stream)
    BY <1>1, <1>2
  <1>4. /\ stream' \in Seq(Nat) /\ Len(stream') = end
        /\ \A k \in 1..end : stream'[k] = stream[k]
    <2>1. \A k \in 1..end : stream[k] \in Nat
      BY <1>1, <1>3, ElementOfSeq
    <2>2. /\ SubSeq(stream, 1, end) \in Seq(Nat)
          /\ Len(SubSeq(stream, 1, end)) = IF 1 <= end THEN end - 1 + 1 ELSE 0
          /\ \A k \in 1..end - 1 + 1 : SubSeq(stream, 1, end)[k] = stream[1 + k - 1]
      BY <1>3, <2>1, SubSeqProperties
    <2> QED BY <1>2, <1>3, <2>2
  <1>5. UNCHANGED <<frames, ends, pos, buf, results>> /\ cut' = TRUE
    BY DEF Cut
  <1>6. /\ \A i : End(i)' = End(i)
        /\ \A i : Fits(i)' <=> Fits(i)
    BY <1>5 DEF End, Fits
  <1>7. \A i \in 0..Len(frames) : End(i) \in Nat
    BY <1>1 DEF End
  <1>8. ASSUME NEW i \in 0..Len(frames)
        PROVE  /\ Reach(i) <= pos => Reach(i)' <= pos
               /\ pos = Reach(i) => pos = Reach(i)'
    <2>1. PICK e \in Nat : e = End(i) /\ e = End(i)'
      BY <1>6, <1>7
    <2>2. /\ Reach(i) = IF e <= Len(stream) THEN e ELSE Len(stream)
          /\ Reach(i)' = IF e <= end THEN e ELSE end
      BY <1>4, <2>1 DEF Reach
    <2> QED BY <1>1, <1>3, <2>2
  <1>9. Types'
    BY <1>1, <1>3, <1>4, <1>5 DEF Types
  <1>10. Layout'
    <2>1. /\ \A i \in 1..Len(frames) :
                 /\ ends[i] = End(i - 1) + 1 + Len(Payload(frames[i]))
                 /\ ends[i] <= End(Len(frames))
          /\ Len(stream) <= End(Len(frames))
      BY DEF ReaderInv, Layout
    <2>2. end <= End(Len(frames))
      <3>1. PICK e \in Nat : e = End(Len(frames))
        <4>1. Len(frames) \in 0..Len(frames)
          BY <1>1
        <4> QED BY <1>7, <4>1
      <3>2. Len(stream) <= e
        BY <2>1, <3>1
      <3>3. end <= e
        BY <1>1, <1>3, <3>2
      <3> QED BY <3>1, <3>3
    <2> QED BY <1>4, <1>5, <1>6, <2>1, <2>2 DEF Layout
  <1>11. Content'
    <2>1. SUFFICES ASSUME NEW i \in 1..Len(frames), NEW k \in 1..Len(Frame(frames[i])),
                          End(i - 1) + k <= end
                   PROVE  stream'[End(i - 1) + k] = Frame(frames[i])[k]
      BY <1>4, <1>5, <1>6 DEF Content
    <2>2. End(i - 1) \in Nat /\ k \in Nat /\ k >= 1
      <3>1. i - 1 \in 0..Len(frames)
        BY <1>1
      <3>2. k \in Nat /\ k >= 1
        OBVIOUS
      <3> QED BY <1>7, <3>1, <3>2
    <2>3. End(i - 1) + k \in 1..end /\ End(i - 1) + k <= Len(stream)
      <3>1. PICK e \in Nat : e = End(i - 1)
        BY <2>2
      <3>2. e + k <= end
        BY <2>1, <3>1
      <3>3. e + k \in 1..end /\ e + k <= Len(stream)
        BY <1>1, <1>3, <2>2, <3>2
      <3> QED BY <3>1, <3>3
    <2>4. stream[End(i - 1) + k] = Frame(frames[i])[k]
      BY <2>3 DEF ReaderInv, Content
    <2> QED BY <1>4, <2>3, <2>4
  <1>12. Between'
    <2>1. ASSUME Len(results) <= Len(frames), Fits(Len(results))
          PROVE  pos = Reach(Len(results))'
      <3>1. PICK r \in 0..Len(frames) : r = Len(results)
        BY <1>1, <2>1
      <3>2. pos = Reach(r)
        BY <2>1, <3>1 DEF ReaderInv, Between
      <3>3. pos = Reach(r)'
        BY <1>8, <3>2
      <3> QED BY <1>5, <3>1, <3>3
    <2>2. ASSUME NEW i \in 1..Len(results), i <= Len(frames), Fits(i)
          PROVE  Reach(i)' <= pos
      <3>1. Reach(i) <= pos
        BY <2>2 DEF ReaderInv, Between
      <3>2. i \in 0..Len(frames)
        BY <1>1, <2>2
      <3> QED BY <1>8, <3>1, <3>2
    <2>3. Len(results) > Len(frames) => ~Fits(Len(frames))
      BY DEF ReaderInv, Between
    <2> QED BY <1>5, <1>6, <2>1, <2>2, <2>3 DEF Between
  <1>13. InStep'
    <2>1. SUFFICES ASSUME NEW i \in DOMAIN results \cap DOMAIN frames, Fits(i)
                   PROVE  IF Whole(i)' THEN results[i] = Expected(frames[i])
                                       ELSE results[i].result # "Ok"
      BY <1>5, <1>6 DEF InStep
    <2>2. i \in 1..Len(results) /\ i \in 1..Len(frames) /\ i # 0
      BY <1>1, <2>1
    <2>3. PICK e \in Nat : e = ends[i]
      BY <1>1, <2>2, ElementOfSeq
    <2>4. (Whole(i) <=> e <= Len(stream)) /\ (Whole(i)' <=> e <= end)
      BY <1>4, <1>5, <2>3 DEF Whole
    <2>5. (IF e <= Len(stream) THEN e ELSE Len(stream)) <= pos
      BY <1>1, <2>1, <2>2, <2>3 DEF ReaderInv, Between, Reach, End
    <2>6. e <= Len(stream) <=> e <= end
      BY <1>1, <1>3, <2>5
    <2>7. Whole(i)' <=> Whole(i)
      BY <2>4, <2>6
    <2> QED BY <2>1, <2>7 DEF ReaderInv, InStep
  <1> QED BY <1>9, <1>10, <1>11, <1>12, <1>13 DEF ReaderInv

----------------------------------------------------------------------------
(* The theorems *)

\* Nothing is written and nothing is read at first.
LEMMA ReaderInit == Init => ReaderInv
  <1> SUFFICES ASSUME Init PROVE ReaderInv
    OBVIOUS
  <1>1. /\ frames = <<>> /\ ends = <<>> /\ stream = <<>> /\ results = <<>>
        /\ pos = 0 /\ cut = FALSE /\ buf = Zeros(InitialBuffer)
    BY DEF Init
  <1>2. /\ Len(frames) = 0 /\ Len(ends) = 0 /\ Len(stream) = 0 /\ Len(results) = 0
        /\ frames \in Seq(Written) /\ ends \in Seq(Nat) /\ stream \in Seq(Nat)
        /\ results \in Seq(Results)
    BY <1>1, EmptySeq
  <1>3. buf \in Seq(Nat)
    BY <1>1, ZeroBytes, MessageReaderAssumption
  <1>4. Types
    <2>1. pos \in 0..Len(stream)
      BY <1>1, <1>2
    <2>2. cut \in BOOLEAN
      BY <1>1
    <2> QED BY <1>2, <1>3, <2>1, <2>2 DEF Types
  <1>5. Layout /\ Content
    BY <1>2 DEF Layout, Content, End
  <1>6. Between
    BY <1>1, <1>2 DEF Between, Reach, End
  <1>7. InStep
    BY <1>1 DEF InStep
  <1> QED BY <1>4, <1>5, <1>6, <1>7 DEF ReaderInv

\* Every step of the writer, of the reader and of the connection keeps the
\* invariant.
LEMMA ReaderInvariance == ReaderInv /\ [Next]_vars => ReaderInv'
  <1> SUFFICES ASSUME ReaderInv, [Next]_vars PROVE ReaderInv'
    OBVIOUS
  <1>1. CASE \E frame \in [message : Messages, response : BOOLEAN] : Write(frame)
    BY <1>1, ReaderWrite DEF Written
  <1>2. CASE Cut
    BY <1>2, ReaderConnectionCut
  <1>3. CASE ReadTooLarge
    BY <1>3, ReaderTooLarge
  <1>4. CASE ReadMessage
    BY <1>4, ReaderMessage
  <1>5. CASE ReadCut
    BY <1>5, ReaderCut
  <1>6. CASE UNCHANGED vars
    BY <1>6 DEF vars, ReaderInv, Types, Layout, Content, Between, InStep, End, Reach, Fits, Whole
  <1> QED BY <1>1, <1>2, <1>3, <1>4, <1>5, <1>6 DEF Next

\* The reader stays in step with the writer: for every size of buffer and of
\* message, the n-th result of read_next_message is that of the n-th frame, up to
\* the first whose length does not fit, and no frame that is cut off is a message.
THEOREM StaysInStep == Spec => []InStep
  <1>1. ReaderInv => InStep
    BY DEF ReaderInv
  <1> QED BY <1>1, ReaderInit, ReaderInvariance, PTL DEF Spec

\* The zeros that drain_out puts in front of a message make it no message.
LEMMA ZerosAreNoTag ==
    ASSUME NEW frame \in Written, frame.response, frame.message # <<>>
    PROVE  Expected(frame).result # "Ok"
  <1>1. PICK message \in Seq(Nat) : message = frame.message /\ message # <<>>
    BY MessageBytes DEF Written
  <1>2. PICK n \in Nat : n = Len(message) /\ n > 0
    BY <1>1, EmptySeq
  <1>3. PICK zeros \in Seq(Nat) : zeros = Zeros(n) /\ Len(zeros) = n /\ zeros[1] = 0
    BY <1>2, ZeroBytes
  <1>4. PICK payload \in Seq(Nat) :
            payload = zeros \o message /\ Len(payload) = n + n /\ payload[1] = 0
    <2>1. /\ zeros \o message \in Seq(Nat)
          /\ Len(zeros \o message) = Len(zeros) + Len(message)
          /\ \A i \in 1..Len(zeros) + Len(message) : (zeros \o message)[i] =
                 IF i <= Len(zeros) THEN zeros[i] ELSE message[i - Len(zeros)]
      BY ConcatProperties
    <2>2. 1 \in 1..Len(zeros) + Len(message) /\ 1 <= Len(zeros)
      BY <1>2, <1>3
    <2>3. (zeros \o message)[1] = 0
      BY <1>3, <2>1, <2>2
    <2>4. Len(zeros \o message) = n + n
      BY <1>2, <1>3, <2>1
    <2> QED BY <2>1, <2>3, <2>4
  <1>5. payload # <<>> /\ Head(payload) = 0
    BY <1>2, <1>4
  <1>6. Payload(frame) = payload
    BY <1>1, <1>2, <1>3, <1>4 DEF Payload, ResponseBytes
  <1>7. Decode(payload) = Err("InvalidProtobuf")
    BY <1>5 DEF Decode, IsMessage
  <1> QED BY <1>6, <1>7 DEF Expected, Err

\* No response that drain_out encodes reaches the client as a message, whatever
\* was read before it, unless the message is empty.
THEOREM Garbled == Spec => []ResponsesGarbled
  <1>1. ReaderInv => ResponsesGarbled
    <2>1. SUFFICES ASSUME ReaderInv, NEW i \in DOMAIN results \cap DOMAIN frames,
                          Whole(i), Fits(i), frames[i].response, frames[i].message # <<>>
                   PROVE  results[i].result # "Ok"
      BY DEF ResponsesGarbled
    <2>2. frames[i] \in Written
      BY <2>1 DEF ReaderInv, Types
    <2>3. results[i] = Expected(frames[i])
      BY <2>1 DEF ReaderInv, InStep
    <2> QED BY <2>1, <2>2, <2>3, ZerosAreNoTag
  <1> QED BY <1>1, ReaderInit, ReaderInvariance, PTL DEF Spec
=============================================================================
