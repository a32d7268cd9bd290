------------------------- MODULE PacketStreamProofs -------------------------
(***************************************************************************)
(* The receive buffer is bounded, never overflows and holds the stream, and *)
(* the packets taken off it are the client's, for all sizes of header,     *)
(* payload, chunk and initial capacity and streams of any length.          *)
(***************************************************************************)
EXTENDS PacketStream, SequenceTheorems, WellFoundedInduction, TLAPS

\* The readable bytes are the last of the first count bytes of the stream.
HoldsStream(b, count) ==
    \A i \in 1..BufferSize(b) : b.storage[b.read_offset + i] = (count - BufferSize(b)) + i

\* A buffer as ReceiveBuffer keeps it.
SoundBuffer(b) ==
    /\ b \in [storage: Seq(Nat), read_offset: Nat, capacity: Nat]
    /\ b.read_offset <= Len(b.storage)
    /\ Len(b.storage) <= b.capacity
    /\ b.capacity <= 2 * MaxBuffered

\* The inductive invariant.
StreamInv ==
    /\ TypeOK
    /\ ReadFits
    /\ SoundBuffer(buffer)
    /\ HoldsStream(buffer, read)
    /\ BufferSize(buffer) <= MaxBuffered
    /\ BufferSize(buffer) = read - consumed

\* The limit on the buffered bytes is a number.
LEMMA LimitType == MaxBuffered \in Nat
  BY StreamAssumption DEF MaxBuffered

\* What SoundBuffer says of the fields, and that it says no more.
LEMMA SoundFields ==
    ASSUME NEW b
    PROVE  SoundBuffer(b) <=>
              /\ b = [storage |-> b.storage, read_offset |-> b.read_offset, capacity |-> b.capacity]
              /\ b.storage \in Seq(Nat) /\ Len(b.storage) \in Nat
              /\ b.read_offset \in Nat /\ b.capacity \in Nat
              /\ b.read_offset <= Len(b.storage) /\ Len(b.storage) <= b.capacity
              /\ b.capacity <= 2 * MaxBuffered
  BY DEF SoundBuffer

\* A header written to the stream announces a natural payload size.
LEMMA HeaderType ==
    ASSUME TypeOK, NEW p
    PROVE  HeaderAt(p).payload_size \in Nat
<1>1. CASE \E i \in 1..Len(stream) : Start(i) = p
  <2> DEFINE j == CHOOSE i \in 1..Len(stream) : Start(i) = p
  <2>1. j \in 1..Len(stream)
    BY <1>1
  <2>2. HeaderAt(p) = stream[j]
    BY <1>1 DEF HeaderAt
  <2>3. stream[j] \in Headers
    BY <2>1 DEF TypeOK
  <2> QED
    BY <2>2, <2>3, StreamAssumption, Zenon DEF Headers
<1>2. CASE ~\E i \in 1..Len(stream) : Start(i) = p
  BY <1>2 DEF HeaderAt
<1> QED
  BY <1>1, <1>2

\* The positions of the readable bytes of a storage of length len, read up to off.
LEMMA ReadableRange ==
    ASSUME NEW len \in Nat, NEW off \in Nat, off <= len
    PROVE  /\ (len - (off + 1)) + 1 = len - off
           /\ (IF off + 1 <= len THEN (len - (off + 1)) + 1 ELSE 0) = len - off
           /\ \A i \in 1..(len - off) : ((off + 1) + i) - 1 = off + i
OBVIOUS

\* compact keeps the readable bytes.
LEMMA CompactSound ==
    ASSUME NEW b, SoundBuffer(b), NEW count \in Nat, HoldsStream(b, count)
    PROVE  /\ SoundBuffer(Compact(b))
           /\ HoldsStream(Compact(b), count)
           /\ BufferSize(Compact(b)) = BufferSize(b)
           /\ Compact(b).read_offset = 0
           /\ Compact(b).capacity = b.capacity
<1> DEFINE c == Compact(b)
<1>1. /\ b.storage \in Seq(Nat) /\ Len(b.storage) \in Nat
      /\ b.read_offset \in Nat /\ b.capacity \in Nat
      /\ b.read_offset <= Len(b.storage) /\ Len(b.storage) <= b.capacity
      /\ b.capacity <= 2 * MaxBuffered
  BY SoundFields
<1>2. /\ c.storage = SubSeq(b.storage, b.read_offset + 1, Len(b.storage))
      /\ c.read_offset = 0 /\ c.capacity = b.capacity
      /\ c = [storage |-> c.storage, read_offset |-> c.read_offset, capacity |-> c.capacity]
  BY <1>1, Zenon DEF Compact, ReadableBytes
<1> HIDE DEF c
<1>3. /\ c.storage \in Seq(Nat)
      /\ Len(c.storage) = Len(b.storage) - b.read_offset
      /\ \A i \in 1..(Len(b.storage) - b.read_offset) : c.storage[i] = b.storage[b.read_offset + i]
  <2> DEFINE from == b.read_offset + 1
             to == Len(b.storage)
  <2>1. from \in Int /\ to \in Int /\ \A i \in from..to : b.storage[i] \in Nat
    BY <1>1, SMTT(30)
  <2>2. /\ (to - from) + 1 = Len(b.storage) - b.read_offset
        /\ (IF from <= to THEN (to - from) + 1 ELSE 0) = Len(b.storage) - b.read_offset
        /\ \A i \in 1..(Len(b.storage) - b.read_offset) : (from + i) - 1 = b.read_offset + i
    BY <1>1, ReadableRange, Zenon
  <2> HIDE DEF from, to
  <2>3. /\ SubSeq(b.storage, from, to) \in Seq(Nat)
        /\ Len(SubSeq(b.storage, from, to)) = IF from <= to THEN to - from + 1 ELSE 0
        /\ \A i \in 1..(to - from + 1) : SubSeq(b.storage, from, to)[i] = b.storage[from + i - 1]
    BY <2>1, SubSeqProperties
  <2>4. c.storage = SubSeq(b.storage, from, to)
    BY <1>2 DEF from, to
  <2> QED
    BY <2>2, <2>3, <2>4, SMTT(30)
<1>4. BufferSize(c) = BufferSize(b) /\ BufferSize(b) = Len(b.storage) - b.read_offset
  BY <1>1, <1>2, <1>3 DEF BufferSize
<1>5. SoundBuffer(c)
  <2>1. Len(c.storage) \in Nat /\ Len(c.storage) <= b.capacity
    BY <1>1, <1>3, SMTT(30)
  <2> QED
    <3>1. /\ c.read_offset \in Nat /\ c.capacity \in Nat
          /\ c.read_offset <= Len(c.storage) /\ Len(c.storage) <= c.capacity
          /\ c.capacity <= 2 * MaxBuffered
      BY <1>1, <1>2, <2>1
    <3> QED
      BY <1>2, <1>3, <2>1, <3>1, SoundFields, Zenon
<1>6. HoldsStream(c, count)
  <2> SUFFICES ASSUME NEW i \in 1..(Len(b.storage) - b.read_offset)
               PROVE  c.storage[0 + i] = (count - BufferSize(b)) + i
    BY <1>2, <1>4, Zenon DEF HoldsStream
  <2>1. 0 + i = i
    BY <1>1
  <2>2. b.storage[b.read_offset + i] = (count - BufferSize(b)) + i
    BY <1>4 DEF HoldsStream
  <2> QED
    BY <1>3, <2>1, <2>2
<1> QED
  BY <1>2, <1>4, <1>5, <1>6 DEF c

\* The growth of std::vector, starting from at most the limit, stays within twice
\* the limit.
LEMMA GrowthBound ==
    ASSUME NEW len \in Nat, NEW cap \in Nat, NEW n \in Nat, NEW limit \in Nat,
           len <= cap, cap < len + n, len + n <= limit,
           NEW c, \/ c = len + Larger(len, n)
                  \/ c = Larger(cap + cap \div 2, len + n)
                  \/ c = Larger(2 * cap, len + n)
    PROVE  c \in Nat /\ len + n <= c /\ c <= 2 * limit
<1> DEFINE half == cap \div 2
<1>1. half \in Nat /\ half <= cap
  OBVIOUS
<1>2. c = len + Larger(len, n) \/ c = Larger(cap + half, len + n) \/ c = Larger(2 * cap, len + n)
  OBVIOUS
<1> HIDE DEF half
<1> QED
  BY <1>1, <1>2 DEF Larger

\* append of the next n bytes of the stream, within the limit.
LEMMA AppendSound ==
    ASSUME NEW b, SoundBuffer(b), NEW count \in Nat, HoldsStream(b, count),
           NEW n \in Nat \ {0}, CanAppend(b, n),
           NEW result \in Appended(b, [i \in 1..n |-> count + i])
    PROVE  /\ SoundBuffer(result)
           /\ HoldsStream(result, count + n)
           /\ BufferSize(result) = BufferSize(b) + n
           /\ BufferSize(result) <= MaxBuffered
<1> DEFINE bytes == [i \in 1..n |-> count + i]
           room == MakeRoom(b, n)
<1>1. bytes \in Seq(Nat) /\ Len(bytes) = n
  OBVIOUS
<1>2. /\ SoundBuffer(room) /\ HoldsStream(room, count)
      /\ BufferSize(room) = BufferSize(b)
  BY CompactSound DEF MakeRoom
<1>3. /\ room.storage \in Seq(Nat) /\ Len(room.storage) \in Nat
      /\ room.read_offset \in Nat /\ room.capacity \in Nat
      /\ room.read_offset <= Len(room.storage)
      /\ Len(room.storage) <= room.capacity /\ room.capacity <= 2 * MaxBuffered
      /\ MaxBuffered \in Nat
  BY <1>2, SoundFields, LimitType
<1>4. room.read_offset = 0 \/ Len(room.storage) + n <= room.capacity
  <2>1. CASE b.read_offset # 0 /\ b.capacity - Len(b.storage) < n
    BY <2>1, CompactSound DEF MakeRoom
  <2>2. CASE ~(b.read_offset # 0 /\ b.capacity - Len(b.storage) < n)
    <3>1. room = b
      BY <2>2 DEF MakeRoom
    <3> HIDE DEF room
    <3> QED
      BY <1>3, <2>2, <3>1
  <2> QED
    BY <2>1, <2>2
<1>5. PICK c \in GrownCapacities(room, n) :
         result = [storage |-> room.storage \o bytes, read_offset |-> room.read_offset, capacity |-> c]
  BY <1>1, Zenon DEF Appended
<1> DEFINE len == Len(room.storage)
           off == room.read_offset
           cap == room.capacity
           size == BufferSize(room)
<1>6. /\ len \in Nat /\ off \in Nat /\ cap \in Nat /\ size \in Nat /\ MaxBuffered \in Nat
      /\ size = len - off /\ len <= cap /\ cap <= 2 * MaxBuffered
      /\ off = 0 \/ len + n <= cap
  BY <1>3, <1>4 DEF BufferSize
<1>7. size + n <= MaxBuffered
  BY <1>2, <1>3, <1>6 DEF CanAppend
<1>8. c \in IF len + n <= cap
            THEN {cap}
            ELSE {len + Larger(len, n), Larger(cap + cap \div 2, len + n), Larger(2 * cap, len + n)}
  BY <1>5 DEF GrownCapacities
<1>9. /\ result.storage = room.storage \o bytes
      /\ result.read_offset = off
      /\ result.capacity = c
      /\ result = [storage |-> result.storage, read_offset |-> result.read_offset,
                   capacity |-> result.capacity]
  BY <1>5
<1>10. /\ result.storage \in Seq(Nat)
       /\ Len(result.storage) = len + n
       /\ \A i \in 1..(len + n) :
             result.storage[i] = IF i <= len THEN room.storage[i] ELSE bytes[i - len]
  <2> HIDE DEF room, bytes
  <2> QED
    BY <1>1, <1>3, <1>9, ConcatProperties, SMTT(30)
<1>11. /\ \A i \in 1..size : room.storage[off + i] = (count - size) + i
       /\ \A i \in 1..n : bytes[i] = count + i
  BY <1>2 DEF HoldsStream
<1> HIDE DEF room, bytes, len, off, cap, size
<1>12. c \in Nat /\ len + n <= c /\ c <= 2 * MaxBuffered
  <2>1. CASE len + n <= cap
    BY <1>6, <1>8, <2>1
  <2>2. CASE ~(len + n <= cap)
    <3>1. cap < len + n /\ len + n <= MaxBuffered
      BY <1>6, <1>7, <2>2
    <3>2. \/ c = len + Larger(len, n)
          \/ c = Larger(cap + cap \div 2, len + n)
          \/ c = Larger(2 * cap, len + n)
      BY <1>8, <2>2
    <3>3. len \in Nat /\ cap \in Nat /\ n \in Nat /\ MaxBuffered \in Nat /\ len <= cap
      BY <1>6
    <3> QED
      BY <3>1, <3>2, <3>3, GrowthBound, Zenon
  <2> QED
    BY <2>1, <2>2
<1>13. BufferSize(result) = size + n
  BY <1>6, <1>9, <1>10 DEF BufferSize
<1>14. SoundBuffer(result)
  <2>0. off \in Nat /\ len + n \in Nat /\ off <= len + n
    BY <1>6
  <2>1. /\ Len(result.storage) \in Nat /\ result.read_offset \in Nat /\ result.capacity \in Nat
        /\ result.read_offset <= Len(result.storage) /\ Len(result.storage) <= result.capacity
        /\ result.capacity <= 2 * MaxBuffered
    BY <1>9, <1>10, <1>12, <2>0, Zenon
  <2> QED
    BY <1>9, <1>10, <2>1, SoundFields, Zenon
<1>15. HoldsStream(result, count + n)
  <2> SUFFICES ASSUME NEW i \in 1..(size + n)
               PROVE  result.storage[off + i] = ((count + n) - (size + n)) + i
    BY <1>9, <1>13, Zenon DEF HoldsStream
  <2>1. /\ i \in Nat /\ ((count + n) - (size + n)) + i = (count - size) + i
        /\ off + i \in 1..(len + n)
    BY <1>6
  <2>2. CASE i <= size
    <3>1. i \in 1..size /\ off + i <= len
      BY <1>6, <2>1, <2>2
    <3> QED
      BY <1>10, <1>11, <2>1, <3>1, Zenon
  <2>3. CASE ~(i <= size)
    <3> DEFINE k == (off + i) - len
    <3>1. ~(off + i <= len) /\ k \in 1..n /\ count + k = (count - size) + i
      BY <1>6, <2>1, <2>3
    <3> QED
      BY <1>10, <1>11, <2>1, <3>1, Zenon
  <2> QED
    BY <2>2, <2>3
<1>16. BufferSize(result) = BufferSize(b) + n
  BY <1>2, <1>13 DEF size
<1> QED
  BY <1>7, <1>13, <1>14, <1>15, <1>16

\* consume of a packet that is in the buffer.
LEMMA ConsumeSound ==
    ASSUME NEW b, SoundBuffer(b), NEW count \in Nat, HoldsStream(b, count),
           NEW n \in Nat, n <= BufferSize(b)
    PROVE  /\ SoundBuffer(Consume(b, n))
           /\ HoldsStream(Consume(b, n), count)
           /\ BufferSize(Consume(b, n)) = BufferSize(b) - n
<1> DEFINE len == Len(b.storage)
           off == b.read_offset
           cap == b.capacity
           size == BufferSize(b)
           c == Consume(b, n)
<1>1. /\ b.storage \in Seq(Nat) /\ len \in Nat /\ off \in Nat /\ cap \in Nat
      /\ off <= len /\ len <= cap /\ cap <= 2 * MaxBuffered
      /\ size = len - off
  BY SoundFields DEF BufferSize
<1>2. \A i \in 1..size : b.storage[off + i] = (count - size) + i
  BY DEF HoldsStream
<1>3. CASE off + n = len
  <2>1. c = [storage |-> <<>>, read_offset |-> 0, capacity |-> cap]
    BY <1>3 DEF Consume
  <2> HIDE DEF c, len, off, cap, size
  <2>2. /\ c.storage = <<>> /\ c.read_offset = 0 /\ c.capacity = cap
        /\ c.storage \in Seq(Nat) /\ Len(c.storage) = 0
        /\ c = [storage |-> c.storage, read_offset |-> c.read_offset, capacity |-> c.capacity]
    BY <2>1
  <2>3. SoundBuffer(c)
    <3>1. /\ Len(c.storage) \in Nat /\ c.read_offset \in Nat /\ c.capacity \in Nat
          /\ c.read_offset <= Len(c.storage) /\ Len(c.storage) <= c.capacity
          /\ c.capacity <= 2 * MaxBuffered
      BY <1>1, <2>2
    <3> QED
      BY <2>2, <3>1, SoundFields, Zenon
  <2>4. BufferSize(c) = 0
    BY <2>2 DEF BufferSize
  <2>5. HoldsStream(c, count)
    BY <2>4 DEF HoldsStream
  <2>6. BufferSize(c) = size - n
    BY <1>1, <1>3, <2>4
  <2> QED
    BY <2>3, <2>5, <2>6 DEF c, size
<1>4. CASE off + n # len
  <2>1. c = [storage |-> b.storage, read_offset |-> off + n, capacity |-> cap]
    BY <1>4 DEF Consume
  <2> HIDE DEF c
  <2>2. /\ c.storage = b.storage /\ c.read_offset = off + n /\ c.capacity = cap
        /\ c = [storage |-> c.storage, read_offset |-> c.read_offset, capacity |-> c.capacity]
    BY <2>1
  <2>3. BufferSize(c) = len - (off + n)
    BY <2>2 DEF BufferSize
  <2>4. Len(c.storage) = len /\ n <= size
    BY <2>2
  <2> HIDE DEF len, off, cap, size
  <2>5. SoundBuffer(c)
    <3>1. /\ Len(c.storage) \in Nat /\ c.read_offset \in Nat /\ c.capacity \in Nat
          /\ c.read_offset <= Len(c.storage) /\ Len(c.storage) <= c.capacity
          /\ c.capacity <= 2 * MaxBuffered
      BY <1>1, <2>2, <2>4
    <3> QED
      BY <1>1, <2>2, <3>1, SoundFields, Zenon
  <2>6. HoldsStream(c, count)
    <3> SUFFICES ASSUME NEW i \in 1..(len - (off + n))
                 PROVE  b.storage[(off + n) + i] = (count - (len - (off + n))) + i
      BY <2>2, <2>3, Zenon DEF HoldsStream
    <3>1. /\ n + i \in 1..size
          /\ off + (n + i) = (off + n) + i
          /\ (count - size) + (n + i) = (count - (len - (off + n))) + i
      BY <1>1, <2>4
    <3> QED
      BY <1>2, <3>1
  <2>7. BufferSize(c) = size - n
    BY <1>1, <2>3
  <2> QED
    BY <2>5, <2>6, <2>7 DEF c, size
<1> QED
  BY <1>3, <1>4

\* What decode_one says of the number of bytes in the buffer: a whole packet, or
\* less than the longest one.
LEMMA DecodeSize ==
    ASSUME TypeOK, NEW b, BufferSize(b) \in Nat
    PROVE  LET header == HeaderAt(b.storage[b.read_offset + 1]) IN
           /\ PacketSize(header) \in Nat
           /\ Decode(b) = "packet" => PacketSize(header) <= BufferSize(b)
           /\ Decode(b) = "incomplete" => BufferSize(b) < HeaderSize + MaxPayload
<1> DEFINE header == HeaderAt(b.storage[b.read_offset + 1])
<1>1. header.payload_size \in Nat
  BY HeaderType
<1>2. Decode(b) = IF BufferSize(b) < HeaderSize THEN "incomplete"
                  ELSE IF header.payload_size > MaxPayload \/ ~header.known THEN "malformed"
                  ELSE IF BufferSize(b) < PacketSize(header) THEN "incomplete"
                  ELSE "packet"
  BY DEF Decode
<1> HIDE DEF header
<1>3. /\ PacketSize(header) \in Nat
      /\ Decode(b) = "packet" => PacketSize(header) <= BufferSize(b)
      /\ Decode(b) = "incomplete" => BufferSize(b) < HeaderSize + MaxPayload
  BY <1>1, <1>2, StreamAssumption DEF PacketSize
<1> QED
  BY <1>3 DEF header

-----------------------------------------------------------------------------

\* An empty buffer holds the empty stream.
LEMMA StreamInitial == Init => StreamInv
<1> SUFFICES ASSUME Init PROVE StreamInv
  OBVIOUS
<1>1. /\ buffer.storage = <<>> /\ buffer.read_offset = 0
      /\ buffer.capacity = Smaller(InitialCapacity, MaxBuffered)
      /\ buffer.storage \in Seq(Nat) /\ Len(buffer.storage) = 0
      /\ buffer = [storage |-> buffer.storage, read_offset |-> buffer.read_offset,
                   capacity |-> buffer.capacity]
  BY DEF Init, EmptyBuffer
<1>2. buffer.capacity \in Nat /\ buffer.capacity <= 2 * MaxBuffered /\ 0 <= buffer.capacity
  BY <1>1, StreamAssumption, LimitType DEF Smaller
<1>3. SoundBuffer(buffer)
  <2>1. /\ Len(buffer.storage) \in Nat /\ buffer.read_offset \in Nat
        /\ buffer.read_offset <= Len(buffer.storage) /\ Len(buffer.storage) <= buffer.capacity
    BY <1>1, <1>2
  <2> QED
    BY <1>1, <1>2, <2>1, SoundFields, Zenon
<1>4. BufferSize(buffer) = 0
  BY <1>1 DEF BufferSize
<1>5. HoldsStream(buffer, read)
  BY <1>4 DEF HoldsStream
<1>6. BufferSize(buffer) <= MaxBuffered /\ BufferSize(buffer) + ChunkSize <= MaxBuffered
  BY <1>4, StreamAssumption DEF MaxBuffered
<1>7. stream \in Seq(Headers)
  <2>1. PICK n \in 0..MaxSent : stream \in [1..n -> Headers]
    BY DEF Init
  <2>2. n \in Nat
    BY StreamAssumption
  <2> QED
    BY <2>1, <2>2
<1>8. BufferSize(buffer) = read - consumed
  BY <1>4 DEF Init
<1>9. TypeOK
  BY <1>3, <1>7 DEF Init, TypeOK, SoundBuffer
<1> QED
  BY <1>3, <1>5, <1>6, <1>8, <1>9 DEF Init, StreamInv, ReadFits

\* A read: the chunk fits, and the buffer goes on with the stream.
LEMMA ReadKeepsInv == StreamInv /\ ReadChunk => StreamInv'
<1> SUFFICES ASSUME StreamInv, ReadChunk PROVE StreamInv'
  OBVIOUS
<1>1. /\ TypeOK /\ ReadFits /\ SoundBuffer(buffer) /\ HoldsStream(buffer, read)
      /\ read \in Nat /\ consumed \in Nat /\ state = "reading"
      /\ BufferSize(buffer) = read - consumed
  BY DEF StreamInv, ReadChunk, TypeOK
<1>2. BufferSize(buffer) \in Nat /\ BufferSize(buffer) + ChunkSize <= MaxBuffered
  BY <1>1, SoundFields DEF ReadFits, BufferSize
<1>3. PICK n \in 1..ChunkSize :
         /\ read' = read + n
         /\ IF CanAppend(buffer, n)
            THEN /\ buffer' \in Appended(buffer, [i \in 1..n |-> read + i])
                 /\ state' = "processing"
            ELSE state' = "overflow" /\ UNCHANGED buffer
  BY Zenon DEF ReadChunk
<1>4. n \in Nat \ {0} /\ CanAppend(buffer, n) /\ read + n \in Nat
  BY <1>1, <1>2, <1>3, StreamAssumption, LimitType DEF CanAppend
<1>5. buffer' \in Appended(buffer, [i \in 1..n |-> read + i]) /\ state' = "processing"
  BY <1>3, <1>4
<1>6. /\ SoundBuffer(buffer') /\ HoldsStream(buffer', read + n)
      /\ BufferSize(buffer') <= MaxBuffered
      /\ BufferSize(buffer') = BufferSize(buffer) + n
  BY <1>1, <1>4, <1>5, AppendSound
<1>7. TypeOK'
  BY <1>1, <1>3, <1>4, <1>5, <1>6 DEF ReadChunk, TypeOK, SoundBuffer
<1>8. BufferSize(buffer') = read' - consumed'
  <2>1. consumed' = consumed /\ read' = read + n
    BY <1>3 DEF ReadChunk
  <2> QED
    BY <1>1, <1>4, <1>6, <2>1
<1> QED
  BY <1>3, <1>5, <1>6, <1>7, <1>8 DEF StreamInv, ReadFits, SoundBuffer, HoldsStream, BufferSize

\* A handled packet is consumed.
LEMMA HandleKeepsInv == StreamInv /\ HandlePacket => StreamInv'
<1> SUFFICES ASSUME StreamInv, HandlePacket PROVE StreamInv'
  OBVIOUS
<1> DEFINE first == buffer.storage[buffer.read_offset + 1]
           size == PacketSize(HeaderAt(first))
<1>1. /\ TypeOK /\ SoundBuffer(buffer) /\ HoldsStream(buffer, read) /\ read \in Nat
      /\ consumed \in Nat /\ BufferSize(buffer) = read - consumed
      /\ BufferSize(buffer) <= MaxBuffered
  BY DEF StreamInv, TypeOK
<1>2. /\ BufferSize(buffer) \in Nat /\ buffer.storage \in Seq(Nat)
      /\ BufferSize(buffer) = Len(buffer.storage) - buffer.read_offset
      /\ buffer.read_offset \in Nat /\ Len(buffer.storage) \in Nat
  BY <1>1, SoundFields DEF BufferSize
<1>3. /\ Decode(buffer) = "packet" /\ BufferSize(buffer) > 0 /\ state = "processing"
      /\ handled' = Append(handled, first)
      /\ buffer' = Consume(buffer, size)
      /\ consumed' = consumed + size
      /\ state' \in {"processing", "ended"}
      /\ UNCHANGED <<stream, read>>
  BY DEF HandlePacket
<1>4. size \in Nat /\ size <= BufferSize(buffer)
  BY <1>1, <1>2, <1>3, DecodeSize, Zenon
<1>5. first \in Nat
  <2>1. buffer.read_offset + 1 \in 1..Len(buffer.storage)
    BY <1>2, <1>3, SMTT(30)
  <2> QED
    BY <1>2, <2>1, SMTT(30)
<1> HIDE DEF size, first
<1>6. /\ SoundBuffer(buffer') /\ HoldsStream(buffer', read)
      /\ BufferSize(buffer') = BufferSize(buffer) - size
  BY <1>1, <1>3, <1>4, ConsumeSound
<1>7. BufferSize(buffer') \in Nat
  BY <1>6, SoundFields DEF BufferSize
<1>8. BufferSize(buffer') <= MaxBuffered
  BY <1>1, <1>2, <1>4, <1>6, <1>7, LimitType
<1>9. handled' \in Seq(Nat)
  BY <1>1, <1>3, <1>5, AppendProperties DEF TypeOK
<1>10. consumed' \in Nat /\ BufferSize(buffer') = read' - consumed'
  BY <1>1, <1>3, <1>4, <1>6
<1>11. TypeOK'
  BY <1>1, <1>3, <1>6, <1>9, <1>10 DEF TypeOK, SoundBuffer
<1> QED
  BY <1>3, <1>6, <1>8, <1>10, <1>11, Zenon DEF StreamInv, ReadFits, SoundBuffer, HoldsStream, BufferSize

\* An incomplete packet leaves room for a chunk.
LEMMA AwaitKeepsInv == StreamInv /\ AwaitMoreBytes => StreamInv'
<1> SUFFICES ASSUME StreamInv, AwaitMoreBytes PROVE StreamInv'
  OBVIOUS
<1>1. TypeOK /\ SoundBuffer(buffer) /\ BufferSize(buffer) \in Nat
  BY SoundFields DEF StreamInv, BufferSize
<1>2. BufferSize(buffer) = 0 \/ BufferSize(buffer) < HeaderSize + MaxPayload
  BY <1>1, DecodeSize DEF AwaitMoreBytes
<1>3. BufferSize(buffer) + ChunkSize <= MaxBuffered
  BY <1>1, <1>2, StreamAssumption DEF MaxBuffered
<1> QED
  BY <1>3 DEF StreamInv, AwaitMoreBytes, TypeOK, ReadFits, SoundBuffer, HoldsStream, BufferSize

\* Every step of the session keeps buffer and stream in agreement.
LEMMA StreamInductive == StreamInv /\ [Next]_vars => StreamInv'
<1> SUFFICES ASSUME StreamInv, [Next]_vars PROVE StreamInv'
  OBVIOUS
<1>1. CASE ReadChunk
  BY <1>1, ReadKeepsInv
<1>2. CASE HandlePacket
  BY <1>2, HandleKeepsInv
<1>3. CASE AwaitMoreBytes
  BY <1>3, AwaitKeepsInv
<1>4. CASE ReadFails \/ RefusePacket \/ RejectMalformed
  <2>1. UNCHANGED <<stream, read, buffer, handled, consumed>> /\ state' \in {"ended", "rejected"}
    BY <1>4 DEF ReadFails, RefusePacket, RejectMalformed
  <2> QED
    BY <2>1, Zenon DEF StreamInv, TypeOK, ReadFits, SoundBuffer, HoldsStream, BufferSize
<1>5. CASE UNCHANGED vars
  BY <1>5, Zenon DEF vars, StreamInv, TypeOK, ReadFits, SoundBuffer, HoldsStream, BufferSize
<1> QED
  BY <1>1, <1>2, <1>3, <1>4, <1>5 DEF Next, Ended

\* Buffer and stream agree in every reachable state.
LEMMA StreamInvariance == Spec => []StreamInv
  BY StreamInitial, StreamInductive, PTL DEF Spec

\* A full chunk fits whenever the session reads: append never fails, for all sizes
\* (session.cpp max_session_buffer_size).
THEOREM ChunkAlwaysFits == Spec => []ReadFits
<1>1. StreamInv => ReadFits
  BY DEF StreamInv
<1> QED
  BY <1>1, StreamInvariance, PTL

\* The memory of a receive buffer is bounded by twice its limit, in spite of the
\* consumed bytes in front (ReceiveBuffer::append and compact).
THEOREM MemoryBounded == Spec => []CapacityBounded
<1>1. StreamInv => CapacityBounded
  BY DEF StreamInv, SoundBuffer, CapacityBounded
<1> QED
  BY <1>1, StreamInvariance, PTL

\* The buffer holds the unconsumed bytes of the stream, unchanged and in order,
\* through every append, consume and compact.
THEOREM BufferHoldsStream == Spec => []BufferIsStream
<1>1. StreamInv => BufferIsStream
  <2> SUFFICES ASSUME StreamInv PROVE BufferIsStream
    OBVIOUS
  <2> DEFINE size == BufferSize(buffer)
             expected == [i \in 1..(read - consumed) |-> consumed + i]
             moved == Compact(buffer)
  <2>1. /\ SoundBuffer(buffer) /\ HoldsStream(buffer, read) /\ read \in Nat
        /\ consumed \in Nat /\ size = read - consumed
    BY DEF StreamInv, TypeOK
  <2>2. /\ SoundBuffer(moved) /\ HoldsStream(moved, read) /\ BufferSize(moved) = size
        /\ moved.read_offset = 0
    BY <2>1, CompactSound
  <2>3. moved.storage = ReadableBytes(buffer)
    BY DEF Compact
  <2> HIDE DEF moved
  <2>4. /\ moved.storage \in Seq(Nat) /\ Len(moved.storage) = size /\ size \in Nat
    BY <2>2, SoundFields DEF BufferSize
  <2>5. \A i \in 1..size : moved.storage[i] = consumed + i
    BY <2>1, <2>2, <2>4 DEF HoldsStream
  <2> HIDE DEF size
  <2>6. expected \in Seq(Nat) /\ Len(expected) = size
    <3>1. \A i \in 1..size : consumed + i \in Nat
      BY <2>1, <2>4
    <3> QED
      BY <2>1, <2>4, <3>1
  <2>7. \A i \in 1..size : expected[i] = consumed + i
    BY <2>1
  <2> HIDE DEF expected
  <2>8. moved.storage = expected
    BY <2>4, <2>5, <2>6, <2>7, SeqEqual
  <2> QED
    BY <2>3, <2>8 DEF BufferIsStream, expected
<1> QED
  BY <1>1, StreamInvariance, PTL

(***************************************************************************)
(* Where the packets start, by induction over the packets of the stream    *)
(***************************************************************************)

\* A set with 0 and the successor of each of its naturals holds all naturals.
LEMMA AllNaturals ==
    ASSUME NEW S, 0 \in S, \A n \in Nat : n \in S => n + 1 \in S
    PROVE  Nat \subseteq S
<1> DEFINE T == Nat \ S
<1> SUFFICES ASSUME T # {} PROVE FALSE
  OBVIOUS
<1>1. PICK x \in T : \A y \in T : ~ (<<y, x>> \in OpToRel(<, Nat))
  <2>1. T \subseteq Nat
    OBVIOUS
  <2> QED
    BY <2>1, NatLessThanWellFounded, WFMin, Zenon
<1>2. \A y \in T : <<y, x>> \in Nat \X Nat /\ <<y, x>>[1] = y /\ <<y, x>>[2] = x
  OBVIOUS
<1>3. \A y \in T : ~ (y < x)
  BY <1>1, <1>2, Zenon DEF OpToRel
<1>4. x \in Nat /\ x \notin S
  OBVIOUS
<1>5. x # 0 /\ x - 1 \in Nat /\ (x - 1) + 1 = x /\ x - 1 < x
  BY <1>4
<1>6. x - 1 \in S
  BY <1>3, <1>5
<1> QED
  BY <1>4, <1>5, <1>6

\* The size of a packet of the stream.
LEMMA SentSize ==
    ASSUME TypeOK, NEW i \in 1..Len(stream)
    PROVE  PacketSize(stream[i]) \in Nat /\ PacketSize(stream[i]) > 0
<1>1. stream[i] \in Headers
  BY DEF TypeOK
<1>2. stream[i].payload_size \in Nat
  BY <1>1, StreamAssumption, Zenon DEF Headers
<1> QED
  BY <1>2, StreamAssumption DEF PacketSize

\* A packet starts where the one before it ends.
LEMMA StartStep ==
    ASSUME TypeOK
    PROVE  /\ Start(1) = 1
           /\ \A i \in 1..Len(stream) : Start(i + 1) = Start(i) + PacketSize(stream[i])
<1> DEFINE IsStart(n, f) == f = [k \in 1..(n + 1) |-> IF k = 1 THEN 1
                                                      ELSE f[k - 1] + PacketSize(stream[k - 1])]
           S == {n \in Nat : \E f : IsStart(n, f)}
<1>1. 0 \in S
  <2>1. IsStart(0, [k \in 1..(0 + 1) |-> 1])
    OBVIOUS
  <2> QED
    BY <2>1, Zenon
<1>2. ASSUME NEW n \in Nat, n \in S PROVE n + 1 \in S
  <2>1. PICK f : IsStart(n, f)
    BY <1>2
  <2> HIDE DEF IsStart
  <2> DEFINE g == [k \in 1..((n + 1) + 1) |->
                     IF k = n + 2 THEN f[n + 1] + PacketSize(stream[n + 1]) ELSE f[k]]
  <2>2. \A k \in 1..(n + 1) : f[k] = IF k = 1 THEN 1 ELSE f[k - 1] + PacketSize(stream[k - 1])
    BY <2>1, Zenon DEF IsStart
  <2>3. ASSUME NEW k \in 1..((n + 1) + 1)
        PROVE  g[k] = IF k = 1 THEN 1 ELSE g[k - 1] + PacketSize(stream[k - 1])
    <3>1. CASE k = 1
      BY <3>1, <2>2
    <3>2. CASE k # 1
      <4>1. k - 1 \in 1..(n + 1) /\ g[k - 1] = f[k - 1]
        BY <3>2
      <4>2. CASE k = n + 2
        BY <4>1, <4>2, <3>2
      <4>3. CASE k # n + 2
        BY <4>1, <4>3, <3>2, <2>2
      <4> QED
        BY <4>2, <4>3
    <3> QED
      BY <3>1, <3>2
  <2>4. IsStart(n + 1, g)
    BY <2>3 DEF IsStart
  <2> QED
    BY <2>4
<1>3. Len(stream) \in Nat
  BY DEF TypeOK
<1>4. \E f : IsStart(Len(stream), f)
  <2>1. Nat \subseteq S
    <3> HIDE DEF S
    <3> QED
      BY <1>1, <1>2, AllNaturals
  <2> QED
    BY <1>3, <2>1
<1> DEFINE start == CHOOSE f : IsStart(Len(stream), f)
<1>5. \A i : Start(i) = start[i]
  BY DEF Start
<1>6. IsStart(Len(stream), start)
  <2> HIDE DEF IsStart
  <2> QED
    BY <1>4
<1> HIDE DEF start
<1>7. \A k \in 1..(Len(stream) + 1) :
         start[k] = IF k = 1 THEN 1 ELSE start[k - 1] + PacketSize(stream[k - 1])
  BY <1>6, Zenon
<1>8. start[1] = 1
  BY <1>3, <1>7
<1>9. ASSUME NEW i \in 1..Len(stream) PROVE start[i + 1] = start[i] + PacketSize(stream[i])
  <2>1. i + 1 \in 1..(Len(stream) + 1) /\ i + 1 # 1 /\ (i + 1) - 1 = i
    BY <1>3
  <2> QED
    BY <1>7, <2>1, Zenon
<1> QED
  BY <1>5, <1>8, <1>9, Zenon

\* No two packets start at the same byte.
LEMMA StartsIncrease ==
    ASSUME TypeOK, NEW i \in 1..(Len(stream) + 1), NEW j \in 1..(Len(stream) + 1), i < j
    PROVE  Start(i) \in Nat /\ Start(j) \in Nat /\ Start(i) < Start(j)
<1>1. Len(stream) \in Nat
  BY DEF TypeOK
<1>2. ASSUME NEW k \in 1..Len(stream), Start(k) \in Nat
      PROVE  Start(k + 1) \in Nat /\ Start(k) < Start(k + 1)
  <2>1. Start(k + 1) = Start(k) + PacketSize(stream[k])
    BY StartStep, Zenon
  <2>2. PacketSize(stream[k]) \in Nat /\ PacketSize(stream[k]) > 0
    BY SentSize
  <2> QED
    BY <1>2, <2>1, <2>2
<1> DEFINE S == {n \in Nat : n <= Len(stream) => Start(n + 1) \in Nat}
           T == {n \in Nat : i + (n + 1) <= Len(stream) + 1 => Start(i) < Start(i + (n + 1))}
<1>3. \A k \in 1..(Len(stream) + 1) : Start(k) \in Nat
  <2>1. 0 \in S
    <3>1. Start(0 + 1) = 1
      BY StartStep
    <3> QED
      BY <3>1
  <2>2. ASSUME NEW n \in Nat, n \in S PROVE n + 1 \in S
    <3>1. CASE n + 1 <= Len(stream)
      <4>1. n + 1 \in 1..Len(stream) /\ Start(n + 1) \in Nat
        BY <1>1, <2>2, <3>1
      <4>2. Start((n + 1) + 1) \in Nat
        BY <1>2, <4>1, Zenon
      <4> QED
        BY <4>2
    <3>2. CASE ~(n + 1 <= Len(stream))
      BY <3>2
    <3> QED
      BY <3>1, <3>2
  <2>3. Nat \subseteq S
    <3> HIDE DEF S
    <3> QED
      BY <2>1, <2>2, AllNaturals
  <2> TAKE k \in 1..(Len(stream) + 1)
  <2>4. k - 1 \in S /\ k - 1 <= Len(stream) /\ (k - 1) + 1 = k
    <3> HIDE DEF S
    <3> QED
      BY <1>1, <2>3
  <2> QED
    BY <2>4
<1>4. 0 \in T
  <2>1. CASE i + 1 <= Len(stream) + 1
    <3>1. i \in 1..Len(stream) /\ i + (0 + 1) = i + 1
      BY <1>1, <2>1
    <3> QED
      BY <1>2, <1>3, <3>1
  <2>2. CASE ~(i + 1 <= Len(stream) + 1)
    BY <2>2
  <2> QED
    BY <2>1, <2>2
<1>5. ASSUME NEW n \in Nat, n \in T PROVE n + 1 \in T
  <2> DEFINE k == i + (n + 1)
  <2>1. CASE k + 1 <= Len(stream) + 1
    <3>1. k \in 1..Len(stream) /\ k \in 1..(Len(stream) + 1) /\ i + ((n + 1) + 1) = k + 1
          /\ k + 1 \in 1..(Len(stream) + 1)
      BY <1>1, <2>1
    <3>2. Start(i) < Start(k)
      BY <1>1, <1>5, <3>1
    <3> HIDE DEF k
    <3>3. Start(k) < Start(k + 1)
      BY <1>2, <1>3, <3>1, Zenon
    <3>4. Start(i) \in Nat /\ Start(k) \in Nat /\ Start(k + 1) \in Nat
      BY <1>3, <3>1, Zenon
    <3>5. Start(i) < Start(k + 1)
      BY <3>2, <3>3, <3>4
    <3> QED
      BY <3>1, <3>5
  <2>2. CASE ~(k + 1 <= Len(stream) + 1)
    BY <1>1, <2>2
  <2> QED
    BY <2>1, <2>2
<1>6. Nat \subseteq T
  <2> HIDE DEF T
  <2> QED
    BY <1>4, <1>5, AllNaturals
<1>7. (j - i) - 1 \in T /\ i + (((j - i) - 1) + 1) = j /\ j <= Len(stream) + 1
  <2> HIDE DEF T
  <2> QED
    BY <1>1, <1>6
<1>8. Start(i) < Start(j)
  BY <1>7
<1> QED
  BY <1>3, <1>8

(***************************************************************************)
(* Framing                                                                 *)
(***************************************************************************)

Malformed(header) == ~header.known \/ header.payload_size > MaxPayload

\* The inductive invariant: the bytes consumed end where the next packet to handle
\* starts, and no byte beyond the stream is read.
FrameInv ==
    /\ FramingIgnoresChunks
    /\ consumed + 1 = Start(Len(handled) + 1)
    /\ read <= StreamBytes
    /\ state = "rejected" => /\ Len(handled) < Len(stream)
                             /\ Malformed(stream[Len(handled) + 1])

\* The header decode_one reads is that of the next packet to handle, in whatever chunks
\* its bytes have come.
LEMMA NextHeader ==
    ASSUME StreamInv, FrameInv, BufferSize(buffer) > 0
    PROVE  LET first == buffer.storage[buffer.read_offset + 1]
               next == Len(handled) + 1
           IN  /\ next \in 1..Len(stream)
               /\ first = Start(next)
               /\ HeaderAt(first) = stream[next]
<1> DEFINE first == buffer.storage[buffer.read_offset + 1]
           next == Len(handled) + 1
           size == BufferSize(buffer)
<1>1. /\ TypeOK /\ HoldsStream(buffer, read) /\ read \in Nat /\ consumed \in Nat
      /\ size = read - consumed
  BY DEF StreamInv, TypeOK
<1>2. /\ Len(stream) \in Nat /\ Len(handled) \in Nat /\ Len(handled) <= Len(stream)
      /\ consumed + 1 = Start(next) /\ read <= Start(Len(stream) + 1) - 1
  BY <1>1 DEF TypeOK, FrameInv, FramingIgnoresChunks, StreamBytes
<1>3. next \in 1..Len(stream)
  <2>1. CASE next = Len(stream) + 1
    <3>1. read <= (consumed + 1) - 1
      BY <1>2, <2>1, Zenon
    <3> QED
      BY <1>1, <3>1
  <2> QED
    BY <1>2, <2>1
<1>4. first = Start(next)
  <2>1. 1 \in 1..size /\ (read - size) + 1 = consumed + 1
    BY <1>1
  <2>2. first = (read - size) + 1
    BY <1>1, <2>1, Zenon DEF HoldsStream
  <2> QED
    BY <1>2, <2>1, <2>2, Zenon
<1>5. \A i \in 1..Len(stream) : Start(i) = first => i = next
  <2> HIDE DEF first, next
  <2> TAKE i \in 1..Len(stream)
  <2>1. /\ i \in 1..(Len(stream) + 1) /\ next \in 1..(Len(stream) + 1)
        /\ i < next \/ next < i \/ i = next
    BY <1>2, <1>3
  <2>2. i < next => Start(i) \in Nat /\ Start(next) \in Nat /\ Start(i) < Start(next)
    BY <1>1, <2>1, StartsIncrease
  <2>3. next < i => Start(i) \in Nat /\ Start(next) \in Nat /\ Start(next) < Start(i)
    BY <1>1, <2>1, StartsIncrease
  <2> QED
    BY <1>4, <2>1, <2>2, <2>3
<1>6. HeaderAt(first) = stream[next]
  <2> HIDE DEF first, next
  <2>1. \E i \in 1..Len(stream) : Start(i) = first
    BY <1>3, <1>4
  <2>2. (CHOOSE i \in 1..Len(stream) : Start(i) = first) = next
    BY <1>5, <2>1
  <2> QED
    BY <2>1, <2>2, Zenon DEF HeaderAt
<1> QED
  BY <1>3, <1>4, <1>6

\* The stream is what the client sends: no step of the session moves its packets.
LEMMA StreamFixed ==
    ASSUME UNCHANGED stream
    PROVE  StreamBytes' = StreamBytes /\ \A i : Start(i)' = Start(i)
  BY Zenon DEF StreamBytes, Start

\* Nothing is handled before the first byte is read.
LEMMA FrameInitial == StreamInv /\ Init => FrameInv
<1> SUFFICES ASSUME StreamInv, Init PROVE FrameInv
  OBVIOUS
<1>1. /\ TypeOK /\ read = 0 /\ consumed = 0 /\ handled = <<>> /\ Len(handled) = 0
      /\ state = "reading" /\ Len(stream) \in Nat
  BY DEF StreamInv, TypeOK, Init
<1>2. Start(1) = 1
  BY <1>1, StartStep
<1>3. Start(Len(stream) + 1) \in Nat /\ Start(Len(stream) + 1) >= 1
  <2>1. CASE Len(stream) = 0
    BY <1>2, <2>1
  <2>2. CASE Len(stream) # 0
    <3>1. /\ 1 \in 1..(Len(stream) + 1) /\ Len(stream) + 1 \in 1..(Len(stream) + 1)
          /\ 1 < Len(stream) + 1
      BY <1>1, <2>2
    <3>2. Start(Len(stream) + 1) \in Nat /\ Start(1) < Start(Len(stream) + 1)
      BY <1>1, <3>1, StartsIncrease
    <3> QED
      BY <1>2, <3>2
  <2> QED
    BY <2>1, <2>2
<1>4. FramingIgnoresChunks
  BY <1>1 DEF FramingIgnoresChunks
<1>5. read <= StreamBytes
  BY <1>1, <1>3 DEF StreamBytes
<1>6. consumed + 1 = Start(Len(handled) + 1)
  BY <1>1, <1>2
<1> QED
  BY <1>1, <1>4, <1>5, <1>6, Zenon DEF FrameInv

\* A handled packet is the next one of the stream, and a good one.
LEMMA HandleKeepsFrames == StreamInv /\ FrameInv /\ HandlePacket => FrameInv'
<1> SUFFICES ASSUME StreamInv, FrameInv, HandlePacket PROVE FrameInv'
  OBVIOUS
<1> DEFINE first == buffer.storage[buffer.read_offset + 1]
           next == Len(handled) + 1
           header == HeaderAt(first)
<1>1. /\ Decode(buffer) = "packet" /\ BufferSize(buffer) > 0
      /\ handled' = Append(handled, first)
      /\ consumed' = consumed + PacketSize(header)
      /\ state' \in {"processing", "ended"}
      /\ UNCHANGED <<stream, read>>
  BY DEF HandlePacket
<1>2. TypeOK /\ handled \in Seq(Nat) /\ consumed \in Nat /\ Len(stream) \in Nat
  BY DEF StreamInv, TypeOK
<1>3. next \in 1..Len(stream) /\ first = Start(next) /\ header = stream[next]
  BY <1>1, NextHeader, Zenon
<1>4. header.known /\ ~(header.payload_size > MaxPayload)
  BY <1>1 DEF Decode
<1>5. /\ Len(handled) \in Nat /\ consumed + 1 = Start(next) /\ read <= StreamBytes
      /\ \A i \in 1..Len(handled) :
            handled[i] = Start(i) /\ stream[i].known /\ stream[i].payload_size <= MaxPayload
  BY <1>2 DEF FrameInv, FramingIgnoresChunks
<1>6. stream[next].known /\ stream[next].payload_size <= MaxPayload
  <2>1. stream[next] \in Headers
    BY <1>2, <1>3 DEF TypeOK
  <2>2. stream[next].payload_size \in Nat
    BY <2>1, StreamAssumption, Zenon DEF Headers
  <2>3. stream[next].known /\ ~(stream[next].payload_size > MaxPayload)
    BY <1>3, <1>4, Zenon
  <2> QED
    BY <2>2, <2>3, StreamAssumption
<1>7. Start(next + 1) = Start(next) + PacketSize(stream[next])
  BY <1>2, <1>3, StartStep, Zenon
<1>8. Start(next) \in Nat /\ PacketSize(stream[next]) \in Nat
  <2>1. next \in 1..(Len(stream) + 1) /\ next + 1 \in 1..(Len(stream) + 1) /\ next < next + 1
    BY <1>2, <1>3
  <2> QED
    BY <1>2, <1>3, <2>1, StartsIncrease, SentSize
<1>9. /\ Len(handled') = next /\ handled'[next] = first
      /\ \A i \in 1..Len(handled) : handled'[i] = handled[i]
  <2> HIDE DEF first
  <2> QED
    BY <1>1, <1>2
<1>10. consumed' + 1 = Start(next + 1)
  <2>1. consumed' = consumed + PacketSize(stream[next])
    BY <1>1, <1>3, Zenon
  <2> HIDE DEF next
  <2> QED
    BY <1>2, <1>5, <1>7, <1>8, <2>1
<1> HIDE DEF first, next, header
<1>11. \A i \in 1..next :
         handled'[i] = Start(i) /\ stream[i].known /\ stream[i].payload_size <= MaxPayload
  <2> TAKE i \in 1..next
  <2>1. i = next \/ i \in 1..Len(handled)
    BY <1>5 DEF next
  <2> QED
    BY <1>3, <1>5, <1>6, <1>9, <2>1, Zenon
<1>12. StreamBytes' = StreamBytes /\ \A i : Start(i)' = Start(i)
  BY <1>1, StreamFixed
<1>13. FramingIgnoresChunks'
  <2>1. Len(handled') <= Len(stream')
    BY <1>1, <1>2, <1>3, <1>9
  <2> QED
    BY <1>1, <1>9, <1>11, <1>12, <2>1, Zenon DEF FramingIgnoresChunks
<1>14. consumed' + 1 = Start(Len(handled') + 1)
  BY <1>9, <1>10, Zenon
<1>15. (consumed + 1 = Start(Len(handled) + 1))'
  BY <1>12, <1>14, Zenon
<1>16. read' <= StreamBytes' /\ state' # "rejected"
  BY <1>1, <1>5, <1>12
<1> QED
  BY <1>13, <1>15, <1>16, Zenon DEF FrameInv

\* Every step of the session keeps the framing.
LEMMA FrameInductive == StreamInv /\ FrameInv /\ [Next]_vars => FrameInv'
<1> SUFFICES ASSUME StreamInv, FrameInv, [Next]_vars PROVE FrameInv'
  OBVIOUS
<1>1. CASE HandlePacket
  BY <1>1, HandleKeepsFrames
<1>2. CASE ReadChunk
  <2>1. UNCHANGED <<stream, handled, consumed>> /\ state' \in {"processing", "overflow"}
        /\ read' <= StreamBytes
    BY <1>2 DEF ReadChunk
  <2>2. StreamBytes' = StreamBytes /\ \A i : Start(i)' = Start(i)
    BY <2>1, StreamFixed
  <2>3. FramingIgnoresChunks' /\ (consumed + 1 = Start(Len(handled) + 1))'
    BY <2>1, <2>2, Zenon DEF FrameInv, FramingIgnoresChunks
  <2>4. read' <= StreamBytes' /\ state' # "rejected"
    BY <2>1, <2>2
  <2> QED
    BY <2>3, <2>4, Zenon DEF FrameInv
<1>3. CASE RejectMalformed
  <2>1. /\ BufferSize(buffer) > 0 /\ Decode(buffer) = "malformed"
        /\ UNCHANGED <<stream, read, handled, consumed>>
    BY <1>3 DEF RejectMalformed
  <2> DEFINE header == HeaderAt(buffer.storage[buffer.read_offset + 1])
  <2>2. Len(handled) + 1 \in 1..Len(stream) /\ header = stream[Len(handled) + 1]
    BY <2>1, NextHeader, Zenon
  <2>3. Malformed(header)
    BY <2>1 DEF Decode, Malformed
  <2>4. Malformed(stream[Len(handled) + 1])
    BY <2>2, <2>3, Zenon
  <2>5. Len(handled) < Len(stream)
    BY <2>2 DEF StreamInv, TypeOK
  <2>6. StreamBytes' = StreamBytes /\ \A i : Start(i)' = Start(i)
    BY <2>1, StreamFixed
  <2> QED
    BY <2>1, <2>4, <2>5, <2>6, Zenon DEF FrameInv, FramingIgnoresChunks, Malformed
<1>4. CASE ReadFails \/ RefusePacket \/ AwaitMoreBytes
  <2>1. UNCHANGED <<stream, read, handled, consumed>> /\ state' \in {"ended", "reading"}
    BY <1>4 DEF ReadFails, RefusePacket, AwaitMoreBytes
  <2>2. StreamBytes' = StreamBytes /\ (\A i : Start(i)' = Start(i)) /\ state' # "rejected"
    BY <2>1, StreamFixed
  <2> QED
    BY <2>1, <2>2, Zenon DEF FrameInv, FramingIgnoresChunks
<1>5. CASE UNCHANGED vars
  <2>1. StreamBytes' = StreamBytes /\ \A i : Start(i)' = Start(i)
    BY <1>5, StreamFixed, Zenon DEF vars
  <2> QED
    BY <1>5, <2>1, Zenon DEF vars, FrameInv, FramingIgnoresChunks, Malformed
<1> QED
  BY <1>1, <1>2, <1>3, <1>4, <1>5, Zenon DEF Next, Ended

\* The consumed bytes are those of the packets handled, in every reachable state.
LEMMA FrameInvariance == Spec => []FrameInv
<1>1. Init => FrameInv
  BY StreamInitial, FrameInitial
<1> QED
  BY <1>1, FrameInductive, StreamInvariance, PTL DEF Spec

\* However TCP cuts the stream, the packets Session::run handles are the client's from
\* the first one on, each once, and none of them malformed.
THEOREM ChunksDoNotMatter == Spec => []FramingIgnoresChunks
<1>1. FrameInv => FramingIgnoresChunks
  BY DEF FrameInv
<1> QED
  BY <1>1, FrameInvariance, PTL

\* decode_one rejects a session only for a packet that is malformed.
THEOREM GoodPacketsPass == Spec => []OnlyMalformedRejected
<1>1. FrameInv => OnlyMalformedRejected
  BY Zenon DEF FrameInv, OnlyMalformedRejected, Malformed
<1> QED
  BY <1>1, FrameInvariance, PTL
=============================================================================
