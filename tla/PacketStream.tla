---------------------------- MODULE PacketStream ----------------------------
(***************************************************************************)
(* From TCP chunks to packets: ReceiveBuffer (src/src/network/             *)
(* receive_buffer.cpp), decode_one (src/src/protocol/packet_codec.cpp) and *)
(* the read loop of Session::run that joins them.  The client's bytes are  *)
(* a sequence of packets, of which the first malformed one may say         *)
(* anything; a byte is represented by its position in that stream, so that *)
(* a byte lost, repeated or moved by the buffer is noticed.                *)
(***************************************************************************)
EXTENDS Integers, Sequences, FiniteSets

CONSTANTS
    HeaderSize,         \* wire_header_size
    MaxPayload,         \* max_payload_size
    ChunkSize,          \* tcp_read_chunk_size
    InitialCapacity,    \* initial_capacity of the ReceiveBuffer
    PayloadSizes,       \* what the size field of a header may say
    MaxSent             \* bound: packets of the client's stream

ASSUME StreamAssumption ==
    /\ HeaderSize \in Nat \ {0} /\ ChunkSize \in Nat \ {0}
    /\ MaxPayload \in Nat /\ InitialCapacity \in Nat /\ MaxSent \in Nat
    /\ PayloadSizes \subseteq Nat

\* max_session_buffer_size
MaxBuffered == HeaderSize + MaxPayload + ChunkSize

VARIABLES
    stream,     \* the packets the client sends, as their headers describe them
    read,       \* bytes of the stream read from the socket so far
    buffer,     \* receive_buffer_
    handled,    \* history: first bytes of the packets taken off the buffer
    consumed,   \* history: bytes of those packets
    state       \* place of Session::run

vars == <<stream, read, buffer, handled, consumed, state>>

Headers == [payload_size: PayloadSizes, known: BOOLEAN]

Larger(a, b) == IF a >= b THEN a ELSE b
Smaller(a, b) == IF a <= b THEN a ELSE b

-----------------------------------------------------------------------------
(* The client's stream *)

PacketSize(header) == HeaderSize + header.payload_size

\* Position of the first byte of packet i, for i up to one past the last packet.
Start(i) ==
    LET start[k \in 1..(Len(stream) + 1)] ==
            IF k = 1 THEN 1 ELSE start[k - 1] + PacketSize(stream[k - 1])
    IN  start[i]

StreamBytes == Start(Len(stream) + 1) - 1

\* What the six bytes from a position on say.  Inside a packet they are part of
\* the payload, and the worst they can say is "unknown type".
HeaderAt(position) ==
    IF \E i \in 1..Len(stream) : Start(i) = position
    THEN stream[CHOOSE i \in 1..Len(stream) : Start(i) = position]
    ELSE [payload_size |-> 0, known |-> FALSE]

-----------------------------------------------------------------------------
(* ReceiveBuffer: storage_, read_offset_ and the capacity of storage_ *)

EmptyBuffer ==
    [storage |-> <<>>, read_offset |-> 0, capacity |-> Smaller(InitialCapacity, MaxBuffered)]

BufferSize(b) == Len(b.storage) - b.read_offset

ReadableBytes(b) == SubSeq(b.storage, b.read_offset + 1, Len(b.storage))

\* Mutant of Compact: one byte too many is moved out.
CompactOffByOne(b) ==
    [b EXCEPT !.storage = SubSeq(b.storage, b.read_offset + 2, Len(b.storage)), !.read_offset = 0]

Compact(b) == [storage |-> ReadableBytes(b), read_offset |-> 0, capacity |-> b.capacity]

\* Capacities std::vector may have after an insert of n bytes at its end: the
\* growth rules of libstdc++, of MSVC's library and of libc++.
GrownCapacities(b, n) ==
    LET needed == Len(b.storage) + n IN
    IF needed <= b.capacity
    THEN {b.capacity}
    ELSE {Len(b.storage) + Larger(Len(b.storage), n),
          Larger(b.capacity + b.capacity \div 2, needed),
          Larger(2 * b.capacity, needed)}

\* Mutant of MakeRoom: dead bytes at the front are never reclaimed.
MakeNoRoom(b, n) == b

\* The first half of append: compact when the free tail is too short.
MakeRoom(b, n) ==
    IF b.read_offset # 0 /\ b.capacity - Len(b.storage) < n THEN Compact(b) ELSE b

CanAppend(b, n) == n <= MaxBuffered - BufferSize(b)

\* The buffers append may leave behind.
Appended(b, bytes) ==
    LET room == MakeRoom(b, Len(bytes)) IN
    {[storage |-> room.storage \o bytes, read_offset |-> room.read_offset, capacity |-> c] :
         c \in GrownCapacities(room, Len(bytes))}

Consume(b, n) ==
    IF b.read_offset + n = Len(b.storage)
    THEN [storage |-> <<>>, read_offset |-> 0, capacity |-> b.capacity]
    ELSE [storage |-> b.storage, read_offset |-> b.read_offset + n, capacity |-> b.capacity]

-----------------------------------------------------------------------------
(* decode_one *)

\* Mutant of Decode: the size field is checked when the packet is complete.
DecodeLate(b) ==
    LET header == HeaderAt(b.storage[b.read_offset + 1]) IN
    IF BufferSize(b) < HeaderSize THEN "incomplete"
    ELSE IF ~header.known THEN "malformed"
    ELSE IF BufferSize(b) < PacketSize(header) THEN "incomplete"
    ELSE IF header.payload_size > MaxPayload THEN "malformed"
    ELSE "packet"

\* Mutants of Decode: the packet type is not checked; the largest payload is too
\* large.
DecodeAnyType(b) ==
    LET header == HeaderAt(b.storage[b.read_offset + 1]) IN
    IF BufferSize(b) < HeaderSize THEN "incomplete"
    ELSE IF header.payload_size > MaxPayload THEN "malformed"
    ELSE IF BufferSize(b) < PacketSize(header) THEN "incomplete"
    ELSE "packet"

DecodeBelowMax(b) ==
    LET header == HeaderAt(b.storage[b.read_offset + 1]) IN
    IF BufferSize(b) < HeaderSize THEN "incomplete"
    ELSE IF header.payload_size >= MaxPayload \/ ~header.known THEN "malformed"
    ELSE IF BufferSize(b) < PacketSize(header) THEN "incomplete"
    ELSE "packet"

\* incomplete_header and incomplete_payload; payload_too_large and
\* unknown_packet_type; a packet.
Decode(b) ==
    LET header == HeaderAt(b.storage[b.read_offset + 1]) IN
    IF BufferSize(b) < HeaderSize THEN "incomplete"
    ELSE IF header.payload_size > MaxPayload \/ ~header.known THEN "malformed"
    ELSE IF BufferSize(b) < PacketSize(header) THEN "incomplete"
    ELSE "packet"

-----------------------------------------------------------------------------
(* Session::run *)

TypeOK ==
    /\ stream \in Seq(Headers)
    /\ read \in Nat
    /\ buffer \in [storage: Seq(Nat), read_offset: Nat, capacity: Nat]
    /\ buffer.read_offset <= Len(buffer.storage)
    /\ handled \in Seq(Nat)
    /\ consumed \in Nat
    /\ state \in {"reading", "processing", "rejected", "overflow", "ended"}

Init ==
    /\ stream \in UNION {[1..n -> Headers] : n \in 0..MaxSent}
    /\ read = 0
    /\ buffer = EmptyBuffer
    /\ handled = <<>>
    /\ consumed = 0
    /\ state = "reading"

\* async_read_some returns between one byte and a full chunk of what the client
\* has sent, and the bytes are appended.
ReadChunk ==
    /\ state = "reading"
    /\ \E n \in 1..ChunkSize :
          /\ read + n <= StreamBytes
          /\ read' = read + n
          /\ IF CanAppend(buffer, n)
             THEN /\ buffer' \in Appended(buffer, [i \in 1..n |-> read + i])
                  /\ state' = "processing"
             ELSE state' = "overflow" /\ UNCHANGED buffer
    /\ UNCHANGED <<stream, handled, consumed>>

\* End of stream, a read error, or the session is stopped by its writer.
ReadFails ==
    /\ state = "reading"
    /\ state' = "ended"
    /\ UNCHANGED <<stream, read, buffer, handled, consumed>>

\* A packet is handled and consumed; a ping whose answer cannot be queued is
\* consumed too and ends the session.
HandlePacket ==
    /\ state = "processing"
    /\ BufferSize(buffer) > 0
    /\ Decode(buffer) = "packet"
    /\ state' \in {"processing", "ended"}
    /\ LET first == buffer.storage[buffer.read_offset + 1] IN
          /\ handled' = Append(handled, first)
          /\ buffer' = Consume(buffer, PacketSize(HeaderAt(first)))
          /\ consumed' = consumed + PacketSize(HeaderAt(first))
    /\ UNCHANGED <<stream, read>>

\* A packet the session refuses ends the session before it is consumed.
RefusePacket ==
    /\ state = "processing"
    /\ BufferSize(buffer) > 0
    /\ Decode(buffer) = "packet"
    /\ state' = "ended"
    /\ UNCHANGED <<stream, read, buffer, handled, consumed>>

RejectMalformed ==
    /\ state = "processing"
    /\ BufferSize(buffer) > 0
    /\ Decode(buffer) = "malformed"
    /\ state' = "rejected"
    /\ UNCHANGED <<stream, read, buffer, handled, consumed>>

AwaitMoreBytes ==
    /\ state = "processing"
    /\ BufferSize(buffer) = 0 \/ Decode(buffer) = "incomplete"
    /\ state' = "reading"
    /\ UNCHANGED <<stream, read, buffer, handled, consumed>>

Ended == state \in {"rejected", "overflow", "ended"} /\ UNCHANGED vars

Next ==
    \/ ReadChunk \/ ReadFails \/ HandlePacket \/ RefusePacket \/ RejectMalformed
    \/ AwaitMoreBytes \/ Ended

Spec == Init /\ [][Next]_vars

-----------------------------------------------------------------------------

\* The readable bytes are the bytes read and not yet consumed, in stream order:
\* append, consume and compact together lose, repeat or move none.
BufferIsStream ==
    ReadableBytes(buffer) = [i \in 1..(read - consumed) |-> consumed + i]

\* However TCP cuts the stream into chunks, the packets handled are the client's
\* packets from the first one on, each once, and none of them malformed.
FramingIgnoresChunks ==
    /\ Len(handled) <= Len(stream)
    /\ \A i \in 1..Len(handled) :
          /\ handled[i] = Start(i)
          /\ stream[i].known /\ stream[i].payload_size <= MaxPayload

\* A session is rejected for its framing only when the packet after the handled
\* ones is malformed: no cut of the stream makes a good packet look bad.
OnlyMalformedRejected ==
    state = "rejected" =>
        LET next == stream[Len(handled) + 1] IN ~next.known \/ next.payload_size > MaxPayload

\* Whenever a session reads, a full chunk fits: max_session_buffer_size leaves
\* room for it behind the longest incomplete packet, so append never fails and
\* a client is never disconnected for "receive buffer limit exceeded".
ReadFits ==
    /\ state = "reading" => BufferSize(buffer) + ChunkSize <= MaxBuffered
    /\ state # "overflow"

\* The memory of a receive buffer is bounded although consumed bytes stay in front
\* of the readable ones: storage_ never outgrows twice the limit.
CapacityBounded ==
    /\ Len(buffer.storage) <= buffer.capacity
    /\ buffer.capacity <= 2 * MaxBuffered
=============================================================================
