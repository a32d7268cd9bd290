----------------------------- MODULE PacketCodec -----------------------------
(***************************************************************************)
(* The wire format, byte by byte: decode_one and encode_packet             *)
(* (src/src/protocol/packet_codec.cpp), the gameplay payloads              *)
(* (src/src/protocol/gameplay_payload.cpp) and encode_room_event           *)
(* (src/src/network/room_event_encoder.cpp), three pieces of code that     *)
(* each have their own idea of big-endian integers.  A sender encodes      *)
(* messages onto the wire, TCP cuts the bytes anywhere, and a receiver     *)
(* decodes what has arrived.  A byte has ByteBase values (256 in the code),*)
(* so that TLC's integers hold eight of them; offsets and widths are those *)
(* of the code.                                                            *)
(***************************************************************************)
EXTENDS Integers, Sequences, SequencesExt

CONSTANTS
    ByteBase,       \* values of a byte
    MaxPayload,     \* max_payload_size
    MaxMessages     \* bound: messages sent in one run

\* Packet types fit into two bytes and a byte can be halved for the sign.
ASSUME CodecAssumption ==
    /\ ByteBase \in Nat /\ ByteBase % 2 = 0 /\ ByteBase * ByteBase > 103
    /\ MaxPayload \in Nat /\ MaxMessages \in Nat

HeaderSize == 6

\* bit_cast between int32_t and uint32_t
ToBits(x) == x % ByteBase^4

FromBits(bits) == IF bits >= ByteBase^4 \div 2 THEN bits - ByteBase^4 ELSE bits

-----------------------------------------------------------------------------
(* packet_codec.cpp *)

PacketTypes ==
    [ping |-> 1, join_room |-> 2, move |-> 3, attack |-> 4, leave_room |-> 5,
     player_joined |-> 101, player_moved |-> 102, player_left |-> 103]

IsKnown(type) == type \in Range(PacketTypes)

\* The native integer in memory, least significant byte first, swapped.
WriteBigEndian(value, width) ==
    Reverse([i \in 1..width |-> (value \div ByteBase^(i - 1)) % ByteBase])

ReadBigEndian(bytes, offset, width) ==
    FoldRight(LAMBDA byte, value : value * ByteBase + byte,
              Reverse(SubSeq(bytes, offset + 1, offset + width)), 0)

Failed(error) == [error |-> error]

\* Mutant of DecodeOne: the limit counts the header, so the largest payload is refused.
DecodeOneWithHeader(bytes) ==
    LET payload_size == ReadBigEndian(bytes, 0, 4)
        type == ReadBigEndian(bytes, 4, 2)
        total_size == HeaderSize + payload_size
    IN  IF Len(bytes) < HeaderSize THEN Failed("incomplete_header")
        ELSE IF total_size > MaxPayload THEN Failed("payload_too_large")
        ELSE IF ~IsKnown(type) THEN Failed("unknown_packet_type")
        ELSE IF Len(bytes) < total_size THEN Failed("incomplete_payload")
        ELSE [error |-> "none", type |-> type, consumed |-> total_size,
              payload |-> SubSeq(bytes, HeaderSize + 1, total_size)]

DecodeOne(bytes) ==
    LET payload_size == ReadBigEndian(bytes, 0, 4)
        type == ReadBigEndian(bytes, 4, 2)
        total_size == HeaderSize + payload_size
    IN  IF Len(bytes) < HeaderSize THEN Failed("incomplete_header")
        ELSE IF payload_size > MaxPayload THEN Failed("payload_too_large")
        ELSE IF ~IsKnown(type) THEN Failed("unknown_packet_type")
        ELSE IF Len(bytes) < total_size THEN Failed("incomplete_payload")
        ELSE [error |-> "none", type |-> type, consumed |-> total_size,
              payload |-> SubSeq(bytes, HeaderSize + 1, total_size)]

IsIncomplete(error) == error \in {"incomplete_header", "incomplete_payload"}

\* A size that fits max_payload_size fits the four bytes of its field.
EncodePacket(type, payload) ==
    IF Len(payload) > MaxPayload THEN Failed("payload_too_large")
    ELSE IF ~IsKnown(type) THEN Failed("unknown_packet_type")
    ELSE [error |-> "none", bytes |-> WriteBigEndian(Len(payload), 4)
                                        \o WriteBigEndian(type, 2) \o payload]

-----------------------------------------------------------------------------
(* gameplay_payload.cpp *)

ReadUint16(bytes, offset) == bytes[offset + 1] * ByteBase + bytes[offset + 2]

ReadUint32(bytes, offset) ==
    bytes[offset + 1] * ByteBase^3 + bytes[offset + 2] * ByteBase^2
       + bytes[offset + 3] * ByteBase + bytes[offset + 4]

ReadUint64(bytes, offset) ==
    FoldLeft(LAMBDA value, byte : value * ByteBase + byte, 0,
             SubSeq(bytes, offset + 1, offset + 8))

WriteUint32(value) ==
    <<(value \div ByteBase^3) % ByteBase, (value \div ByteBase^2) % ByteBase,
      (value \div ByteBase) % ByteBase, value % ByteBase>>

ValidateEmptyPayload(payload) == payload = <<>>

EncodeMovePayload(x, y) == WriteUint32(ToBits(x)) \o WriteUint32(ToBits(y))

\* The decoders give a message, or Refused for a payload of another size.
Refused == [type |-> 0]

DecodeMovePayload(payload) ==
    IF Len(payload) # 8
    THEN Refused
    ELSE [type |-> PacketTypes.move,
          x |-> FromBits(ReadUint32(payload, 0)), y |-> FromBits(ReadUint32(payload, 4))]

DecodePlayerStatePayload(type, payload) ==
    IF Len(payload) # 16
    THEN Refused
    ELSE [type |-> type, session_id |-> ReadUint64(payload, 0),
          x |-> FromBits(ReadUint32(payload, 8)), y |-> FromBits(ReadUint32(payload, 12))]

DecodePlayerLeftPayload(payload) ==
    IF Len(payload) # 10
    THEN Refused
    ELSE [type |-> PacketTypes.player_left, session_id |-> ReadUint64(payload, 0),
          reason |-> ReadUint16(payload, 8)]

-----------------------------------------------------------------------------
(* room_event_encoder.cpp *)

\* The loop of shifts.
EncoderWrite(value, width) ==
    [i \in 1..width |-> (value \div ByteBase^(width - i)) % ByteBase]

\* Mutant of WritePosition: the coordinates change places.
WritePositionSwapped(x, y) == EncoderWrite(ToBits(y), 4) \o EncoderWrite(ToBits(x), 4)

WritePosition(x, y) == EncoderWrite(ToBits(x), 4) \o EncoderWrite(ToBits(y), 4)

EncodeRoomEvent(event) ==
    EncodePacket(event.type,
        EncoderWrite(event.session_id, 8)
           \o (IF event.type = PacketTypes.player_left
               THEN EncoderWrite(event.reason, 2)
               ELSE WritePosition(event.x, event.y)))

-----------------------------------------------------------------------------
(* Messages: what the program sends, with values at the ends of their ranges *)

Coordinates == {-(ByteBase^4 \div 2), -1, 1, ByteBase^4 \div 2 - 1}
SessionIds == {1, ByteBase^4, ByteBase^8 - 1}

\* A pair of coordinates that tells its halves apart.
Positions == {p \in Coordinates \X Coordinates : p[1] # p[2]}

Pings == [type: {PacketTypes.ping},
          payload: {[i \in 1..n |-> i % ByteBase] : n \in {0, 1, MaxPayload}}]
Empties == [type: {PacketTypes.join_room, PacketTypes.leave_room}]
Moves == {[type |-> PacketTypes.move, x |-> p[1], y |-> p[2]] : p \in Positions}
PlayerStates == {[type |-> type, session_id |-> id, x |-> p[1], y |-> p[2]] :
                   type \in {PacketTypes.player_joined, PacketTypes.player_moved},
                   id \in SessionIds, p \in Positions}
PlayersLeft == [type: {PacketTypes.player_left}, session_id: SessionIds, reason: 1..6]

Events == PlayerStates \cup PlayersLeft

\* Packets of another protocol version: an unknown type, or a payload beyond the limit.
Foreign == [type: {0, 6, 104}, size: {0}] \cup [type: {PacketTypes.ping}, size: {MaxPayload + 1}]

Messages == Pings \cup Empties \cup Moves \cup Events \cup Foreign

Encode(message) ==
    CASE message \in Pings -> EncodePacket(PacketTypes.ping, message.payload)
      [] message \in Empties -> EncodePacket(message.type, <<>>)
      [] message \in Moves -> EncodePacket(PacketTypes.move, EncodeMovePayload(message.x, message.y))
      [] message \in Events -> EncodeRoomEvent(message)
      [] message \in Foreign ->
            [error |-> "none", bytes |-> WriteBigEndian(message.size, 4) \o WriteBigEndian(message.type, 2)
                                            \o [i \in 1..message.size |-> 0]]

\* How the receivers read a packet, by its type.
Interpret(packet) ==
    CASE packet.type = PacketTypes.ping -> [type |-> packet.type, payload |-> packet.payload]
      [] packet.type \in {PacketTypes.join_room, PacketTypes.leave_room} ->
            IF ValidateEmptyPayload(packet.payload) THEN [type |-> packet.type] ELSE Refused
      [] packet.type = PacketTypes.move -> DecodeMovePayload(packet.payload)
      [] packet.type \in {PacketTypes.player_joined, PacketTypes.player_moved} ->
            DecodePlayerStatePayload(packet.type, packet.payload)
      [] packet.type = PacketTypes.player_left -> DecodePlayerLeftPayload(packet.payload)
      [] OTHER -> Refused

-----------------------------------------------------------------------------
(* Sender, wire and receiver *)

VARIABLES
    sent,       \* messages given to the encoders
    wire,       \* bytes under way
    buffer,     \* bytes arrived and not yet consumed
    received,   \* messages decoded
    rejected    \* the receiver has found a packet malformed

vars == <<sent, wire, buffer, received, rejected>>

Init ==
    /\ sent = <<>> /\ received = <<>>
    /\ wire = <<>> /\ buffer = <<>>
    /\ rejected = FALSE

Send ==
    /\ Len(sent) < MaxMessages
    /\ \E message \in Messages :
          /\ sent' = Append(sent, message)
          /\ IF Encode(message).error = "none"
             THEN wire' = wire \o Encode(message).bytes
             ELSE UNCHANGED wire
    /\ UNCHANGED <<buffer, received, rejected>>

\* The receiver asks for more when decode_one calls what it has incomplete.
Arrive ==
    /\ ~rejected
    /\ IsIncomplete(DecodeOne(buffer).error)
    /\ \E n \in 1..Len(wire) :
          /\ buffer' = buffer \o SubSeq(wire, 1, n)
          /\ wire' = SubSeq(wire, n + 1, Len(wire))
    /\ UNCHANGED <<sent, received, rejected>>

Handle ==
    LET packet == DecodeOne(buffer) IN
    /\ ~rejected
    /\ packet.error = "none"
    /\ buffer' = SubSeq(buffer, packet.consumed + 1, Len(buffer))
    /\ received' = Append(received, Interpret(packet))
    /\ UNCHANGED <<sent, wire, rejected>>

Reject ==
    /\ ~rejected
    /\ DecodeOne(buffer).error \in {"payload_too_large", "unknown_packet_type"}
    /\ rejected' = TRUE
    /\ UNCHANGED <<sent, wire, buffer, received>>

Next == Send \/ Arrive \/ Handle \/ Reject
Spec == Init /\ [][Next]_vars

-----------------------------------------------------------------------------
(* Properties *)

\* What the receiver reads is what was sent, in order and with every value, although
\* encoders and decoders are written separately and TCP cuts anywhere; nothing
\* that has arrived in full stays behind, and no encoder refuses what it is given.
ReceivedIsSent ==
    /\ received = SubSeq(sent, 1, Len(received))
    /\ wire = <<>> /\ ~rejected /\ DecodeOne(buffer).error # "none"
          => received = sent \/ DecodeOne(buffer).error \in {"payload_too_large", "unknown_packet_type"}

\* A packet is refused only for what its sender wrote, never for a part of it that has
\* arrived: every proper prefix of a packet of this protocol is incomplete.
OnlyForeignRejected == rejected => sent[Len(received) + 1] \in Foreign
=============================================================================
