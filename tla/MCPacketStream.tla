--------------------------- MODULE MCPacketStream ---------------------------
EXTENDS PacketStream
=============================================================================
