---------------------------- MODULE MCPacketCodec ----------------------------
EXTENDS PacketCodec
=============================================================================
