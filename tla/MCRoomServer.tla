---------------------------- MODULE MCRoomServer ----------------------------
EXTENDS RoomServerInv
=============================================================================
