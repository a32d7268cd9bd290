---------------------------- MODULE MCRoomWorker ----------------------------
EXTENDS RoomWorker
=============================================================================
