--------------------------- MODULE MCRoomFanout ---------------------------
EXTENDS RoomFanout, TLC
Symm == Permutations(Updates)
=============================================================================
