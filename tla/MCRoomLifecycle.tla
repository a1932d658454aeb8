--------------------------- MODULE MCRoomLifecycle ---------------------------
\* Instances of RoomLifecycle for TLC.
EXTENDS RoomLifecycle
=============================================================================
