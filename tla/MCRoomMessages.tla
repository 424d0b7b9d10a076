--------------------------- MODULE MCRoomMessages ---------------------------
(* A room of three members: two are online, and send at once.              *)
EXTENDS RoomMessages

MCTwo      == {1, 2}
=============================================================================
