----------------------------- MODULE MCRoomSave -----------------------------
(* One user with two friends, and the room of each pair.                   *)
EXTENDS RoomSave

MCUser  == 1..3
MCRoom  == 1..2
MCChats == <<  <<1, 2>>, <<1>>, <<2>>  >>
=============================================================================
