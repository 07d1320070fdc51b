---------------------------- MODULE MCRoomPages ----------------------------
(***************************************************************************)
(* Small instances of RoomPages.  Rounds come in order, so nothing is      *)
(* interchangeable but the players.                                        *)
(***************************************************************************)
EXTENDS RoomPagesProperties
=============================================================================
