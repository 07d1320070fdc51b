------------------------------- MODULE MCHub -------------------------------
(***************************************************************************)
(* Small instances of Hub: every connection is for the same room.          *)
(***************************************************************************)
EXTENDS HubProperties

CONSTANTS m1

OneRoom == [c \in Clients |-> m1]
=============================================================================
