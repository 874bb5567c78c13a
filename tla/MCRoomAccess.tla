---------------------------- MODULE MCRoomAccess ----------------------------
(* Model values and small sets for model-checking RoomAccess. *)
EXTENDS RoomAccess

CONSTANTS known, stranger   \* a registered card and one that is not

MCCards      == {known, stranger}
MCRegistered == {known}
=============================================================================
