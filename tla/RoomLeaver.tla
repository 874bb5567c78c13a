----------------------------- MODULE RoomLeaver -----------------------------
(***************************************************************************)
(* RoomAccess with a record of the users who are leaving: the database     *)
(* daemon has marked them outside, and the door is not yet free for them.  *)
(***************************************************************************)
EXTENDS MCRoomAccess

VARIABLES
  behind,  \* the cards of the users marked outside who have no free door yet
  unseen   \* those of them when the PIR thread's last question was answered

leaverVars == <<roomVars, behind, unseen>>

LeaverInit == RoomInit /\ behind = {} /\ unseen = {}

DoorIsFreed     == at["exit"] = "unlock" /\ at'["exit"] = "log"
PirIsAnswered   == ~Answering("pir") /\ Answering("pir")'
AlarmIsCalled   == at["pir"] = "alarm" /\ at'["pir"] = "alert"

LeaverNext ==
  /\ RoomNext
  /\ behind' = (IF DoorIsFreed THEN {} ELSE behind) \union (isInside \ isInside')
  /\ unseen' = IF PirIsAnswered THEN behind ELSE unseen

LeaverSpec == LeaverInit /\ [][LeaverNext]_leaverVars

(* Movement does not call the alarm for a user who was inside, has shown a  *)
(* card to leave and still stands behind the door, both when the daemon is  *)
(* asked and when the alarm is called (C_tCheckMovement.cpp:26 "Ask DB if   *)
(* there is a user inside the room.").                                      *)
NoAlarmForLeavingUser ==
  [][ AlarmIsCalled => behind \intersect unseen = {} ]_leaverVars
=============================================================================
